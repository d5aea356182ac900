---------------------------- MODULE GuardianProofs ----------------------------
(***************************************************************************)
(* Theorems about module Guardian, for every number of services, pids and  *)
(* restarts, every policy and every set of faults: the budget of restarts, *)
(* the main loop of run_guardian, and its pace.                            *)
(*                                                                         *)
(* Then that it never loses sight of a service, provided fork() in         *)
(* do_restart succeeds and a pid is not reused while the table names it    *)
(* (the run PidReuse shows how the code loses one otherwise).  And every   *)
(* service process has its entry, no service runs twice, none is given up  *)
(* early and a shutdown reaches all: provided also that the table has room *)
(* for every service and add_service does not fail on the working          *)
(* directory.                                                              *)
(***************************************************************************)
EXTENDS Guardian, ServiceTableTheorems

-----------------------------------------------------------------------------
(* The table on its own: entries are typed, no service has two of them,    *)
(* the restarts counted in an entry account for the processes started, and *)
(* a scheduled restart is within the limit.                                *)
SvcDistinct(tbl) ==
  \A i, j \in DOMAIN tbl : tbl[i].svc = tbl[j].svc => i = j
Accounted(tbl, st) ==
  \A i \in DOMAIN tbl :
    1 <= st[tbl[i].svc] /\ st[tbl[i].svc] <= tbl[i].restart_count + 1
WithinLimit(tbl) ==
  \A i \in DOMAIN tbl :
    IsScheduled(tbl[i]) => tbl[i].restart_count < MAX_RESTARTS
TableOK(tbl, st) ==
  /\ tbl \in Seq(EntryType) /\ Len(tbl) <= MAX_SERVICES
  /\ SvcDistinct(tbl) /\ Accounted(tbl, st) /\ WithinLimit(tbl)

BudgetInv == TypeOK /\ TableOK(services, starts) /\ RestartBudget

(* The part of it that does not rest on a line being run once in a boot:   *)
(* it holds of whatever table add_service may build.                       *)
Typed == TypeOK /\ WithinLimit(services)

(* The delay is at least one second, so that next_restart = 0 can mean     *)
(* that nothing is scheduled, and at most BACKOFF_MAX_SECS.                *)
LEMMA BackoffRange ==
  ASSUME NEW n \in Nat
  PROVE  compute_backoff(n) \in 1 .. BACKOFF_MAX_SECS
BY DEF compute_backoff, Doubled, BACKOFF_MAX_SECS

(* The indices of a table are those of a sequence, and each slot holds an  *)
(* entry. Stated once, because the provers unfold Seq poorly.              *)
LEMMA IndexBasics ==
  ASSUME NEW E, NEW tbl \in Seq(E)
  PROVE  /\ Len(tbl) \in Nat /\ DOMAIN tbl = 1 .. Len(tbl)
         /\ \A i \in DOMAIN tbl : tbl[i] \in E
BY ElementOfSeq

(* What handle_child_exit does to the table: nothing, schedule one entry,  *)
(* or drop one entry, whose pid is the reaped one.                         *)
LEMMA AfterExitCases ==
  ASSUME services \in Seq(EntryType), NEW pid, NEW ok \in BOOLEAN
  PROVE  LET tbl == TableAfterExit(pid, ok)
         IN  \/ ~IsRegistered(services, pid) /\ tbl = services
             \/ \E i \in DOMAIN services :
                  /\ services[i].pid = pid /\ WantsRestart(services[i], ok)
                  /\ tbl = [services EXCEPT ![i] = Schedule(services[i])]
             \/ \E i \in DOMAIN services :
                  /\ services[i].pid = pid /\ ~WantsRestart(services[i], ok)
                  /\ tbl = DropSlot(services, i)
<1>1. CASE ~IsRegistered(services, pid)
  BY <1>1 DEF TableAfterExit
<1>2. CASE IsRegistered(services, pid)
  <2> DEFINE i == FindService(services, pid)
  <2>1. i \in DOMAIN services /\ services[i].pid = pid
    BY <1>2, FindServiceFinds
  <2> HIDE DEF i
  <2>2. TableAfterExit(pid, ok) =
          IF WantsRestart(services[i], ok)
          THEN [services EXCEPT ![i] = Schedule(services[i])]
          ELSE DropSlot(services, i)
    BY <1>2 DEF TableAfterExit, RemoveService, i
  <2> QED  BY <2>1, <2>2
<1> QED  BY <1>1, <1>2

-----------------------------------------------------------------------------
(* Each operation on the table keeps it in order.                          *)
LEMMA AddKeepsTable ==
  ASSUME NEW st \in [Services -> Nat], TableOK(services, st),
         NEW s \in Services, st[s] = 0, NEW p \in Pids
  PROVE  TableOK(AddService(services, s, p), [st EXCEPT ![s] = 1])
<1> DEFINE st1 == [st EXCEPT ![s] = 1]
           e == Entry(s, p)
<1>1. services \in Seq(EntryType) /\ e \in EntryType
  BY GuardianAssumption DEF TableOK, Entry, EntryType
<1>2. Len(services) \in Nat /\ DOMAIN services = 1 .. Len(services)
        /\ \A i \in DOMAIN services : services[i] \in EntryType
  BY <1>1, IndexBasics
<1>3. \A i \in DOMAIN services : services[i].svc \in Services /\ services[i].svc # s
  BY <1>2 DEF TableOK, Accounted, EntryType
<1>4. CASE IsFull(services)
  <2>1. Accounted(services, st1)
    BY <1>2, <1>3 DEF TableOK, Accounted
  <2> QED  BY <1>4, <2>1 DEF TableOK, AddService
<1>5. CASE ~IsFull(services)
  <2> DEFINE tbl == Append(services, e)
  <2>1. /\ tbl \in Seq(EntryType) /\ Len(tbl) = Len(services) + 1
        /\ DOMAIN tbl = 1 .. Len(services) + 1
        /\ \A i \in DOMAIN services : tbl[i] = services[i]
        /\ tbl[Len(services) + 1] = e
    BY <1>1, <1>2, AppendProperties
  <2> HIDE DEF tbl
  <2>2. Len(tbl) <= MAX_SERVICES
    BY <1>5, <1>2, <2>1, MaxServicesAssumption DEF IsFull
  <2>3. e.svc = s /\ e.restart_count = 0 /\ ~IsScheduled(e)
    BY DEF Entry, IsScheduled
  <2>4. SvcDistinct(tbl)
    BY <1>2, <1>3, <2>1, <2>3 DEF TableOK, SvcDistinct
  <2>5. Accounted(tbl, st1)
    <3> SUFFICES ASSUME NEW i \in DOMAIN tbl
                 PROVE  /\ 1 <= st1[tbl[i].svc]
                        /\ st1[tbl[i].svc] <= tbl[i].restart_count + 1
      BY DEF Accounted
    <3>1. CASE i \in DOMAIN services
      BY <3>1, <1>3, <2>1 DEF TableOK, Accounted
    <3>2. CASE i = Len(services) + 1
      BY <3>2, <2>1, <2>3
    <3> QED  BY <3>1, <3>2, <1>2, <2>1
  <2>6. WithinLimit(tbl)
    BY <1>2, <2>1, <2>3 DEF TableOK, WithinLimit
  <2> QED  BY <1>5, <2>1, <2>2, <2>4, <2>5, <2>6 DEF TableOK, AddService, tbl
<1> QED  BY <1>4, <1>5

(* Scheduling an entry stamps next_restart with a time past zero, so the   *)
(* entry reads as scheduled, and leaves its service, pid and count alone.  *)
LEMMA ScheduleEntry ==
  ASSUME NEW e \in EntryType, now \in Nat
  PROVE  /\ Schedule(e) \in EntryType /\ IsScheduled(Schedule(e))
         /\ Schedule(e).svc = e.svc /\ Schedule(e).pid = e.pid
         /\ Schedule(e).restart_count = e.restart_count
<1> DEFINE t == now + compute_backoff(e.restart_count)
<1>1. e.restart_count \in Nat
  BY GuardianAssumption DEF EntryType
<1>2. t \in Nat /\ t > 0
  BY <1>1, BackoffRange DEF BACKOFF_MAX_SECS
<1> HIDE DEF t
<1>3. [e EXCEPT !.next_restart = t] \in EntryType
  BY <1>2 DEF EntryType
<1>4. Schedule(e) = [e EXCEPT !.next_restart = t]
  BY DEF Schedule, t
<1> QED  BY <1>2, <1>3, <1>4 DEF EntryType, IsScheduled

(* handle_child_exit may schedule an entry and the table stays consistent: *)
(* the should_restart guard gives a count below the limit.                 *)
LEMMA ScheduleKeepsTable ==
  ASSUME NEW st \in [Services -> Nat], TableOK(services, st), now \in Nat,
         NEW i \in DOMAIN services, NEW ok, WantsRestart(services[i], ok)
  PROVE  TableOK([services EXCEPT ![i] = Schedule(services[i])], st)
<1> DEFINE e == Schedule(services[i])
           tbl == [services EXCEPT ![i] = e]
<1>1. services \in Seq(EntryType)
  BY DEF TableOK
<1>2. Len(services) \in Nat /\ DOMAIN services = 1 .. Len(services)
        /\ \A j \in DOMAIN services : services[j] \in EntryType
  BY <1>1, IndexBasics
<1>3. /\ e \in EntryType /\ e.svc = services[i].svc
      /\ e.restart_count = services[i].restart_count
      /\ e.restart_count < MAX_RESTARTS
  <2>1. services[i] \in EntryType
    BY <1>2
  <2> QED  BY <2>1, ScheduleEntry DEF WantsRestart
<1>4. /\ tbl \in Seq(EntryType) /\ Len(tbl) = Len(services)
      /\ DOMAIN tbl = DOMAIN services
      /\ \A j \in DOMAIN tbl : tbl[j] = IF j = i THEN e ELSE services[j]
  BY <1>1, <1>2, <1>3, ExceptSeq
<1> HIDE DEF tbl, e
<1>5. SvcDistinct(tbl)
  BY <1>3, <1>4 DEF TableOK, SvcDistinct
<1>6. Accounted(tbl, st)
  BY <1>3, <1>4 DEF TableOK, Accounted
<1>7. WithinLimit(tbl)
  BY <1>3, <1>4 DEF TableOK, WithinLimit
<1> QED  BY <1>4, <1>5, <1>6, <1>7 DEF TableOK, tbl, e

(* Taking one entry out of the table and closing the gap, as the free-slot *)
(* branch of handle_child_exit does, keeps the rest consistent.            *)
LEMMA DropKeepsTable ==
  ASSUME NEW st \in [Services -> Nat], TableOK(services, st),
         NEW i \in DOMAIN services
  PROVE  TableOK(DropSlot(services, i), st)
<1> DEFINE tbl == DropSlot(services, i)
           old(k) == IF k < i THEN k ELSE k + 1
<1>1. services \in Seq(EntryType)
  BY DEF TableOK
<1>2. Len(services) \in Nat /\ DOMAIN services = 1 .. Len(services)
  BY <1>1, IndexBasics
<1>3. /\ tbl \in Seq(EntryType) /\ Len(tbl) = Len(services) - 1
      /\ DOMAIN tbl = 1 .. Len(services) - 1
      /\ \A k \in DOMAIN tbl :
           old(k) \in DOMAIN services /\ tbl[k] = services[old(k)]
  <2>1. /\ tbl \in Seq(EntryType) /\ Len(tbl) = Len(services) - 1
        /\ DOMAIN tbl = 1 .. Len(services) - 1
        /\ \A k \in 1 .. Len(services) - 1 :
             tbl[k] = IF k < i THEN services[k] ELSE services[k + 1]
    BY <1>1, DropSlotProperties
  <2> HIDE DEF tbl
  <2>2. ASSUME NEW k \in DOMAIN tbl
        PROVE  old(k) \in DOMAIN services /\ tbl[k] = services[old(k)]
    BY <1>2, <2>1
  <2> QED  BY <2>1, <2>2
<1> HIDE DEF tbl
<1>4. Len(tbl) <= MAX_SERVICES
  BY <1>2, <1>3, MaxServicesAssumption DEF TableOK
<1>5. SvcDistinct(tbl)
  BY <1>2, <1>3 DEF TableOK, SvcDistinct
<1>6. Accounted(tbl, st) /\ WithinLimit(tbl)
  BY <1>3 DEF TableOK, Accounted, WithinLimit
<1> QED  BY <1>3, <1>4, <1>5, <1>6 DEF TableOK, tbl

(* process_restarts counts one restart, stores the new pid and clears      *)
(* next_restart; below the limit the result is still an entry.             *)
LEMMA RestartedEntry ==
  ASSUME NEW e \in EntryType, e.restart_count < MAX_RESTARTS,
         NEW p \in Pids \cup {NoPid}
  PROVE  /\ Restarted(e, p) \in EntryType /\ ~IsScheduled(Restarted(e, p))
         /\ Restarted(e, p).svc = e.svc /\ Restarted(e, p).pid = p
         /\ Restarted(e, p).restart_count = e.restart_count + 1
<1> DEFINE n == e.restart_count + 1
           r == [e EXCEPT !.pid = p, !.restart_count = n, !.next_restart = 0]
<1>1. n \in 0 .. MAX_RESTARTS
  BY GuardianAssumption DEF EntryType
<1>2. Restarted(e, p) = r
  BY DEF Restarted
<1> HIDE DEF n
<1>3. /\ r \in EntryType /\ r.next_restart = 0
      /\ r.svc = e.svc /\ r.pid = p /\ r.restart_count = n
  BY <1>1 DEF EntryType
<1> HIDE DEF r
<1> QED  BY <1>2, <1>3 DEF IsScheduled, n

(* A restart keeps the table consistent, whether its fork succeeded (one   *)
(* more start) or not (none).                                              *)
LEMMA RestartKeepsTable ==
  ASSUME NEW st \in [Services -> Nat], TableOK(services, st),
         NEW i \in DOMAIN services, IsScheduled(services[i]),
         NEW p \in Pids \cup {NoPid},
         NEW st1 \in [Services -> Nat],
         \/ st1 = st
         \/ st1 = [st EXCEPT ![services[i].svc] = @ + 1]
  PROVE  TableOK([services EXCEPT ![i] = Restarted(services[i], p)], st1)
<1> DEFINE e == Restarted(services[i], p)
           tbl == [services EXCEPT ![i] = e]
<1>1. services \in Seq(EntryType)
  BY DEF TableOK
<1>2. Len(services) \in Nat /\ DOMAIN services = 1 .. Len(services)
        /\ \A j \in DOMAIN services : services[j] \in EntryType
  BY <1>1, IndexBasics
<1>3. /\ e \in EntryType /\ e.svc = services[i].svc
      /\ e.restart_count = services[i].restart_count + 1
      /\ ~IsScheduled(e)
  <2>1. services[i] \in EntryType /\ services[i].restart_count < MAX_RESTARTS
    BY <1>2 DEF TableOK, WithinLimit
  <2> QED  BY <2>1, RestartedEntry
<1>4. /\ tbl \in Seq(EntryType) /\ Len(tbl) = Len(services)
      /\ DOMAIN tbl = DOMAIN services
      /\ \A j \in DOMAIN tbl : tbl[j] = IF j = i THEN e ELSE services[j]
  BY <1>1, <1>2, <1>3, ExceptSeq
<1> HIDE DEF tbl, e
<1>5. SvcDistinct(tbl)
  BY <1>3, <1>4 DEF TableOK, SvcDistinct
<1>6. Accounted(tbl, st1)
  <2> SUFFICES ASSUME NEW j \in DOMAIN services
               PROVE  /\ 1 <= st1[tbl[j].svc]
                      /\ st1[tbl[j].svc] <= tbl[j].restart_count + 1
    BY <1>4 DEF Accounted
  <2>1. services[j] \in EntryType /\ services[i] \in EntryType
    BY <1>2
  <2>2. /\ services[j].svc \in Services /\ services[i].svc \in Services
        /\ services[i].restart_count \in Nat /\ services[j].restart_count \in Nat
    BY <2>1, GuardianAssumption DEF EntryType
  <2>3. /\ 1 <= st[services[j].svc]
        /\ st[services[j].svc] <= services[j].restart_count + 1
    BY DEF TableOK, Accounted
  <2>4. CASE j = i
    BY <2>2, <2>3, <2>4, <1>3, <1>4
  <2>5. CASE j # i
    <3>1. services[j].svc # services[i].svc
      BY <2>5 DEF TableOK, SvcDistinct
    <3>2. st1[services[j].svc] = st[services[j].svc]
      BY <2>2, <3>1
    <3> QED  BY <2>3, <2>5, <3>2, <1>4
  <2> QED  BY <2>4, <2>5
<1>7. WithinLimit(tbl)
  BY <1>3, <1>4 DEF TableOK, WithinLimit
<1> QED  BY <1>4, <1>5, <1>6, <1>7 DEF TableOK, tbl, e

-----------------------------------------------------------------------------
(* The invariant of the table includes its types.                          *)
LEMMA BudgetTyped == BudgetInv => Typed
BY DEF BudgetInv, TableOK, Typed

(* add_service leaves the entries as they were and may append one.         *)
LEMMA AddEntries ==
  ASSUME Typed, NEW s \in Services, NEW p \in Pids \cup {NoPid}
  PROVE  LET tbl == AddService(services, s, p)
         IN  /\ tbl \in Seq(EntryType) /\ Len(tbl) <= MAX_SERVICES
             /\ \A j \in DOMAIN tbl :
                  \/ tbl[j] = Entry(s, p) /\ j = Len(services) + 1
                  \/ j \in DOMAIN services /\ tbl[j] = services[j]
<1> DEFINE e == Entry(s, p)
<1>1. services \in Seq(EntryType) /\ e \in EntryType /\ Len(services) <= MAX_SERVICES
  BY GuardianAssumption DEF Typed, TypeOK, Entry, EntryType
<1>2. Len(services) \in Nat /\ DOMAIN services = 1 .. Len(services)
  BY <1>1, IndexBasics
<1> HIDE DEF e
<1>3. CASE IsFull(services)
  BY <1>1, <1>3 DEF AddService
<1>4. CASE ~IsFull(services)
  <2> DEFINE tbl == Append(services, e)
  <2>1. /\ tbl \in Seq(EntryType) /\ Len(tbl) = Len(services) + 1
        /\ DOMAIN tbl = 1 .. Len(services) + 1
        /\ \A i \in DOMAIN services : tbl[i] = services[i]
        /\ tbl[Len(services) + 1] = e
    BY <1>1, <1>2, AppendProperties
  <2>2. AddService(services, s, p) = tbl
    BY <1>4 DEF AddService, e
  <2>3. Len(services) + 1 <= MAX_SERVICES
    BY <1>2, <1>4, MaxServicesAssumption DEF IsFull
  <2> HIDE DEF tbl
  <2> QED  BY <1>2, <2>1, <2>2, <2>3 DEF e
<1> QED  BY <1>3, <1>4

(* Every entry that handle_child_exit leaves is an old one, untouched or   *)
(* with a restart scheduled.                                               *)
LEMMA AfterExitEntries ==
  ASSUME Typed
  PROVE  LET tbl == TableAfterExit(reaped.pid, reaped.ok)
         IN  /\ tbl \in Seq(EntryType) /\ Len(tbl) <= MAX_SERVICES
             /\ \A j \in DOMAIN tbl : \E i \in DOMAIN services :
                  \/ tbl[j] = services[i]
                  \/ WantsRestart(services[i], reaped.ok) /\ tbl[j] = Schedule(services[i])
<1> DEFINE pid == reaped.pid
           ok == reaped.ok
           tbl == TableAfterExit(pid, ok)
           Is(t) == /\ t \in Seq(EntryType) /\ Len(t) <= MAX_SERVICES
                    /\ \A j \in DOMAIN t : \E i \in DOMAIN services :
                         \/ t[j] = services[i]
                         \/ WantsRestart(services[i], ok) /\ t[j] = Schedule(services[i])
<1>1. services \in Seq(EntryType) /\ ok \in BOOLEAN /\ now \in Nat
        /\ Len(services) <= MAX_SERVICES
  BY DEF Typed, TypeOK
<1>2. /\ Len(services) \in Nat /\ DOMAIN services = 1 .. Len(services)
      /\ \A i \in DOMAIN services : services[i] \in EntryType
  BY <1>1, IndexBasics
<1> SUFFICES Is(tbl)
  OBVIOUS
<1> HIDE DEF pid, ok
<1>3. \/ tbl = services
      \/ \E i \in DOMAIN services :
           /\ WantsRestart(services[i], ok)
           /\ tbl = [services EXCEPT ![i] = Schedule(services[i])]
      \/ \E i \in DOMAIN services : tbl = DropSlot(services, i)
  BY <1>1, AfterExitCases
<1> HIDE DEF tbl
<1>4. Is(services)
  BY <1>1
<1>5. ASSUME NEW i \in DOMAIN services, WantsRestart(services[i], ok),
             tbl = [services EXCEPT ![i] = Schedule(services[i])]
      PROVE  Is(tbl)
  <2> DEFINE e == Schedule(services[i])
  <2>1. e \in EntryType
    BY <1>1, <1>2, ScheduleEntry
  <2> HIDE DEF e
  <2>2. /\ tbl \in Seq(EntryType) /\ Len(tbl) = Len(services)
        /\ DOMAIN tbl = DOMAIN services
        /\ \A j \in DOMAIN tbl : tbl[j] = IF j = i THEN e ELSE services[j]
    BY <1>1, <1>5, <2>1, ExceptSeq DEF e
  <2> QED  BY <1>1, <1>5, <2>2 DEF e
<1>6. ASSUME NEW i \in DOMAIN services, tbl = DropSlot(services, i)
      PROVE  Is(tbl)
  <2>1. /\ tbl \in Seq(EntryType) /\ Len(tbl) = Len(services) - 1
        /\ DOMAIN tbl = 1 .. Len(services) - 1
        /\ \A k \in 1 .. Len(services) - 1 :
             tbl[k] = IF k < i THEN services[k] ELSE services[k + 1]
    BY <1>1, <1>6, DropSlotProperties
  <2>2. Len(tbl) <= MAX_SERVICES
    BY <1>1, <1>2, <2>1, MaxServicesAssumption
  <2>3. ASSUME NEW j \in DOMAIN tbl
        PROVE  \E k \in DOMAIN services : tbl[j] = services[k]
    <3>1. j \in DOMAIN services /\ j + 1 \in DOMAIN services
      BY <1>2, <2>1
    <3> QED  BY <2>1, <3>1
  <2> QED  BY <2>1, <2>2, <2>3
<1> HIDE DEF Is
<1> QED  BY <1>3, <1>4, <1>5, <1>6

(* do_restart rewrites the one entry it is about.                          *)
LEMMA RestartEntries ==
  ASSUME Typed, NEW i \in DOMAIN services, IsScheduled(services[i]),
         NEW p \in Pids \cup {NoPid},
         services' = [services EXCEPT ![i] = Restarted(services[i], p)]
  PROVE  /\ services[i] \in EntryType /\ Restarted(services[i], p) \in EntryType
         /\ services' \in Seq(EntryType) /\ Len(services') = Len(services)
         /\ DOMAIN services' = DOMAIN services
         /\ \A j \in DOMAIN services :
              services'[j] = IF j = i THEN Restarted(services[i], p) ELSE services[j]
<1> DEFINE e == Restarted(services[i], p)
<1>1. /\ services \in Seq(EntryType)
      /\ \A j \in DOMAIN services : services[j] \in EntryType
  BY IndexBasics DEF Typed, TypeOK
<1>2. services[i] \in EntryType /\ services[i].restart_count < MAX_RESTARTS
  BY <1>1 DEF Typed, WithinLimit
<1>3. e \in EntryType
  BY <1>2, RestartedEntry
<1> HIDE DEF e
<1>4. /\ services' \in Seq(EntryType) /\ Len(services') = Len(services)
      /\ DOMAIN services' = DOMAIN services
      /\ \A j \in DOMAIN services : services'[j] = IF j = i THEN e ELSE services[j]
  BY <1>1, <1>3, ExceptSeq DEF e
<1> QED  BY <1>2, <1>3, <1>4 DEF e

(* A fork leaves the kernel's process table well typed.                    *)
LEMMA SpawnType ==
  ASSUME TypeOK, NEW p \in Pids, NEW s \in Services \cup {NoService}, Spawn(p, s)
  PROVE  /\ state' \in [Pids -> {"free", "running", "zombie"}]
         /\ command' \in [Pids -> Services \cup {NoService}]
         /\ clean' \in [Pids -> BOOLEAN]
BY DEF TypeOK, Spawn

(* waitpid leaves the kernel's process table and the status it returns     *)
(* well typed.                                                             *)
LEMMA ReapType ==
  ASSUME TypeOK, NEW p \in Pids, Reap(p)
  PROVE  /\ state' \in [Pids -> {"free", "running", "zombie"}]
         /\ command' \in [Pids -> Services \cup {NoService}]
         /\ clean' \in [Pids -> BOOLEAN]
         /\ reaped' \in [pid: Pids \cup {NoPid}, ok: BOOLEAN]
BY DEF TypeOK, Reap

(* Every step keeps the types and the limit, one case per action.          *)
LEMMA TypedStep == Typed /\ [Next]_vars => Typed'
<1> SUFFICES ASSUME Typed, [Next]_vars PROVE Typed'
  OBVIOUS
<1>0. TypeOK /\ WithinLimit(services)
  BY DEF Typed
<1>1. CASE UNCHANGED vars \/ Terminated
  <2>1. UNCHANGED vars
    BY <1>1 DEF Terminated
  <2> QED  BY <1>0, <2>1 DEF vars, kernel, history, TypeOK, WithinLimit, Typed
<1>2. CASE Boot \/ EndShell \/ WaitNothing \/ RestartDone \/ DrainDone
             \/ BootFails \/ SignalBeforeHandler \/ Tick
  <2>1. UNCHANGED services
    BY <1>2 DEF Boot, EndShell, WaitNothing, RestartDone, DrainDone, BootFails,
                SignalBeforeHandler, Tick
  <2>2. TypeOK'
    BY <1>0, <1>2
       DEF Boot, EndShell, WaitNothing, RestartDone, DrainDone, BootFails,
           SignalBeforeHandler, Tick, kernel, history, TypeOK, Exited, LoopTop,
           GuardianPoints
  <2> QED  BY <1>0, <2>1, <2>2 DEF WithinLimit, Typed
<1>3. ASSUME NEW s \in Services, NEW p \in Pids, Register(s, p) \/ RegisterFails(s, p)
      PROVE  Typed'
  <2>1. /\ starts' = [starts EXCEPT ![s] = 1] /\ Spawn(p, s)
        /\ UNCHANGED <<now, shutting_down, pc, reaped, exit_code, signalled, orphans>>
        /\ services' = services \/ services' = AddService(services, s, p)
    BY <1>3 DEF Register, RegisterFails, Launch
  <2>2. ~IsScheduled(Entry(s, p))
    BY DEF Entry, IsScheduled
  <2>3. /\ services' \in Seq(EntryType) /\ Len(services') <= MAX_SERVICES
        /\ WithinLimit(services')
    <3>1. LET tbl == AddService(services, s, p)
          IN  /\ tbl \in Seq(EntryType) /\ Len(tbl) <= MAX_SERVICES
              /\ \A j \in DOMAIN tbl :
                   \/ tbl[j] = Entry(s, p)
                   \/ j \in DOMAIN services /\ tbl[j] = services[j]
      BY AddEntries
    <3>2. WithinLimit(AddService(services, s, p))
      BY <1>0, <2>2, <3>1 DEF WithinLimit
    <3> QED  BY <1>0, <2>1, <3>1, <3>2 DEF TypeOK
  <2> QED  BY <1>0, <2>1, <2>3, SpawnType DEF TypeOK, Typed
<1>4. ASSUME NEW p \in Pids, DrainReap(p) \/ WaitReap(p)
      PROVE  Typed'
  <2>1. /\ Reap(p) /\ pc # "exited" /\ pc' \in {"drain_handle", "handle"}
        /\ UNCHANGED <<services, now, shutting_down, exit_code, history, orphans>>
    BY <1>4 DEF DrainReap, WaitReap
  <2> QED
    BY <1>0, <2>1, ReapType DEF TypeOK, history, GuardianPoints, WithinLimit, Typed
<1>5. CASE HandleChildExit \/ ReexecFails
  <2> DEFINE tbl == TableAfterExit(reaped.pid, reaped.ok)
  <2>1. /\ services' = tbl /\ reaped' = Nothing
        /\ UNCHANGED <<kernel, now, shutting_down, history, orphans>>
        /\ \/ pc \in {"drain_handle", "handle"} /\ UNCHANGED exit_code
                /\ pc' \in {"drain", "restart"}
           \/ Exited("failure")
    BY <1>5 DEF HandleChildExit, ReexecFails
  <2>2. Nothing \in [pid: Pids \cup {NoPid}, ok: BOOLEAN]
    BY DEF Nothing
  <2>3. \A i \in DOMAIN services : services[i] \in EntryType
    BY <1>0, IndexBasics DEF TypeOK
  <2>4. \A i \in DOMAIN services :
          /\ Schedule(services[i]).restart_count = services[i].restart_count
          /\ WantsRestart(services[i], reaped.ok)
               => services[i].restart_count < MAX_RESTARTS
    BY <1>0, <2>3, ScheduleEntry DEF TypeOK, WantsRestart
  <2>5. tbl \in Seq(EntryType) /\ Len(tbl) <= MAX_SERVICES /\ WithinLimit(tbl)
    <3>1. /\ tbl \in Seq(EntryType) /\ Len(tbl) <= MAX_SERVICES
          /\ \A j \in DOMAIN tbl : \E i \in DOMAIN services :
               \/ tbl[j] = services[i]
               \/ WantsRestart(services[i], reaped.ok) /\ tbl[j] = Schedule(services[i])
      BY AfterExitEntries
    <3> HIDE DEF tbl
    <3> QED  BY <1>0, <2>4, <3>1 DEF WithinLimit
  <2> HIDE DEF tbl
  <2> QED
    BY <1>0, <2>1, <2>2, <2>5
       DEF TypeOK, kernel, history, Exited, GuardianPoints, Typed
<1>6. CASE Reexec
  <2>1. /\ services' = <<>> /\ starts' = [s \in Services |-> 0]
        /\ reaped' = Nothing /\ pc' = "boot" /\ now' = 0
        /\ pc \in {"drain_handle", "handle"}
        /\ UNCHANGED <<kernel, shutting_down, exit_code, signalled, orphans>>
    BY <1>6 DEF Reexec
  <2>2. /\ services' \in Seq(EntryType) /\ Len(services') <= MAX_SERVICES
        /\ WithinLimit(services') /\ Nothing \in [pid: Pids \cup {NoPid}, ok: BOOLEAN]
    BY <2>1, MaxServicesAssumption DEF WithinLimit, Nothing
  <2> QED  BY <1>0, <2>1, <2>2 DEF TypeOK, kernel, Typed
<1>7. ASSUME NEW i \in 1 .. MAX_SERVICES, NEW p \in Pids \cup {NoPid},
             \/ RestartForkFails(i) /\ p = NoPid
             \/ p \in Pids /\ RestartOne(i, p)
      PROVE  Typed'
  <2>1. /\ i \in DOMAIN services /\ IsScheduled(services[i])
        /\ services' = [services EXCEPT ![i] = Restarted(services[i], p)]
        /\ UNCHANGED <<now, shutting_down, pc, reaped, exit_code, signalled, orphans>>
        /\ \/ UNCHANGED <<kernel, starts>>
           \/ /\ starts' = [starts EXCEPT ![services[i].svc] = @ + 1]
              /\ p \in Pids /\ Spawn(p, services[i].svc)
    BY <1>7 DEF RestartForkFails, RestartOne, IsFirstDue, IsDue, history
  <2>2. /\ services[i] \in EntryType
        /\ services' \in Seq(EntryType) /\ Len(services') = Len(services)
        /\ DOMAIN services' = DOMAIN services
        /\ \A j \in DOMAIN services :
             services'[j] = IF j = i THEN Restarted(services[i], p) ELSE services[j]
    BY <2>1, RestartEntries
  <2>3. services[i].svc \in Services
    BY <2>2 DEF EntryType
  <2>4. ~IsScheduled(Restarted(services[i], p))
    <3>1. services[i].restart_count < MAX_RESTARTS
      BY <1>0, <2>1 DEF WithinLimit
    <3> QED  BY <2>2, <3>1, RestartedEntry
  <2>5. WithinLimit(services')
    <3>1. ASSUME NEW j \in DOMAIN services', IsScheduled(services'[j])
          PROVE  services'[j].restart_count < MAX_RESTARTS
      <4>1. j # i /\ services'[j] = services[j]
        BY <2>2, <2>4, <3>1
      <4> QED  BY <1>0, <2>2, <3>1, <4>1 DEF WithinLimit
    <3> QED  BY <3>1 DEF WithinLimit
  <2>6. starts' \in [Services -> Nat]
    <3>1. starts' = starts \/ starts' = [starts EXCEPT ![services[i].svc] = @ + 1]
      BY <2>1
    <3> QED  BY <1>0, <2>3, <3>1 DEF TypeOK
  <2>7. /\ state' \in [Pids -> {"free", "running", "zombie"}]
        /\ command' \in [Pids -> Services \cup {NoService}]
        /\ clean' \in [Pids -> BOOLEAN]
    <3>1. CASE UNCHANGED kernel
      BY <1>0, <3>1 DEF TypeOK, kernel
    <3>2. CASE p \in Pids /\ Spawn(p, services[i].svc)
      BY <1>0, <2>3, <3>2, SpawnType
    <3> QED  BY <2>1, <3>1, <3>2
  <2> QED  BY <1>0, <2>1, <2>2, <2>5, <2>6, <2>7 DEF TypeOK, Typed
<1>8. CASE SignalInShell \/ SignalInGuardian
  <2>1. UNCHANGED <<services, kernel, now, reaped, starts, orphans>>
          /\ shutting_down' = TRUE /\ Forward
          /\ \/ pc = "shell" /\ UNCHANGED <<pc, exit_code>>
             \/ Exited("success")
    BY <1>8 DEF SignalInShell, SignalInGuardian
  <2>2. signalled' \subseteq Pids
    BY <1>0, <2>1 DEF Forward, Live, TypeOK
  <2> QED  BY <1>0, <2>1, <2>2 DEF TypeOK, kernel, Exited, WithinLimit, Typed
<1>9. ASSUME NEW p \in Pids, Adopt(p)
      PROVE  Typed'
  <2>1. orphans' \in 0 .. MaxOrphans
    BY <1>0, <1>9, GuardianAssumption DEF Adopt, TypeOK
  <2> QED
    BY <1>0, <1>9, <2>1, SpawnType DEF Adopt, TypeOK, history, WithinLimit, Typed
<1>10. ASSUME NEW p \in Pids, NEW ok \in BOOLEAN, Exit(p, ok)
       PROVE  Typed'
  BY <1>0, <1>10 DEF Exit, TypeOK, WithinLimit, Typed
<1>11. ASSUME NEW i \in 1 .. MAX_SERVICES,
              RestartForkFails(i) \/ \E p \in Pids : RestartOne(i, p)
       PROVE  Typed'
  BY <1>7, <1>11
<1> QED
  BY <1>1, <1>2, <1>3, <1>4, <1>5, <1>6, <1>8, <1>9, <1>10, <1>11
     DEF Next, GuardianStep, ShellStep, Environment

-----------------------------------------------------------------------------
(* The invariant of the table is inductive.                                *)
LEMMA BudgetInit == Init => BudgetInv
<1> SUFFICES ASSUME Init PROVE BudgetInv
  OBVIOUS
<1>1. services = <<>> /\ services \in Seq(EntryType) /\ Len(services) = 0
        /\ DOMAIN services = {}
  BY DEF Init
<1>2. TableOK(services, starts)
  BY <1>1, MaxServicesAssumption
     DEF TableOK, SvcDistinct, Accounted, WithinLimit
<1>3. RestartBudget
  BY GuardianAssumption DEF Init, RestartBudget
<1>4. TypeOK
  <2>1. Len(services) <= MAX_SERVICES
    BY <1>1, MaxServicesAssumption
  <2>2. Nothing \in [pid: Pids \cup {NoPid}, ok: BOOLEAN]
    BY DEF Nothing
  <2>3. 0 \in 0 .. MaxOrphans
    BY GuardianAssumption
  <2> QED  BY <1>1, <2>1, <2>2, <2>3 DEF Init, TypeOK, GuardianPoints
<1> QED  BY <1>2, <1>3, <1>4 DEF BudgetInv

(* A step that touches neither the table nor the history of starts keeps   *)
(* everything said about them.                                             *)
LEMMA SameTable ==
  ASSUME BudgetInv, UNCHANGED <<services, starts>>
  PROVE  TableOK(services, starts)' /\ RestartBudget'
BY DEF BudgetInv, TableOK, SvcDistinct, Accounted, WithinLimit, RestartBudget

(* Whatever handle_child_exit makes of the reaped pid, the table is        *)
(* consistent afterwards: the three cases of AfterExitCases.               *)
LEMMA TableAfterExitOK ==
  ASSUME BudgetInv
  PROVE  TableOK(TableAfterExit(reaped.pid, reaped.ok), starts)
<1>1. /\ TableOK(services, starts) /\ starts \in [Services -> Nat] /\ now \in Nat
      /\ services \in Seq(EntryType) /\ reaped.ok \in BOOLEAN
  BY DEF BudgetInv, TypeOK
<1> QED  BY <1>1, AfterExitCases, ScheduleKeepsTable, DropKeepsTable

(* Every step of the guardian keeps the budget invariant, one case per     *)
(* action.                                                                 *)
LEMMA BudgetStep == BudgetInv /\ [Next]_vars => BudgetInv'
<1> SUFFICES ASSUME BudgetInv, [Next]_vars PROVE BudgetInv'
  OBVIOUS
<1>0. TypeOK /\ TypeOK' /\ TableOK(services, starts) /\ RestartBudget
  BY BudgetTyped, TypedStep DEF BudgetInv, Typed
<1> SUFFICES TableOK(services', starts') /\ RestartBudget'
  BY <1>0 DEF BudgetInv
<1>1. CASE UNCHANGED <<services, starts>>
  BY <1>1, SameTable
<1>2. CASE \/ UNCHANGED vars \/ Boot \/ EndShell \/ WaitNothing \/ RestartDone
           \/ DrainDone \/ BootFails \/ SignalBeforeHandler \/ Terminated
           \/ SignalInShell \/ SignalInGuardian \/ Tick
           \/ \E p \in Pids : \/ DrainReap(p) \/ WaitReap(p) \/ Adopt(p)
                              \/ \E ok \in BOOLEAN : Exit(p, ok)
  <2>1. UNCHANGED <<services, starts>>
    BY <1>2 DEF Boot, EndShell, WaitNothing, RestartDone, DrainDone, BootFails,
                SignalBeforeHandler, Terminated, SignalInShell, SignalInGuardian,
                Tick, DrainReap, WaitReap, Adopt, Exit, vars, history
  <2> QED  BY <1>1, <2>1
<1>3. ASSUME NEW s \in Services, NEW p \in Pids, Register(s, p) \/ RegisterFails(s, p)
      PROVE  TableOK(services', starts') /\ RestartBudget'
  <2>1. starts[s] = 0 /\ starts' = [starts EXCEPT ![s] = 1]
    BY <1>3 DEF Register, RegisterFails, Launch
  <2>2. starts \in [Services -> Nat]
    BY <1>0 DEF TypeOK
  <2>3. TableOK(services', starts')
    <3>1. CASE Register(s, p)
      BY <3>1, <2>1, <2>2, <1>0, AddKeepsTable DEF Register
    <3>2. CASE RegisterFails(s, p)
      <4>1. services' = services
        BY <3>2 DEF RegisterFails
      <4>2. /\ Len(services) \in Nat /\ DOMAIN services = 1 .. Len(services)
            /\ \A i \in DOMAIN services : services[i] \in EntryType
        BY <1>0, IndexBasics DEF TableOK
      <4>3. \A i \in DOMAIN services :
              services[i].svc \in Services /\ services[i].svc # s
        BY <2>1, <4>2, <1>0 DEF TableOK, Accounted, EntryType
      <4>4. Accounted(services, starts')
        BY <2>1, <2>2, <4>3, <1>0 DEF TableOK, Accounted
      <4> QED  BY <4>1, <4>4, <1>0 DEF TableOK
    <3> QED  BY <1>3, <3>1, <3>2
  <2>4. RestartBudget'
    BY <2>1, <2>2, <1>0, GuardianAssumption DEF RestartBudget
  <2> QED  BY <2>3, <2>4
<1>4. CASE HandleChildExit \/ ReexecFails
  <2>1. services' = TableAfterExit(reaped.pid, reaped.ok) /\ starts' = starts
    BY <1>4 DEF HandleChildExit, ReexecFails, history
  <2> QED  BY <1>0, <2>1, TableAfterExitOK DEF RestartBudget
<1>5. CASE Reexec
  <2>1. services' = <<>> /\ starts' = [s \in Services |-> 0]
    BY <1>5 DEF Reexec
  <2>2. services' \in Seq(EntryType) /\ Len(services') = 0 /\ DOMAIN services' = {}
    BY <2>1
  <2>3. TableOK(services', starts')
    BY <2>2, MaxServicesAssumption DEF TableOK, SvcDistinct, Accounted, WithinLimit
  <2>4. RestartBudget'
    BY <2>1, GuardianAssumption DEF RestartBudget
  <2> QED  BY <2>3, <2>4
<1>6. ASSUME NEW i \in 1 .. MAX_SERVICES,
             RestartForkFails(i) \/ \E p \in Pids : RestartOne(i, p)
      PROVE  TableOK(services', starts') /\ RestartBudget'
  <2>1. i \in DOMAIN services /\ IsScheduled(services[i])
    BY <1>6 DEF RestartForkFails, RestartOne, IsFirstDue, IsDue
  <2>2. /\ starts \in [Services -> Nat]
        /\ services[i].svc \in Services /\ services[i].restart_count \in Nat
        /\ services[i].restart_count < MAX_RESTARTS
        /\ starts[services[i].svc] <= services[i].restart_count + 1
    <3>1. services[i] \in EntryType
      BY <2>1, <1>0, IndexBasics DEF TableOK
    <3>2. services[i].svc \in Services /\ services[i].restart_count \in Nat
      BY <3>1, GuardianAssumption DEF EntryType
    <3>3. /\ services[i].restart_count < MAX_RESTARTS
          /\ starts[services[i].svc] <= services[i].restart_count + 1
      BY <2>1, <1>0 DEF TableOK, WithinLimit, Accounted
    <3> QED  BY <1>0, <3>2, <3>3 DEF TypeOK
  <2>3. CASE RestartForkFails(i)
    <3>1. /\ services' = [services EXCEPT ![i] = Restarted(services[i], NoPid)]
          /\ starts' = starts
      BY <2>3 DEF RestartForkFails, history
    <3>2. TableOK(services', starts')
      BY <3>1, <2>1, <2>2, <1>0, RestartKeepsTable
    <3> QED  BY <3>1, <3>2, <1>0 DEF RestartBudget
  <2>4. ASSUME NEW p \in Pids, RestartOne(i, p)
        PROVE  TableOK(services', starts') /\ RestartBudget'
    <3>1. /\ services' = [services EXCEPT ![i] = Restarted(services[i], p)]
          /\ starts' = [starts EXCEPT ![services[i].svc] = @ + 1]
      BY <2>4 DEF RestartOne
    <3>2. starts' \in [Services -> Nat]
      BY <3>1, <2>2
    <3>3. TableOK(services', starts')
      BY <3>1, <3>2, <2>1, <2>2, <1>0, RestartKeepsTable
    <3>4. RestartBudget'
      BY <3>1, <2>2, <1>0, GuardianAssumption DEF RestartBudget
    <3> QED  BY <3>3, <3>4
  <2> QED  BY <1>6, <2>3, <2>4
<1> QED
  BY <1>2, <1>3, <1>4, <1>5, <1>6 DEF Next, GuardianStep, ShellStep, Environment

(* Type correctness, for every value of the constants and every fault.     *)
THEOREM TypeCorrect == Spec => []TypeOK
<1>1. BudgetInv => TypeOK
  BY DEF BudgetInv
<1> QED  BY BudgetInit, BudgetStep, <1>1, PTL DEF Spec

(* No boot starts a service more than MAX_RESTARTS + 1 times, whatever     *)
(* fails: failed forks, reused pids, refused registrations.                *)
THEOREM BudgetKept == Spec => []RestartBudget
<1>1. BudgetInv => RestartBudget
  BY DEF BudgetInv
<1> QED  BY BudgetInit, BudgetStep, <1>1, PTL DEF Spec

-----------------------------------------------------------------------------
(* The main loop of run_guardian: when it blocks, when it goes on, what it *)
(* does after a signal, and how fast it restarts.                          *)
Unscheduled(tbl) == \A i \in DOMAIN tbl : ~IsScheduled(tbl[i])

(* The blocking waitpid is entered only with no restart scheduled.         *)
BlocksUnscheduled == pc = "block" => ~HasDeadline(services)

LoopInv ==
  /\ Typed
  /\ KeepsGuarding
  /\ BlocksUnscheduled
  /\ pc \in {"boot", "shell"} \/ (shutting_down /\ pc # "exited")
       => Unscheduled(services)

-----------------------------------------------------------------------------
(* After a signal handle_child_exit schedules nothing.                     *)
LEMMA AfterExitUnscheduled ==
  ASSUME Typed, shutting_down, Unscheduled(services)
  PROVE  Unscheduled(TableAfterExit(reaped.pid, reaped.ok))
<1> DEFINE tbl == TableAfterExit(reaped.pid, reaped.ok)
<1>1. \A j \in DOMAIN tbl : \E i \in DOMAIN services : tbl[j] = services[i]
  BY AfterExitEntries DEF WantsRestart
<1> HIDE DEF tbl
<1>2. Unscheduled(tbl)
  BY <1>1 DEF Unscheduled
<1> QED  BY <1>2 DEF tbl

(* add_service schedules nothing.                                          *)
LEMMA AddUnscheduled ==
  ASSUME Typed, Unscheduled(services),
         NEW s \in Services, NEW p \in Pids \cup {NoPid}
  PROVE  Unscheduled(AddService(services, s, p))
<1>1. ~IsScheduled(Entry(s, p))
  BY DEF Entry, IsScheduled
<1> QED  BY <1>1, AddEntries DEF Unscheduled

(* A restart changes one entry, and leaves that one without a deadline.    *)
LEMMA RestartFrame ==
  ASSUME Typed, NEW i \in DOMAIN services, IsScheduled(services[i]),
         NEW p \in Pids \cup {NoPid},
         services' = [services EXCEPT ![i] = Restarted(services[i], p)]
  PROVE  /\ Len(services') = Len(services)
         /\ Unscheduled(services) => Unscheduled(services')
<1>1. Len(services') = Len(services)
  BY RestartEntries
<1> QED  BY <1>1 DEF Unscheduled

-----------------------------------------------------------------------------
(* The loop invariant holds at boot: the table is empty, so no restart can *)
(* be overslept.                                                           *)
LEMMA LoopInit == Init => LoopInv
<1> SUFFICES ASSUME Init PROVE LoopInv
  OBVIOUS
<1>1. services = <<>> /\ DOMAIN services = {} /\ pc = "boot"
  BY DEF Init
<1> QED
  BY <1>1, BudgetInit, BudgetTyped
     DEF LoopInv, KeepsGuarding, BlocksUnscheduled, Unscheduled

(* Every step keeps the loop invariant: at the blocking wait of            *)
(* guardian_loop no restart is left scheduled.                             *)
LEMMA LoopStep == LoopInv /\ [Next]_vars => LoopInv'
<1> SUFFICES ASSUME LoopInv, [Next]_vars PROVE LoopInv'
  OBVIOUS
<1>1. Typed /\ Typed'
  BY TypedStep DEF LoopInv
<1>2. services \in Seq(EntryType) /\ Len(services) \in Nat
        /\ DOMAIN services = 1 .. Len(services)
  BY <1>1, IndexBasics DEF Typed, TypeOK
<1>3. CASE UNCHANGED vars \/ Terminated
  <2>1. UNCHANGED <<services, shutting_down, pc>>
    BY <1>3 DEF vars, Terminated
  <2> QED
    BY <1>1, <2>1 DEF LoopInv, KeepsGuarding, BlocksUnscheduled, HasDeadline,
                      Unscheduled
<1>4. CASE Boot \/ BootFails \/ SignalBeforeHandler \/ EndShell \/ SignalInShell
             \/ SignalInGuardian \/ Tick \/ WaitNothing
             \/ \E p \in Pids : \/ DrainReap(p) \/ WaitReap(p) \/ Adopt(p)
                                \/ \E ok \in BOOLEAN : Exit(p, ok)
  <2>1. services' = services
    BY <1>4 DEF Boot, BootFails, SignalBeforeHandler, EndShell, SignalInShell,
                SignalInGuardian, Tick, WaitNothing, DrainReap, WaitReap, Adopt, Exit
  <2>2. \/ UNCHANGED <<pc, shutting_down>>
        \/ UNCHANGED pc /\ pc = "shell"
        \/ pc' = "exited"
        \/ /\ UNCHANGED shutting_down
           /\ \/ pc = "boot" /\ pc' = "shell"
              \/ pc = "shell" /\ pc' = "drain"
              \/ pc = "drain" /\ pc' = "drain_handle"
              \/ pc \in {"poll", "block"} /\ pc' \in {"handle", "restart"}
    BY <1>4 DEF Boot, BootFails, SignalBeforeHandler, EndShell, SignalInShell,
                SignalInGuardian, Tick, WaitNothing, DrainReap, WaitReap, Adopt,
                Exit, Exited
  <2> QED
    BY <1>1, <2>1, <2>2 DEF LoopInv, KeepsGuarding, BlocksUnscheduled,
                            HasDeadline, Unscheduled
<1>5. CASE DrainDone \/ RestartDone
  <2>1. /\ UNCHANGED <<services, shutting_down>>
        /\ pc \in {"drain", "restart"}
        /\ pc = "drain" /\ Len(services) = 0 => pc' = "exited"
        /\ pc' = "exited" \/ pc' = LoopTop
    BY <1>5 DEF DrainDone, RestartDone, Exited
  <2>2. pc' = "exited" \/ pc' = "poll" \/ (pc' = "block" /\ ~HasDeadline(services))
    BY <2>1 DEF LoopTop
  <2> QED
    BY <1>1, <1>2, <2>1, <2>2 DEF LoopInv, KeepsGuarding, BlocksUnscheduled,
                            HasDeadline, Unscheduled
<1>6. ASSUME NEW s \in Services, NEW p \in Pids, Register(s, p) \/ RegisterFails(s, p)
      PROVE  LoopInv'
  <2>1. /\ pc = "shell" /\ UNCHANGED <<pc, shutting_down>>
        /\ services' = services \/ services' = AddService(services, s, p)
    BY <1>6 DEF Register, RegisterFails, Launch
  <2>2. Unscheduled(services')
    BY <1>1, <2>1, AddUnscheduled DEF LoopInv, Unscheduled
  <2> QED
    BY <1>1, <2>1, <2>2 DEF LoopInv, KeepsGuarding, BlocksUnscheduled,
                            Unscheduled
<1>7. CASE HandleChildExit
  <2> DEFINE tbl == TableAfterExit(reaped.pid, reaped.ok)
  <2>1. /\ services' = tbl /\ ~MustReinitialize(tbl) /\ UNCHANGED shutting_down
        /\ pc \in {"drain_handle", "handle"} /\ pc' \in {"drain", "restart"}
    BY <1>7 DEF HandleChildExit
  <2>2. Len(services') \in Nat
    BY <1>1, IndexBasics DEF Typed, TypeOK
  <2>3. shutting_down => Unscheduled(tbl)
    BY <1>1, <2>1, AfterExitUnscheduled DEF LoopInv
  <2> HIDE DEF tbl
  <2>4. Reinitialize /\ ~shutting_down => Len(services') > 0
    BY <2>1, <2>2 DEF MustReinitialize
  <2> QED
    BY <1>1, <2>1, <2>3, <2>4 DEF LoopInv, KeepsGuarding, BlocksUnscheduled,
                                  Unscheduled
<1>8. CASE Reexec \/ ReexecFails
  <2>1. \/ pc' = "exited"
        \/ pc' = "boot" /\ services' = <<>> /\ DOMAIN services' = {}
    BY <1>8 DEF Reexec, ReexecFails, Exited
  <2> QED
    BY <1>1, <2>1 DEF LoopInv, KeepsGuarding, BlocksUnscheduled, Unscheduled
<1>9. ASSUME NEW i, RestartForkFails(i) \/ \E p \in Pids : RestartOne(i, p)
      PROVE  LoopInv'
  <2>1. /\ pc = "restart" /\ UNCHANGED <<pc, shutting_down>>
        /\ i \in DOMAIN services /\ IsScheduled(services[i])
        /\ \E p \in Pids \cup {NoPid} :
             services' = [services EXCEPT ![i] = Restarted(services[i], p)]
    BY <1>9 DEF RestartForkFails, RestartOne, IsFirstDue, IsDue
  <2>2. Len(services') = Len(services)
          /\ (Unscheduled(services) => Unscheduled(services'))
    BY <1>1, <2>1, RestartFrame
  <2> QED
    BY <1>1, <2>1, <2>2 DEF LoopInv, KeepsGuarding, BlocksUnscheduled,
                            Unscheduled
<1> QED
  BY <1>3, <1>4, <1>5, <1>6, <1>7, <1>8, <1>9
     DEF Next, GuardianStep, ShellStep, Environment

(* A re-initialising build guards something whenever it is in its loop.    *)
THEOREM KeepsGuardingAlways == Spec => []KeepsGuarding
<1>1. LoopInv => KeepsGuarding
  BY DEF LoopInv
<1> QED  BY LoopInit, LoopStep, <1>1, PTL DEF Spec

(* After a signal no process is started by the guardian and no             *)
(* re-initialisation takes place (shutting_down in handle_child_exit).     *)
THEOREM ShutdownStartsNothing == Spec => NoRestartInShutdown
<1> DEFINE Quiet == shutting_down /\ pc # "shell" => starts' = starts
<1>1. LoopInv /\ [Next]_vars => [Quiet]_vars
  <2> SUFFICES ASSUME LoopInv, Next, shutting_down, pc # "shell"
               PROVE  starts' = starts
    BY DEF vars
  <2>1. CASE Boot \/ BootFails \/ SignalBeforeHandler \/ EndShell \/ SignalInShell
             \/ SignalInGuardian \/ Tick \/ WaitNothing \/ DrainDone \/ RestartDone
             \/ HandleChildExit \/ ReexecFails \/ Terminated
    BY <2>1 DEF Boot, BootFails, SignalBeforeHandler, EndShell, SignalInShell,
                SignalInGuardian, Tick, WaitNothing, DrainDone, RestartDone,
                HandleChildExit, ReexecFails, Terminated, vars, history
  <2>2. CASE \E p \in Pids : \/ DrainReap(p) \/ WaitReap(p) \/ Adopt(p)
                             \/ \E ok \in BOOLEAN : Exit(p, ok)
    BY <2>2 DEF DrainReap, WaitReap, Adopt, Exit, history
  <2>3. CASE Reexec
    BY <2>3 DEF Reexec, MustReinitialize
  <2>4. CASE \E s \in Services, p \in Pids : Register(s, p) \/ RegisterFails(s, p)
    BY <2>4 DEF Register, RegisterFails, Launch
  <2>5. CASE \E i \in 1 .. MAX_SERVICES :
               RestartForkFails(i) \/ \E p \in Pids : RestartOne(i, p)
    BY <2>5 DEF RestartForkFails, RestartOne, IsFirstDue, IsDue, LoopInv, Unscheduled
  <2> QED
    BY <2>1, <2>2, <2>3, <2>4, <2>5 DEF Next, GuardianStep, ShellStep, Environment
<1> QED  BY LoopInit, LoopStep, <1>1, PTL DEF Spec, NoRestartInShutdown

-----------------------------------------------------------------------------
(* The pace of the restarts.  RestartRate speaks of processes started; what *)
(* carries it from one step to the next is that each entry has waited for  *)
(* all its restarts, and that a deadline lies behind one delay more.       *)
Paced(e, t) ==
  /\ t >= BackoffSum(e.restart_count)
  /\ IsScheduled(e) => e.next_restart >= BackoffSum(e.restart_count + 1)

PaceInv ==
  BudgetInv /\ RestartRate /\ \A i \in DOMAIN services : Paced(services[i], now)

(* BackoffSum is the sum of the delays of compute_backoff, and grows.      *)
LEMMA BackoffSumStep ==
  ASSUME NEW n \in Nat
  PROVE  /\ BackoffSum(n) \in Nat
         /\ BackoffSum(n + 1) = BackoffSum(n) + compute_backoff(n)
<1>1. CASE n < 5
  BY <1>1 DEF BackoffSum, SumOfDoubled, compute_backoff, Doubled, BACKOFF_MAX_SECS
<1>2. CASE n = 5
  BY <1>2 DEF BackoffSum, SumOfDoubled, compute_backoff, Doubled, BACKOFF_MAX_SECS
<1>3. CASE n > 5
  <2>1. compute_backoff(n) = 30
    BY <1>3 DEF compute_backoff, Doubled, BACKOFF_MAX_SECS
  <2>2. BackoffSum(n) = 31 + 30 * (n - 5) /\ BackoffSum(n + 1) = 31 + 30 * (n - 4)
    BY <1>3 DEF BackoffSum, BACKOFF_MAX_SECS
  <2> QED  BY <1>3, <2>1, <2>2
<1> QED  BY <1>1, <1>2, <1>3

(* More restarts have waited longer.                                       *)
LEMMA BackoffSumGrows ==
  ASSUME NEW m \in Nat, NEW n \in Nat, m <= n
  PROVE  BackoffSum(m) <= BackoffSum(n)
BY DEF BackoffSum, SumOfDoubled, BACKOFF_MAX_SECS

(* Scheduling sets the deadline one delay behind the present.              *)
LEMMA SchedulePaced ==
  ASSUME NEW e \in EntryType, now \in Nat, Paced(e, now)
  PROVE  Paced(Schedule(e), now)
<1>1. e.restart_count \in Nat
  BY GuardianAssumption DEF EntryType
<1>2. Schedule(e).restart_count = e.restart_count
        /\ Schedule(e).next_restart = now + compute_backoff(e.restart_count)
  BY DEF Schedule, EntryType
<1>3. compute_backoff(e.restart_count) \in Nat
  BY <1>1, BackoffRange DEF BACKOFF_MAX_SECS
<1> QED  BY <1>1, <1>2, <1>3, BackoffSumStep DEF Paced

(* At boot nothing has been started.                                       *)
LEMMA PaceInit == Init => PaceInv
<1> SUFFICES ASSUME Init PROVE PaceInv
  OBVIOUS
<1>1. DOMAIN services = {} /\ \A s \in Services : starts[s] = 0
  BY DEF Init
<1> QED  BY <1>1, BudgetInit DEF PaceInv, RestartRate

(* Every step keeps the pace: the clock never goes back within a boot, and *)
(* do_restart starts nothing before its deadline.                          *)
LEMMA PaceStep == PaceInv /\ [Next]_vars => PaceInv'
<1> SUFFICES ASSUME PaceInv, [Next]_vars PROVE PaceInv'
  OBVIOUS
<1>1. BudgetInv /\ BudgetInv' /\ Typed /\ RestartRate
        /\ \A i \in DOMAIN services : Paced(services[i], now)
  BY BudgetStep, BudgetTyped DEF PaceInv
<1>2. /\ now \in Nat /\ starts \in [Services -> Nat]
      /\ services \in Seq(EntryType) /\ reaped.ok \in BOOLEAN
      /\ \A i \in DOMAIN services :
           services[i] \in EntryType /\ services[i].restart_count \in Nat
  <2>1. \A i \in DOMAIN services : services[i] \in EntryType
    BY <1>1, IndexBasics DEF BudgetInv, TypeOK
  <2> QED  BY <1>1, <2>1, GuardianAssumption DEF BudgetInv, TypeOK, EntryType
<1> SUFFICES RestartRate' /\ \A i \in DOMAIN services' : Paced(services'[i], now')
  BY <1>1 DEF PaceInv
<1>3. ASSUME UNCHANGED <<services, starts>>, now' \in Nat, now' >= now
      PROVE  RestartRate' /\ \A i \in DOMAIN services' : Paced(services'[i], now')
  <2>1. ASSUME NEW n \in Nat, now >= BackoffSum(n)
        PROVE  now' >= BackoffSum(n)
    BY <1>2, <1>3, <2>1, BackoffSumStep
  <2>2. RestartRate'
    BY <1>1, <1>2, <1>3, <2>1 DEF RestartRate
  <2> QED  BY <1>1, <1>2, <1>3, <2>1, <2>2 DEF Paced
<1>4. CASE UNCHANGED vars \/ Terminated \/ Boot \/ BootFails \/ SignalBeforeHandler
             \/ EndShell \/ WaitNothing \/ DrainDone \/ RestartDone
             \/ SignalInShell \/ SignalInGuardian \/ Tick
             \/ \E p \in Pids : \/ DrainReap(p) \/ WaitReap(p) \/ Adopt(p)
                                \/ \E ok \in BOOLEAN : Exit(p, ok)
  <2>1. UNCHANGED <<services, starts>> /\ (now' = now \/ now' = now + 1)
    BY <1>4 DEF Terminated, vars, Boot, BootFails, SignalBeforeHandler, EndShell,
                WaitNothing, DrainDone, RestartDone, SignalInShell,
                SignalInGuardian, Tick, DrainReap, WaitReap, Adopt, Exit, history
  <2> QED  BY <1>2, <1>3, <2>1
<1>5. ASSUME NEW s \in Services, NEW p \in Pids, Register(s, p) \/ RegisterFails(s, p)
      PROVE  RestartRate' /\ \A i \in DOMAIN services' : Paced(services'[i], now')
  <2>1. /\ starts' = [starts EXCEPT ![s] = 1] /\ now' = now
        /\ services' = services \/ services' = AddService(services, s, p)
    BY <1>5 DEF Register, RegisterFails, Launch
  <2>2. BackoffSum(0) = 0
    BY DEF BackoffSum, SumOfDoubled
  <2>3. Paced(Entry(s, p), now)
    BY <1>2, <2>2 DEF Paced, Entry, IsScheduled
  <2>4. \A i \in DOMAIN services' : Paced(services'[i], now')
    BY <1>1, <2>1, <2>3, AddEntries
  <2>5. RestartRate'
    BY <1>1, <1>2, <2>1, <2>2 DEF RestartRate
  <2> QED  BY <2>4, <2>5
<1>6. CASE HandleChildExit \/ ReexecFails
  <2>1. /\ services' = TableAfterExit(reaped.pid, reaped.ok)
        /\ UNCHANGED <<now, starts>>
    BY <1>6 DEF HandleChildExit, ReexecFails, history
  <2>2. \A i \in DOMAIN services' : Paced(services'[i], now')
    BY <1>1, <1>2, <2>1, AfterExitEntries, SchedulePaced
  <2>3. RestartRate'
    BY <1>1, <2>1 DEF RestartRate
  <2> QED  BY <2>2, <2>3
<1>7. CASE Reexec
  <2>1. DOMAIN services' = {} /\ \A s \in Services : starts'[s] = 0
    BY <1>7 DEF Reexec
  <2> QED  BY <2>1 DEF RestartRate
<1>8. ASSUME NEW i, RestartForkFails(i) \/ \E p \in Pids : RestartOne(i, p)
      PROVE  RestartRate' /\ \A j \in DOMAIN services' : Paced(services'[j], now')
  <2> DEFINE n == services[i].restart_count
             svc == services[i].svc
  <2>1. /\ i \in DOMAIN services /\ IsScheduled(services[i])
        /\ services[i].next_restart <= now /\ now' = now
        /\ starts' = starts \/ starts' = [starts EXCEPT ![svc] = @ + 1]
        /\ \E p \in Pids \cup {NoPid} :
             services' = [services EXCEPT ![i] = Restarted(services[i], p)]
    BY <1>8 DEF RestartForkFails, RestartOne, IsFirstDue, IsDue, history
  <2>2. PICK p \in Pids \cup {NoPid} :
          services' = [services EXCEPT ![i] = Restarted(services[i], p)]
    BY <2>1
  <2>3. /\ n \in Nat /\ svc \in Services
        /\ starts[svc] \in Nat /\ starts[svc] <= n + 1
        /\ n < MAX_RESTARTS /\ services[i].next_restart \in Nat
    BY <1>1, <1>2, <2>1
       DEF BudgetInv, TableOK, Accounted, WithinLimit, EntryType
  <2>4. now >= BackoffSum(n + 1)
    <3>1. services[i].next_restart >= BackoffSum(n + 1)
      BY <1>1, <2>1 DEF Paced
    <3>2. BackoffSum(n + 1) \in Nat
      BY <2>3, BackoffSumStep
    <3> QED  BY <1>2, <2>1, <2>3, <3>1, <3>2
  <2>5. Paced(Restarted(services[i], p), now)
    <3>1. /\ Restarted(services[i], p).restart_count = n + 1
          /\ ~IsScheduled(Restarted(services[i], p))
      BY <1>2, <2>1, <2>3, RestartedEntry
    <3> QED  BY <2>4, <3>1 DEF Paced
  <2>6. \A j \in DOMAIN services' : Paced(services'[j], now')
    BY <1>1, <2>1, <2>2, <2>5, RestartEntries
  <2>7. now >= BackoffSum(starts[svc])
    <3>1. BackoffSum(starts[svc]) <= BackoffSum(n + 1)
      BY <2>3, BackoffSumGrows
    <3>2. BackoffSum(starts[svc]) \in Nat /\ BackoffSum(n + 1) \in Nat
      BY <2>3, BackoffSumStep
    <3> QED  BY <1>2, <2>4, <3>1, <3>2
  <2>8. RestartRate'
    BY <1>1, <1>2, <2>1, <2>3, <2>7 DEF RestartRate
  <2> QED  BY <2>6, <2>8
<1> QED
  BY <1>4, <1>5, <1>6, <1>7, <1>8 DEF Next, GuardianStep, ShellStep, Environment

(* The n-th restart of a service comes no earlier than the first n delays  *)
(* of compute_backoff after the boot, whatever fails and however the exits *)
(* fall; also if a process that reused its pid reschedules the entry.      *)
THEOREM RestartRateKept == Spec => []RestartRate
<1>1. PaceInv => RestartRate
  BY DEF PaceInv
<1> QED  BY PaceInit, PaceStep, <1>1, PTL DEF Spec

-----------------------------------------------------------------------------
(* The pid that handle_child_exit is about to look up, if any.             *)
InHand ==
  IF pc \in {"drain_handle", "handle", "exited"} THEN reaped.pid ELSE NoPid

(* What an entry says of its pid.  Watched is not inductive: it allows a   *)
(* scheduled entry to name a process of somebody else, which the next      *)
(* Reap would then mistake for the service.                                *)
EntryGood(e, st, cmd, h) ==
  /\ e.pid \in Pids
  /\ IsScheduled(e) => st[e.pid] = "free" /\ h # e.pid
  /\ ~IsScheduled(e) /\ h = e.pid => st[e.pid] = "free"
  /\ ~IsScheduled(e) /\ h # e.pid => st[e.pid] # "free" /\ cmd[e.pid] = e.svc
PidDistinct(tbl) ==
  \A i, j \in DOMAIN tbl : tbl[i].pid = tbl[j].pid => i = j
TableGood(tbl, st, cmd, h) ==
  PidDistinct(tbl) /\ \A i \in DOMAIN tbl : EntryGood(tbl[i], st, cmd, h)

WatchInv ==
  /\ BudgetInv
  /\ TableGood(services, state, command, InHand)
  /\ pc \notin {"drain_handle", "handle", "exited"} => reaped = Nothing

-----------------------------------------------------------------------------
(* What the budget invariant says of the table, in the form the proofs     *)
(* below use.                                                              *)
LEMMA ServicesTyped ==
  ASSUME BudgetInv
  PROVE  /\ services \in Seq(EntryType)
         /\ Len(services) \in Nat /\ DOMAIN services = 1 .. Len(services)
         /\ \A i \in DOMAIN services : services[i] \in EntryType
<1>1. services \in Seq(EntryType)
  BY DEF BudgetInv, TableOK
<1> QED  BY <1>1, IndexBasics

(* What does not touch the pids of the table leaves it good.               *)
LEMMA FrameGood ==
  ASSUME NEW tbl, NEW st, NEW cmd, NEW h, TableGood(tbl, st, cmd, h),
         NEW st1, NEW cmd1, NEW h1,
         \A i \in DOMAIN tbl :
           /\ st1[tbl[i].pid] = "free" <=> st[tbl[i].pid] = "free"
           /\ cmd1[tbl[i].pid] = cmd[tbl[i].pid]
           /\ h1 = tbl[i].pid <=> h = tbl[i].pid
  PROVE  TableGood(tbl, st1, cmd1, h1)
BY DEF TableGood, EntryGood

(* A new process has a pid the table does not name.                        *)
LEMMA SpawnFresh ==
  ASSUME Typed, "pid_reuse" \notin Faults,
         NEW p \in Pids, NEW s, Spawn(p, s)
  PROVE  /\ \A i \in DOMAIN services : services[i].pid # p
         /\ state[p] = "free" /\ state'[p] = "running" /\ command'[p] = s
         /\ \A q \in Pids \ {p} : state'[q] = state[q] /\ command'[q] = command[q]
BY DEF Spawn, IsFree, NamedPids, Typed, TypeOK

(* Reaping a child moves its pid from the process table into the           *)
(* guardian's hand; the one entry that names it is now allowed to.         *)
LEMMA ReapGood ==
  ASSUME WatchInv, reaped = Nothing, NEW p \in Pids, Reap(p),
         InHand = NoPid
  PROVE  TableGood(services, state', command', p)
<1>1. /\ state[p] = "zombie" /\ state'[p] = "free"
      /\ \A q \in Pids \ {p} : state'[q] = state[q] /\ command'[q] = command[q]
  BY DEF Reap, WatchInv, BudgetInv, TypeOK
<1>2. PidDistinct(services)
  BY DEF WatchInv, TableGood
<1>3. ASSUME NEW i \in DOMAIN services
      PROVE  EntryGood(services[i], state', command', p)
  <2>1. EntryGood(services[i], state, command, NoPid)
    BY DEF WatchInv, TableGood
  <2>2. services[i].pid \in Pids /\ services[i].pid # NoPid
    BY <2>1, GuardianAssumption DEF EntryGood
  <2>3. CASE services[i].pid = p
    BY <1>1, <2>1, <2>2, <2>3 DEF EntryGood
  <2>4. CASE services[i].pid # p
    BY <1>1, <2>1, <2>2, <2>4 DEF EntryGood
  <2> QED  BY <2>3, <2>4
<1> QED  BY <1>2, <1>3 DEF TableGood

(* handle_child_exit schedules or drops the entry of the pid in hand, so   *)
(* afterwards every unscheduled entry names a live child.                  *)
LEMMA AfterExitGood ==
  ASSUME WatchInv, pc \in {"drain_handle", "handle"}
  PROVE  TableGood(TableAfterExit(reaped.pid, reaped.ok), state, command, NoPid)
<1> DEFINE pid == reaped.pid
           ok == reaped.ok
           tbl == TableAfterExit(pid, ok)
<1>0. BudgetInv
  BY DEF WatchInv
<1>1. InHand = pid /\ ok \in BOOLEAN /\ now \in Nat
  <2>1. reaped \in [pid: Pids \cup {NoPid}, ok: BOOLEAN] /\ now \in Nat
    BY <1>0 DEF BudgetInv, TypeOK
  <2>2. InHand = reaped.pid
    BY DEF InHand
  <2> QED  BY <2>1, <2>2
<1>2. /\ services \in Seq(EntryType)
      /\ Len(services) \in Nat /\ DOMAIN services = 1 .. Len(services)
      /\ \A i \in DOMAIN services : services[i] \in EntryType
  BY <1>0, ServicesTyped
<1>3. PidDistinct(services)
        /\ \A i \in DOMAIN services : EntryGood(services[i], state, command, pid)
  BY <1>1 DEF WatchInv, TableGood
<1>4. \A i \in DOMAIN services :
        /\ services[i].pid \in Pids /\ services[i].pid # NoPid
        /\ services[i].pid # pid => EntryGood(services[i], state, command, NoPid)
        /\ services[i].pid = pid => state[pid] = "free"
  BY <1>3, GuardianAssumption DEF EntryGood
<1>5. \/ ~IsRegistered(services, pid) /\ tbl = services
      \/ \E i \in DOMAIN services :
           /\ services[i].pid = pid
           /\ tbl = [services EXCEPT ![i] = Schedule(services[i])]
      \/ \E i \in DOMAIN services :
           services[i].pid = pid /\ tbl = DropSlot(services, i)
  <2> HIDE DEF pid, ok
  <2>1. \/ ~IsRegistered(services, pid) /\ tbl = services
        \/ \E i \in DOMAIN services :
             /\ services[i].pid = pid /\ WantsRestart(services[i], ok)
             /\ tbl = [services EXCEPT ![i] = Schedule(services[i])]
        \/ \E i \in DOMAIN services :
             /\ services[i].pid = pid /\ ~WantsRestart(services[i], ok)
             /\ tbl = DropSlot(services, i)
    BY <1>1, <1>2, AfterExitCases
  <2> HIDE DEF tbl
  <2> QED  BY <2>1
<1> SUFFICES TableGood(tbl, state, command, NoPid)
  OBVIOUS
<1> HIDE DEF tbl, pid, ok
<1>6. CASE ~IsRegistered(services, pid) /\ tbl = services
  BY <1>3, <1>4, <1>6 DEF IsRegistered, TableGood
<1>7. ASSUME NEW i \in DOMAIN services, services[i].pid = pid,
             tbl = [services EXCEPT ![i] = Schedule(services[i])]
      PROVE  TableGood(tbl, state, command, NoPid)
  <2> DEFINE e == Schedule(services[i])
  <2>1. e \in EntryType /\ IsScheduled(e) /\ e.pid = pid
    BY <1>1, <1>2, <1>7, ScheduleEntry
  <2> HIDE DEF e
  <2>2. DOMAIN tbl = DOMAIN services
          /\ \A j \in DOMAIN tbl : tbl[j] = IF j = i THEN e ELSE services[j]
    BY <1>2, <1>7, <2>1, ExceptSeq DEF e
  <2>3. PidDistinct(tbl)
    BY <1>3, <1>7, <2>1, <2>2 DEF PidDistinct
  <2>4. EntryGood(e, state, command, NoPid)
    BY <1>4, <1>7, <2>1 DEF EntryGood
  <2>5. \A j \in DOMAIN services : j # i => services[j].pid # pid
    BY <1>3, <1>7 DEF PidDistinct
  <2> QED  BY <1>4, <2>2, <2>3, <2>4, <2>5 DEF TableGood
<1>8. ASSUME NEW i \in DOMAIN services, services[i].pid = pid,
             tbl = DropSlot(services, i)
      PROVE  TableGood(tbl, state, command, NoPid)
  <2> DEFINE old(k) == IF k < i THEN k ELSE k + 1
  <2>1. /\ DOMAIN tbl = 1 .. Len(services) - 1
        /\ \A k \in 1 .. Len(services) - 1 :
             tbl[k] = IF k < i THEN services[k] ELSE services[k + 1]
    BY <1>2, <1>8, DropSlotProperties
  <2>2. \A k \in DOMAIN tbl : /\ old(k) \in DOMAIN services /\ old(k) # i
                              /\ tbl[k] = services[old(k)]
    BY <1>2, <2>1
  <2>3. PidDistinct(tbl)
    BY <1>2, <1>3, <2>1, <2>2 DEF PidDistinct
  <2>4. \A k \in DOMAIN tbl : EntryGood(tbl[k], state, command, NoPid)
    <3>1. \A j \in DOMAIN services : j # i => services[j].pid # pid
      BY <1>3, <1>8 DEF PidDistinct
    <3> HIDE DEF old
    <3> QED  BY <1>4, <2>2, <3>1
  <2> QED  BY <2>3, <2>4 DEF TableGood
<1> QED  BY <1>5, <1>6, <1>7, <1>8

(* An entry added, or an entry restarted, under the pid of a process that  *)
(* was just started for it.                                                *)
LEMMA AppendGood ==
  ASSUME BudgetInv, PidDistinct(services), NEW s \in Services, NEW p \in Pids,
         NEW st, NEW cmd,
         \A i \in DOMAIN services : services[i].pid # p,
         \A i \in DOMAIN services : EntryGood(services[i], st, cmd, NoPid),
         st[p] # "free", cmd[p] = s
  PROVE  TableGood(AddService(services, s, p), st, cmd, NoPid)
<1> DEFINE e == Entry(s, p)
           tbl == Append(services, e)
<1>1. /\ services \in Seq(EntryType) /\ Len(services) \in Nat
      /\ DOMAIN services = 1 .. Len(services)
  BY ServicesTyped
<1>2. CASE IsFull(services)
  BY <1>2 DEF AddService, TableGood
<1>3. CASE ~IsFull(services)
  <2>0. SUFFICES TableGood(tbl, st, cmd, NoPid)
    BY <1>3 DEF AddService
  <2>1. e \in EntryType /\ e.pid = p /\ e.svc = s /\ ~IsScheduled(e)
    BY GuardianAssumption DEF Entry, EntryType, IsScheduled
  <2> HIDE DEF e
  <2>2. /\ DOMAIN tbl = 1 .. Len(services) + 1
        /\ \A i \in DOMAIN services : tbl[i] = services[i]
        /\ tbl[Len(services) + 1] = e
    BY <1>1, <2>1, AppendProperties
  <2> HIDE DEF tbl
  <2>3. PidDistinct(tbl)
    BY <1>1, <2>1, <2>2 DEF PidDistinct
  <2>4. EntryGood(e, st, cmd, NoPid)
    BY <2>1, GuardianAssumption DEF EntryGood
  <2> QED  BY <1>1, <2>2, <2>3, <2>4 DEF TableGood
<1> QED  BY <1>2, <1>3

(* A restart puts a live pid into its slot, and, since no scheduled        *)
(* entry's old pid is handed out again, one no other entry has.            *)
LEMMA RestartGood ==
  ASSUME WatchInv, "pid_reuse" \notin Faults,
         NEW i, NEW p \in Pids, RestartOne(i, p)
  PROVE  TableGood(services', state', command', NoPid)
<1> DEFINE e == Restarted(services[i], p)
<1>0. BudgetInv /\ InHand = NoPid /\ i \in DOMAIN services
  BY DEF WatchInv, InHand, RestartOne
<1>1. /\ services \in Seq(EntryType)
      /\ \A j \in DOMAIN services : services[j] \in EntryType
  BY <1>0, ServicesTyped
<1>2. /\ \A j \in DOMAIN services : services[j].pid # p
      /\ state'[p] = "running" /\ command'[p] = services[i].svc
      /\ \A q \in Pids \ {p} : state'[q] = state[q] /\ command'[q] = command[q]
  BY <1>0, SpawnFresh, BudgetTyped DEF RestartOne
<1>3. /\ e \in EntryType /\ e.pid = p /\ e.svc = services[i].svc /\ ~IsScheduled(e)
  <2>1. services[i] \in EntryType /\ services[i].restart_count < MAX_RESTARTS
    BY <1>0, <1>1
       DEF BudgetInv, TableOK, WithinLimit, RestartOne, IsFirstDue, IsDue
  <2> QED  BY <2>1, RestartedEntry
<1> HIDE DEF e
<1>4. /\ DOMAIN services' = DOMAIN services
      /\ \A j \in DOMAIN services : services'[j] = IF j = i THEN e ELSE services[j]
  BY <1>0, <1>1, <1>3, ExceptSeq DEF RestartOne, e
<1>5. PidDistinct(services) /\ \A j \in DOMAIN services :
        EntryGood(services[j], state, command, NoPid)
  BY <1>0 DEF WatchInv, TableGood
<1>6. PidDistinct(services')
  BY <1>2, <1>3, <1>4, <1>5 DEF PidDistinct
<1>7. EntryGood(e, state', command', NoPid)
  BY <1>2, <1>3, GuardianAssumption DEF EntryGood
<1>8. ASSUME NEW j \in DOMAIN services, j # i
      PROVE  EntryGood(services[j], state', command', NoPid)
  BY <1>2, <1>5, <1>8 DEF EntryGood
<1> QED  BY <1>4, <1>6, <1>7, <1>8 DEF TableGood

-----------------------------------------------------------------------------
Handling == {"drain_handle", "handle", "exited"}

(* The watch invariant holds at boot: the table is empty.                  *)
LEMMA WatchInit == Init => WatchInv
<1> SUFFICES ASSUME Init PROVE WatchInv
  OBVIOUS
<1>1. services = <<>> /\ DOMAIN services = {} /\ reaped = Nothing
  BY DEF Init
<1>2. TableGood(services, state, command, InHand)
  BY <1>1 DEF TableGood, PidDistinct
<1> QED  BY <1>1, <1>2, BudgetInit DEF WatchInv

(* Without failed forks and reused pids, every step keeps the watch        *)
(* invariant, one case per action.                                         *)
LEMMA WatchStep ==
  ASSUME "fork" \notin Faults, "pid_reuse" \notin Faults
  PROVE  WatchInv /\ [Next]_vars => WatchInv'
<1> SUFFICES ASSUME WatchInv, [Next]_vars PROVE WatchInv'
  OBVIOUS
<1>1. /\ BudgetInv /\ BudgetInv'
      /\ TableGood(services, state, command, InHand)
      /\ pc \notin Handling => reaped = Nothing
  BY BudgetStep DEF WatchInv, Handling
<1>2. Nothing.pid = NoPid
  BY DEF Nothing
<1>3. SUFFICES /\ TableGood(services', state', command', InHand')
               /\ pc' \notin Handling => reaped' = Nothing
  BY <1>1 DEF WatchInv, Handling
<1>4. /\ pc \notin Handling => InHand = NoPid
      /\ UNCHANGED reaped /\ (pc \in Handling => pc' \in Handling)
           => InHand' = InHand /\ (pc' \notin Handling => reaped' = Nothing)
  BY <1>1, <1>2 DEF InHand, Handling
<1>5. \A i \in DOMAIN services : services[i].pid \in Pids
  BY <1>1 DEF TableGood, EntryGood
<1>6. CASE UNCHANGED vars \/ Terminated
  <2>1. UNCHANGED <<services, state, command, reaped, pc>>
    BY <1>6 DEF vars, kernel, Terminated
  <2> QED  BY <2>1, <1>1, <1>4
<1>7. CASE Boot \/ EndShell \/ WaitNothing \/ RestartDone \/ DrainDone
             \/ BootFails \/ SignalBeforeHandler \/ SignalInShell
             \/ SignalInGuardian \/ Tick
  <2>1. UNCHANGED <<services, state, command, reaped>>
    BY <1>7 DEF Boot, EndShell, WaitNothing, RestartDone, DrainDone, BootFails,
                SignalBeforeHandler, SignalInShell, SignalInGuardian, Tick, kernel
  <2>2. pc \in Handling => pc' \in Handling
    BY <1>7 DEF Boot, EndShell, WaitNothing, RestartDone, DrainDone, BootFails,
                SignalBeforeHandler, SignalInShell, SignalInGuardian, Tick,
                Exited, Handling
  <2> QED  BY <2>1, <2>2, <1>1, <1>4
<1>8. ASSUME NEW p \in Pids, NEW ok \in BOOLEAN, Exit(p, ok)
      PROVE  /\ TableGood(services', state', command', InHand')
             /\ pc' \notin Handling => reaped' = Nothing
  <2>1. /\ UNCHANGED <<services, command, reaped, pc>>
        /\ \A q \in Pids : state'[q] = "free" <=> state[q] = "free"
    BY <1>8, <1>1 DEF Exit, BudgetInv, TypeOK
  <2> QED  BY <2>1, <1>1, <1>4, <1>5, FrameGood
<1>9. ASSUME NEW s \in Services \cup {NoService}, NEW p \in Pids, Spawn(p, s),
             UNCHANGED <<services, reaped, pc>>
      PROVE  /\ TableGood(services', state', command', InHand')
             /\ pc' \notin Handling => reaped' = Nothing
  <2>1. /\ \A i \in DOMAIN services : services[i].pid # p
        /\ \A q \in Pids \ {p} : state'[q] = state[q] /\ command'[q] = command[q]
    BY <1>1, <1>9, SpawnFresh, BudgetTyped
  <2> QED  BY <2>1, <1>1, <1>4, <1>5, <1>9, FrameGood
<1>10. ASSUME NEW p \in Pids, Adopt(p)
       PROVE  /\ TableGood(services', state', command', InHand')
              /\ pc' \notin Handling => reaped' = Nothing
  BY <1>9, <1>10 DEF Adopt
<1>11. ASSUME NEW s \in Services, NEW p \in Pids, RegisterFails(s, p)
       PROVE  /\ TableGood(services', state', command', InHand')
              /\ pc' \notin Handling => reaped' = Nothing
  BY <1>9, <1>11 DEF RegisterFails, Launch
<1>12. ASSUME NEW s \in Services, NEW p \in Pids, Register(s, p)
       PROVE  /\ TableGood(services', state', command', InHand')
              /\ pc' \notin Handling => reaped' = Nothing
  <2>1. /\ Spawn(p, s) /\ services' = AddService(services, s, p)
        /\ pc = "shell" /\ UNCHANGED <<pc, reaped>>
    BY <1>12 DEF Register, Launch
  <2>2. InHand = NoPid /\ InHand' = NoPid /\ reaped' = Nothing
    BY <2>1, <1>1, <1>4 DEF Handling
  <2>3. /\ \A i \in DOMAIN services : services[i].pid # p
        /\ state'[p] = "running" /\ command'[p] = s
        /\ \A q \in Pids \ {p} : state'[q] = state[q] /\ command'[q] = command[q]
    BY <1>1, <2>1, SpawnFresh, BudgetTyped
  <2>4. TableGood(services, state', command', NoPid)
    BY <2>2, <2>3, <1>1, <1>5, FrameGood
  <2>5. TableGood(AddService(services, s, p), state', command', NoPid)
    BY <2>3, <2>4, <1>1, AppendGood DEF TableGood
  <2> QED  BY <2>1, <2>2, <2>5
<1>13. ASSUME NEW p \in Pids, DrainReap(p) \/ WaitReap(p)
       PROVE  /\ TableGood(services', state', command', InHand')
              /\ pc' \notin Handling => reaped' = Nothing
  <2>1. /\ Reap(p) /\ pc \notin Handling /\ services' = services
        /\ pc' \in {"drain_handle", "handle"} /\ reaped'.pid = p
    BY <1>13 DEF DrainReap, WaitReap, Handling, Reap
  <2>2. InHand' = p /\ pc' \in Handling
    BY <2>1 DEF InHand, Handling
  <2> QED  BY <2>1, <2>2, <1>1, <1>4, ReapGood
<1>14. CASE HandleChildExit \/ ReexecFails
  <2>1. /\ services' = TableAfterExit(reaped.pid, reaped.ok)
        /\ pc \in {"drain_handle", "handle"} /\ UNCHANGED <<state, command>>
        /\ reaped' = Nothing
    BY <1>14 DEF HandleChildExit, ReexecFails, kernel
  <2>2. InHand' = NoPid
    <3>1. pc' \in Handling \/ pc' \notin Handling
      OBVIOUS
    <3> QED  BY <2>1, <1>2 DEF InHand
  <2> QED  BY <2>1, <2>2, AfterExitGood
<1>15. CASE Reexec
  <2>1. services' = <<>> /\ DOMAIN services' = {} /\ reaped' = Nothing
    BY <1>15 DEF Reexec
  <2> QED  BY <2>1 DEF TableGood, PidDistinct
<1>16. ASSUME NEW i, NEW p \in Pids, RestartOne(i, p)
       PROVE  /\ TableGood(services', state', command', InHand')
              /\ pc' \notin Handling => reaped' = Nothing
  <2>1. pc = "restart" /\ UNCHANGED <<pc, reaped>>
    BY <1>16 DEF RestartOne
  <2>2. InHand' = NoPid /\ reaped' = Nothing
    BY <2>1, <1>1, <1>4 DEF Handling
  <2> QED  BY <2>2, <1>16, RestartGood
<1>17. ASSUME NEW i, RestartForkFails(i)
       PROVE  FALSE
  BY <1>17 DEF RestartForkFails
<1> QED
  BY <1>6, <1>7, <1>8, <1>10, <1>11, <1>12, <1>13, <1>14, <1>15, <1>16, <1>17
     DEF Next, GuardianStep, ShellStep, Environment

(* Every entry without a scheduled restart names a child that was started  *)
(* for it and is not yet reaped, or the child being handled: no exit of a  *)
(* service goes unseen (waitpid, find_service, do_restart).                *)
THEOREM WatchedAlways ==
  ASSUME "fork" \notin Faults, "pid_reuse" \notin Faults
  PROVE  Spec => []Watched
<1>1. WatchInv => Watched
  <2> SUFFICES ASSUME WatchInv, NEW i \in DOMAIN services,
                      ~IsScheduled(services[i])
               PROVE  \/ BeingHandled(services[i].pid)
                      \/ services[i].pid \in Pids
                           /\ Runs(services[i].pid, services[i].svc)
    BY DEF Watched
  <2>1. EntryGood(services[i], state, command, InHand)
    BY DEF WatchInv, TableGood
  <2> QED  BY <2>1, GuardianAssumption DEF EntryGood, InHand, BeingHandled, Runs
<1> QED  BY WatchInit, WatchStep, <1>1, PTL DEF Spec

-----------------------------------------------------------------------------
(* A scheduled entry names a pid that no process has, and so handle_child_ *)
(* exit, which looks for the reaped pid, leaves it in the table as it is.  *)
LEMMA AfterExitPending ==
  ASSUME WatchInv, pc \in {"drain_handle", "handle"},
         NEW k \in DOMAIN services, IsScheduled(services[k])
  PROVE  LET tbl == TableAfterExit(reaped.pid, reaped.ok)
         IN  tbl \in Seq(EntryType) /\ \E j \in DOMAIN tbl : tbl[j] = services[k]
<1> DEFINE pid == reaped.pid
           ok == reaped.ok
           tbl == TableAfterExit(pid, ok)
<1>1. ok \in BOOLEAN /\ services[k].pid # pid /\ tbl \in Seq(EntryType)
  <2>1. EntryGood(services[k], state, command, InHand) /\ Typed
    BY BudgetTyped DEF WatchInv, TableGood
  <2>2. InHand = reaped.pid /\ reaped.ok \in BOOLEAN
    BY <2>1 DEF InHand, Typed, TypeOK
  <2> QED  BY <2>1, <2>2, AfterExitEntries DEF EntryGood
<1>2. /\ services \in Seq(EntryType)
      /\ Len(services) \in Nat /\ DOMAIN services = 1 .. Len(services)
  BY ServicesTyped DEF WatchInv
<1> SUFFICES \E j \in DOMAIN tbl : tbl[j] = services[k]
  BY <1>1
<1> HIDE DEF pid, ok
<1>3. \/ tbl = services
      \/ \E i \in DOMAIN services :
           i # k /\ tbl = [services EXCEPT ![i] = Schedule(services[i])]
      \/ \E i \in DOMAIN services : i # k /\ tbl = DropSlot(services, i)
  BY <1>1, <1>2, AfterExitCases
<1> HIDE DEF tbl
<1>4. ASSUME NEW i \in DOMAIN services, i # k,
             tbl = [services EXCEPT ![i] = Schedule(services[i])]
      PROVE  \E j \in DOMAIN tbl : tbl[j] = services[k]
  <2>1. k \in DOMAIN tbl /\ tbl[k] = services[k]
    BY <1>2, <1>4
  <2> QED  BY <2>1
<1>5. ASSUME NEW i \in DOMAIN services, i # k, tbl = DropSlot(services, i)
      PROVE  \E j \in DOMAIN tbl : tbl[j] = services[k]
  <2>1. /\ DOMAIN tbl = 1 .. Len(services) - 1
        /\ \A j \in 1 .. Len(services) - 1 :
             tbl[j] = IF j < i THEN services[j] ELSE services[j + 1]
    BY <1>2, <1>5, DropSlotProperties
  <2>2. CASE k < i
    <3>1. k \in DOMAIN tbl /\ tbl[k] = services[k]
      BY <1>2, <2>1, <2>2
    <3> QED  BY <3>1
  <2>3. CASE k > i
    <3>1. k - 1 \in DOMAIN tbl /\ tbl[k - 1] = services[k]
      BY <1>2, <2>1, <2>3
    <3> QED  BY <3>1
  <2> QED  BY <1>2, <1>5, <2>2, <2>3
<1> QED  BY <1>3, <1>4, <1>5

(* A step keeps a scheduled restart in the table, or carries it out.       *)
LEMMA PendingStep ==
  ASSUME "fork" \notin Faults, "pid_reuse" \notin Faults, WatchInv, [Next]_vars,
         NEW k \in DOMAIN services, IsScheduled(services[k])
  PROVE  \/ \E j \in DOMAIN services' : services'[j] = services[k]
         \/ CarriedOut(services[k])
<1>1. Typed /\ services \in Seq(EntryType)
        /\ Len(services) \in Nat /\ DOMAIN services = 1 .. Len(services)
  BY BudgetTyped, ServicesTyped DEF WatchInv
<1>2. CASE \/ UNCHANGED vars \/ Boot \/ EndShell \/ WaitNothing \/ RestartDone
           \/ DrainDone \/ BootFails \/ SignalBeforeHandler \/ Terminated
           \/ SignalInShell \/ SignalInGuardian \/ Tick
           \/ \E p \in Pids : \/ DrainReap(p) \/ WaitReap(p) \/ Adopt(p)
                              \/ \E ok \in BOOLEAN : Exit(p, ok)
  <2>1. services' = services
    BY <1>2 DEF Boot, EndShell, WaitNothing, RestartDone, DrainDone, BootFails,
                SignalBeforeHandler, Terminated, SignalInShell, SignalInGuardian,
                Tick, DrainReap, WaitReap, Adopt, Exit, vars
  <2> QED  BY <2>1
<1>3. ASSUME NEW s \in Services, NEW p \in Pids, Register(s, p) \/ RegisterFails(s, p)
      PROVE  \E j \in DOMAIN services' : services'[j] = services[k]
  <2>1. services' = services \/ services' = Append(services, Entry(s, p))
    BY <1>3 DEF Register, RegisterFails, AddService
  <2>2. Entry(s, p) \in EntryType
    BY GuardianAssumption DEF Entry, EntryType
  <2>3. k \in DOMAIN services' /\ services'[k] = services[k]
    BY <1>1, <2>1, <2>2, AppendProperties
  <2> QED  BY <2>3
<1>4. CASE HandleChildExit \/ ReexecFails
  <2>1. /\ services' = TableAfterExit(reaped.pid, reaped.ok)
        /\ pc \in {"drain_handle", "handle"}
    BY <1>4 DEF HandleChildExit, ReexecFails
  <2> QED  BY <2>1, AfterExitPending
<1>5. CASE Reexec
  <2> DEFINE tbl == TableAfterExit(reaped.pid, reaped.ok)
  <2>1. pc \in {"drain_handle", "handle"} /\ Len(tbl) = 0
    BY <1>5 DEF Reexec, MustReinitialize
  <2>2. tbl \in Seq(EntryType) /\ DOMAIN tbl # {}
    BY <2>1, AfterExitPending
  <2> HIDE DEF tbl
  <2>3. DOMAIN tbl = 1 .. 0
    BY <2>1, <2>2, IndexBasics
  <2> QED  BY <2>2, <2>3
<1>6. ASSUME NEW i, NEW p \in Pids, RestartOne(i, p), i # k
      PROVE  \E j \in DOMAIN services' : services'[j] = services[k]
  <2>1. k \in DOMAIN services' /\ services'[k] = services[k]
    BY <1>1, <1>6, RestartEntries DEF RestartOne, IsFirstDue, IsDue
  <2> QED  BY <2>1
<1>7. ASSUME NEW p \in Pids, RestartOne(k, p)
      PROVE  CarriedOut(services[k])
  <2>1. /\ pc = "restart" /\ services[k].next_restart <= now /\ Spawn(p, services[k].svc)
        /\ services' = [services EXCEPT ![k] = Restarted(services[k], p)]
    BY <1>7 DEF RestartOne, IsFirstDue, IsDue
  <2>2. state[p] = "free" /\ state'[p] = "running" /\ command'[p] = services[k].svc
    BY <1>1, <2>1 DEF Spawn, IsFree, Typed, TypeOK
  <2>3. services[k] \in EntryType /\ services[k].restart_count < MAX_RESTARTS
    BY <1>1, IndexBasics DEF Typed, WithinLimit
  <2>4. k \in DOMAIN services' /\ services'[k] = Restarted(services[k], p)
    BY <1>1, <2>1, RestartEntries
  <2>5. services'[k].svc = services[k].svc /\ services'[k].pid = p
    BY <2>3, <2>4, RestartedEntry
  <2> QED  BY <2>1, <2>2, <2>4, <2>5 DEF CarriedOut
<1>8. ASSUME NEW i, RestartForkFails(i)
      PROVE  FALSE
  BY <1>8 DEF RestartForkFails
<1> QED
  BY <1>2, <1>3, <1>4, <1>5, <1>6, <1>7, <1>8
     DEF Next, GuardianStep, ShellStep, Environment

(* No scheduled restart is forgotten or moved: it stays in the table until *)
(* do_restart carries it out when it is due, however other children are    *)
(* reaped, removed or restarted in between (handle_child_exit,             *)
(* remove_service, restart_pending_services).                              *)
THEOREM PendingRestartKeptAlways ==
  ASSUME "fork" \notin Faults, "pid_reuse" \notin Faults
  PROVE  Spec => PendingRestartKept
<1> DEFINE Kept == \A i \in DOMAIN services :
                     IsScheduled(services[i]) =>
                       \/ \E j \in DOMAIN services' : services'[j] = services[i]
                       \/ CarriedOut(services[i])
<1>1. WatchInv /\ [Next]_vars => [Kept]_vars
  BY PendingStep
<1> QED  BY WatchInit, WatchStep, <1>1, PTL DEF Spec, PendingRestartKept

-----------------------------------------------------------------------------
(* Supervised, as a fact of a table and the kernel's state.                *)
Covered(tbl, st, cmd) ==
  \A p \in Pids : st[p] # "free" /\ cmd[p] \in Services =>
    \E i \in DOMAIN tbl : /\ tbl[i].pid = p /\ tbl[i].svc = cmd[p]
                          /\ ~IsScheduled(tbl[i])

SupervisedInv == WatchInv /\ Covered(services, state, command)

Roomy == IsFiniteSet(Services) /\ Cardinality(Services) <= MAX_SERVICES

-----------------------------------------------------------------------------
(* A table that does not name s yet is not full.                           *)
LEMMA NotFull ==
  ASSUME Roomy, NEW tbl \in Seq(EntryType), SvcDistinct(tbl),
         NEW s \in Services, \A i \in DOMAIN tbl : tbl[i].svc # s
  PROVE  ~IsFull(tbl)
<1> DEFINE D == 1 .. Len(tbl)
           R == Services \ {s}
           f == [i \in D |-> tbl[i].svc]
<1>1. /\ Len(tbl) \in Nat /\ DOMAIN tbl = D
      /\ \A i \in DOMAIN tbl : tbl[i] \in EntryType
  BY IndexBasics
<1>2. IsFiniteSet(D) /\ Cardinality(D) = Len(tbl)
  BY <1>1, FS_Interval
<1>3. IsFiniteSet(R) /\ Cardinality(R) = Cardinality(Services) - 1
        /\ Cardinality(Services) \in Nat
  BY FS_RemoveElement, FS_CardinalityType DEF Roomy
<1>4. f \in Injection(D, R)
  <2>1. \A i \in D : tbl[i].svc \in R
    BY <1>1 DEF EntryType
  <2>2. \A i, j \in D : tbl[i].svc = tbl[j].svc => i = j
    BY <1>1 DEF SvcDistinct
  <2> QED  BY <2>1, <2>2 DEF Injection, IsInjective
<1>5. Cardinality(D) <= Cardinality(R)
  BY <1>2, <1>3, <1>4, FS_Injection
<1> QED  BY <1>1, <1>2, <1>3, <1>5, MaxServicesAssumption DEF IsFull, Roomy

(* Nothing that frees processes, or starts processes of nobody, uncovers   *)
(* another one.                                                            *)
LEMMA FrameCovered ==
  ASSUME NEW tbl, NEW st, NEW cmd, Covered(tbl, st, cmd), NEW st1, NEW cmd1,
         \A p \in Pids : st1[p] # "free" /\ cmd1[p] \in Services =>
                           st[p] # "free" /\ cmd[p] = cmd1[p]
  PROVE  Covered(tbl, st1, cmd1)
BY DEF Covered

(* The reaped child is gone, so scheduling or dropping its entry uncovers  *)
(* nobody.                                                                 *)
LEMMA AfterExitCovered ==
  ASSUME SupervisedInv, pc \in {"drain_handle", "handle"}
  PROVE  Covered(TableAfterExit(reaped.pid, reaped.ok), state, command)
<1> DEFINE pid == reaped.pid
           ok == reaped.ok
           tbl == TableAfterExit(pid, ok)
<1>1. BudgetInv /\ TableGood(services, state, command, pid) /\ ok \in BOOLEAN
  <2>1. BudgetInv /\ TableGood(services, state, command, InHand)
    BY DEF SupervisedInv, WatchInv
  <2>2. InHand = pid
    BY DEF InHand
  <2> QED  BY <2>1, <2>2 DEF BudgetInv, TypeOK
<1>2. /\ services \in Seq(EntryType)
      /\ Len(services) \in Nat /\ DOMAIN services = 1 .. Len(services)
  BY <1>1, ServicesTyped
<1>3. ASSUME NEW p \in Pids, state[p] # "free", command[p] \in Services
      PROVE  \E j \in DOMAIN services :
               /\ services[j].pid = p /\ services[j].svc = command[p]
               /\ ~IsScheduled(services[j]) /\ services[j].pid # pid
  <2>1. PICK j \in DOMAIN services : /\ services[j].pid = p
                                     /\ services[j].svc = command[p]
                                     /\ ~IsScheduled(services[j])
    BY <1>3 DEF SupervisedInv, Covered
  <2>2. EntryGood(services[j], state, command, pid)
    BY <1>1 DEF TableGood
  <2> QED  BY <1>3, <2>1, <2>2 DEF EntryGood
<1> SUFFICES Covered(tbl, state, command)
  OBVIOUS
<1> HIDE DEF pid, ok
<1>4. \/ ~IsRegistered(services, pid) /\ tbl = services
      \/ \E i \in DOMAIN services :
           /\ services[i].pid = pid /\ WantsRestart(services[i], ok)
           /\ tbl = [services EXCEPT ![i] = Schedule(services[i])]
      \/ \E i \in DOMAIN services :
           /\ services[i].pid = pid /\ ~WantsRestart(services[i], ok)
           /\ tbl = DropSlot(services, i)
  BY <1>1, <1>2, AfterExitCases
<1> HIDE DEF tbl
<1>5. CASE tbl = services
  BY <1>5 DEF SupervisedInv
<1>6. ASSUME NEW i \in DOMAIN services, services[i].pid = pid,
             tbl = [services EXCEPT ![i] = Schedule(services[i])]
      PROVE  Covered(tbl, state, command)
  <2> DEFINE e == Schedule(services[i])
  <2>1. DOMAIN tbl = DOMAIN services
          /\ \A j \in DOMAIN services : j # i => tbl[j] = services[j]
    <3> HIDE DEF e
    <3>1. tbl = [services EXCEPT ![i] = e]
      BY <1>6 DEF e
    <3> QED  BY <3>1, <1>2
  <2> QED  BY <1>3, <1>6, <2>1 DEF Covered
<1>7. ASSUME NEW i \in DOMAIN services, services[i].pid = pid,
             tbl = DropSlot(services, i)
      PROVE  Covered(tbl, state, command)
  <2>1. /\ DOMAIN tbl = 1 .. Len(services) - 1
        /\ \A k \in 1 .. Len(services) - 1 :
             tbl[k] = IF k < i THEN services[k] ELSE services[k + 1]
    BY <1>2, <1>7, DropSlotProperties
  <2>2. ASSUME NEW j \in DOMAIN services, j # i
        PROVE  \E k \in DOMAIN tbl : tbl[k] = services[j]
    <3>1. CASE j < i
      BY <1>2, <2>1, <3>1
    <3>2. CASE j > i
      <4>1. j - 1 \in DOMAIN tbl /\ tbl[j - 1] = services[j]
        BY <1>2, <2>1, <3>2
      <4> QED  BY <4>1
    <3> QED  BY <1>2, <2>2, <3>1, <3>2
  <2> QED  BY <1>3, <1>7, <2>2 DEF Covered
<1> QED  BY <1>4, <1>5, <1>6, <1>7

(* A background line of the script: its process gets an entry, because the *)
(* table has room for every service once.                                  *)
LEMMA RegisterCovered ==
  ASSUME Roomy, "pid_reuse" \notin Faults, SupervisedInv,
         NEW s \in Services, NEW p \in Pids, Register(s, p)
  PROVE  Covered(services', state', command')
<1> DEFINE e == Entry(s, p)
<1>1. /\ BudgetInv /\ starts[s] = 0 /\ Spawn(p, s)
      /\ services' = AddService(services, s, p)
  BY DEF SupervisedInv, WatchInv, Register, Launch
<1>2. /\ services \in Seq(EntryType) /\ Len(services) \in Nat
      /\ DOMAIN services = 1 .. Len(services)
  BY <1>1, ServicesTyped
<1>3. SvcDistinct(services) /\ \A i \in DOMAIN services : services[i].svc # s
  BY <1>1 DEF BudgetInv, TableOK, Accounted
<1>4. services' = Append(services, e)
  BY <1>1, <1>2, <1>3, NotFull DEF AddService
<1>5. e \in EntryType /\ e.pid = p /\ e.svc = s /\ ~IsScheduled(e)
  BY GuardianAssumption DEF Entry, EntryType, IsScheduled
<1> HIDE DEF e
<1>6. /\ DOMAIN services' = 1 .. Len(services) + 1
      /\ \A i \in DOMAIN services : services'[i] = services[i]
      /\ services'[Len(services) + 1] = e
  BY <1>2, <1>4, <1>5, AppendProperties
<1>7. /\ command'[p] = s
      /\ \A q \in Pids \ {p} : state'[q] = state[q] /\ command'[q] = command[q]
  BY <1>1, SpawnFresh, BudgetTyped
<1>8. ASSUME NEW q \in Pids, state'[q] # "free", command'[q] \in Services
      PROVE  \E i \in DOMAIN services' :
               /\ services'[i].pid = q /\ services'[i].svc = command'[q]
               /\ ~IsScheduled(services'[i])
  <2>1. CASE q = p
    BY <1>2, <1>5, <1>6, <1>7, <2>1
  <2>2. CASE q # p
    <3>1. PICK i \in DOMAIN services : /\ services[i].pid = q
                                       /\ services[i].svc = command[q]
                                       /\ ~IsScheduled(services[i])
      BY <1>7, <1>8, <2>2 DEF SupervisedInv, Covered
    <3> QED  BY <1>2, <1>6, <1>7, <2>2, <3>1
  <2> QED  BY <2>1, <2>2
<1> QED  BY <1>8 DEF Covered

(* A restart keeps every live service in the table: the slot it fills is   *)
(* the one whose pid it has just forked.                                   *)
LEMMA RestartCovered ==
  ASSUME "pid_reuse" \notin Faults, SupervisedInv,
         NEW i, NEW p \in Pids, RestartOne(i, p)
  PROVE  Covered(services', state', command')
<1> DEFINE e == Restarted(services[i], p)
<1>1. /\ BudgetInv /\ i \in DOMAIN services /\ IsScheduled(services[i])
      /\ Spawn(p, services[i].svc) /\ services' = [services EXCEPT ![i] = e]
  BY DEF SupervisedInv, WatchInv, RestartOne, IsFirstDue, IsDue
<1>2. /\ services \in Seq(EntryType)
      /\ \A j \in DOMAIN services : services[j] \in EntryType
  BY <1>1, ServicesTyped
<1>3. e.pid = p /\ e.svc = services[i].svc /\ ~IsScheduled(e)
  <2>1. services[i] \in EntryType /\ services[i].restart_count < MAX_RESTARTS
    BY <1>1, <1>2 DEF BudgetInv, TableOK, WithinLimit
  <2> QED  BY <2>1, RestartedEntry
<1> HIDE DEF e
<1>4. /\ DOMAIN services' = DOMAIN services
      /\ \A j \in DOMAIN services : services'[j] = IF j = i THEN e ELSE services[j]
  BY <1>1, <1>2
<1>5. /\ command'[p] = services[i].svc
      /\ \A q \in Pids \ {p} : state'[q] = state[q] /\ command'[q] = command[q]
  BY <1>1, SpawnFresh, BudgetTyped
<1>6. ASSUME NEW q \in Pids, state'[q] # "free", command'[q] \in Services
      PROVE  \E j \in DOMAIN services' :
               /\ services'[j].pid = q /\ services'[j].svc = command'[q]
               /\ ~IsScheduled(services'[j])
  <2>1. CASE q = p
    BY <1>1, <1>3, <1>4, <1>5, <2>1
  <2>2. CASE q # p
    <3>1. PICK j \in DOMAIN services : /\ services[j].pid = q
                                       /\ services[j].svc = command[q]
                                       /\ ~IsScheduled(services[j])
      BY <1>5, <1>6, <2>2 DEF SupervisedInv, Covered
    <3> QED  BY <1>1, <1>4, <1>5, <2>2, <3>1
  <2> QED  BY <2>1, <2>2
<1> QED  BY <1>6 DEF Covered

-----------------------------------------------------------------------------
(* No service runs at boot, so all of them are covered.                    *)
LEMMA SupervisedInit == Init => SupervisedInv
<1> SUFFICES ASSUME Init PROVE SupervisedInv
  OBVIOUS
<1>1. Covered(services, state, command)
  BY DEF Init, Covered
<1> QED  BY <1>1, WatchInit DEF SupervisedInv

(* With room in the table and neither failed forks nor reused pids, every  *)
(* step keeps every live service in the table.                             *)
LEMMA SupervisedStep ==
  ASSUME Roomy, "fork" \notin Faults, "pid_reuse" \notin Faults, "add" \notin Faults
  PROVE  SupervisedInv /\ [Next]_vars => SupervisedInv'
<1> SUFFICES ASSUME SupervisedInv, [Next]_vars PROVE SupervisedInv'
  OBVIOUS
<1>1. /\ WatchInv /\ WatchInv' /\ BudgetInv
      /\ Covered(services, state, command)
  BY WatchStep DEF SupervisedInv, WatchInv
<1> SUFFICES Covered(services', state', command')
  BY <1>1 DEF SupervisedInv
<1>2. CASE UNCHANGED vars \/ Terminated \/ Boot \/ EndShell \/ WaitNothing
             \/ RestartDone \/ DrainDone \/ BootFails \/ SignalBeforeHandler
             \/ SignalInShell \/ SignalInGuardian \/ Tick
  <2>1. UNCHANGED <<services, state, command>>
    BY <1>2 DEF vars, Terminated, Boot, EndShell, WaitNothing, RestartDone,
                DrainDone, BootFails, SignalBeforeHandler, SignalInShell,
                SignalInGuardian, Tick, kernel
  <2> QED  BY <2>1, <1>1
<1>3. ASSUME NEW p \in Pids, NEW ok \in BOOLEAN, Exit(p, ok)
      PROVE  Covered(services', state', command')
  <2>1. UNCHANGED <<services, command>>
          /\ \A q \in Pids : state'[q] # "free" => state[q] # "free"
    BY <1>3, <1>1 DEF Exit, BudgetInv, TypeOK
  <2> QED  BY <2>1, <1>1, FrameCovered
<1>4. ASSUME NEW p \in Pids, Adopt(p)
      PROVE  Covered(services', state', command')
  <2>1. /\ services' = services /\ command'[p] = NoService
        /\ \A q \in Pids \ {p} : state'[q] = state[q] /\ command'[q] = command[q]
    BY <1>1, <1>4, SpawnFresh, BudgetTyped DEF Adopt
  <2>2. \A q \in Pids : state'[q] # "free" /\ command'[q] \in Services =>
                          state[q] # "free" /\ command[q] = command'[q]
    BY <2>1, GuardianAssumption
  <2> QED  BY <2>1, <2>2, <1>1, FrameCovered
<1>5. ASSUME NEW p \in Pids, DrainReap(p) \/ WaitReap(p)
      PROVE  Covered(services', state', command')
  <2>1. /\ services' = services /\ state'[p] = "free"
        /\ \A q \in Pids \ {p} : state'[q] = state[q] /\ command'[q] = command[q]
    BY <1>1, <1>5 DEF DrainReap, WaitReap, Reap, BudgetInv, TypeOK
  <2>2. \A q \in Pids : state'[q] # "free" /\ command'[q] \in Services =>
                          state[q] # "free" /\ command[q] = command'[q]
    BY <2>1
  <2> QED  BY <2>1, <2>2, <1>1, FrameCovered
<1>6. CASE HandleChildExit \/ ReexecFails
  BY <1>6, AfterExitCovered DEF HandleChildExit, ReexecFails, kernel
<1>7. CASE Reexec
  <2> DEFINE tbl == TableAfterExit(reaped.pid, reaped.ok)
  <2>1. /\ MustReinitialize(tbl) /\ pc \in {"drain_handle", "handle"}
        /\ services' = <<>> /\ UNCHANGED <<state, command>>
    BY <1>7 DEF Reexec, kernel
  <2>2. Covered(tbl, state, command)
    BY <2>1, AfterExitCovered
  <2>3. tbl \in Seq(EntryType)
    BY <1>1, TableAfterExitOK DEF TableOK
  <2> HIDE DEF tbl
  <2>4. tbl = <<>>
    BY <2>1, <2>3, EmptySeq DEF MustReinitialize
  <2> QED  BY <2>1, <2>2, <2>4
<1>8. ASSUME NEW s \in Services, NEW p \in Pids,
             Register(s, p) \/ RegisterFails(s, p)
      PROVE  Covered(services', state', command')
  BY <1>8, RegisterCovered DEF RegisterFails
<1>9. ASSUME NEW i, NEW p \in Pids, RestartOne(i, p)
      PROVE  Covered(services', state', command')
  BY <1>9, RestartCovered
<1>10. ASSUME NEW i, RestartForkFails(i)
       PROVE  FALSE
  BY <1>10 DEF RestartForkFails
<1> QED
  BY <1>2, <1>3, <1>4, <1>5, <1>6, <1>7, <1>8, <1>9, <1>10
     DEF Next, GuardianStep, ShellStep, Environment

(* No service process is outside the table: remove_service only drops what *)
(* is dead, and re-initialisation leaves no process of the old image to    *)
(* run beside those the new one starts.                                    *)
THEOREM SupervisedAlways ==
  ASSUME Roomy, "fork" \notin Faults, "pid_reuse" \notin Faults, "add" \notin Faults
  PROVE  Spec => []Supervised
<1>1. SupervisedInv => Supervised
  BY DEF SupervisedInv, Covered, Supervised
<1> QED  BY SupervisedInit, SupervisedStep, <1>1, PTL DEF Spec

(* No two live processes run the same service, over restarts, removals     *)
(* and re-initialisation.                                                  *)
THEOREM OnePerServiceAlways ==
  ASSUME Roomy, "fork" \notin Faults, "pid_reuse" \notin Faults, "add" \notin Faults
  PROVE  Spec => []OnePerService
<1>1. SupervisedInv => OnePerService
  <2> SUFFICES ASSUME SupervisedInv, NEW p \in Live, NEW q \in Live,
                      command[p] = command[q], command[p] # NoService
               PROVE  p = q
    BY DEF OnePerService
  <2>1. /\ p \in Pids /\ q \in Pids /\ state[p] # "free" /\ state[q] # "free"
        /\ command[p] \in Services
    BY DEF Live, SupervisedInv, WatchInv, BudgetInv, TypeOK
  <2>2. PICK i \in DOMAIN services : services[i].pid = p /\ services[i].svc = command[p]
    BY <2>1 DEF SupervisedInv, Covered
  <2>3. PICK j \in DOMAIN services : services[j].pid = q /\ services[j].svc = command[q]
    BY <2>1 DEF SupervisedInv, Covered
  <2> QED  BY <2>2, <2>3 DEF SupervisedInv, WatchInv, BudgetInv, TableOK, SvcDistinct
<1> QED  BY SupervisedInit, SupervisedStep, <1>1, PTL DEF Spec

-----------------------------------------------------------------------------
(* No service is given up before its restarts are used.  That needs the    *)
(* count of an entry to be exactly the number of restarts that took place, *)
(* which a failed fork would break, and nothing of the pids.               *)
Exact(tbl, st) == \A i \in DOMAIN tbl : st[tbl[i].svc] = tbl[i].restart_count + 1

KeptInv == BudgetInv /\ Exact(services, starts) /\ NeverDroppedEarly

(* A background line whose service is new appends its entry.               *)
LEMMA AddAppends ==
  ASSUME Roomy, BudgetInv, NEW s \in Services, starts[s] = 0, NEW p \in Pids
  PROVE  LET tbl == AddService(services, s, p)
         IN  /\ DOMAIN tbl = 1 .. Len(services) + 1
             /\ \A i \in DOMAIN services :
                  i \in DOMAIN tbl /\ tbl[i] = services[i] /\ services[i].svc # s
             /\ tbl[Len(services) + 1] = Entry(s, p)
<1> DEFINE e == Entry(s, p)
<1>1. /\ services \in Seq(EntryType) /\ Len(services) \in Nat
      /\ DOMAIN services = 1 .. Len(services)
  BY ServicesTyped
<1>2. SvcDistinct(services) /\ \A i \in DOMAIN services : services[i].svc # s
  BY DEF BudgetInv, TableOK, Accounted
<1>3. AddService(services, s, p) = Append(services, e)
  BY <1>1, <1>2, NotFull DEF AddService
<1>4. e \in EntryType
  BY GuardianAssumption DEF Entry, EntryType
<1> HIDE DEF e
<1>5. /\ DOMAIN Append(services, e) = 1 .. Len(services) + 1
      /\ \A i \in DOMAIN services : Append(services, e)[i] = services[i]
      /\ Append(services, e)[Len(services) + 1] = e
  BY <1>1, <1>4, AppendProperties
<1> QED  BY <1>1, <1>2, <1>3, <1>5 DEF e

(* handle_child_exit keeps every entry in the table, scheduled or not,     *)
(* except one it does not want to restart.                                 *)
LEMMA AfterExitKeeps ==
  ASSUME BudgetInv, NEW k \in DOMAIN services
  PROVE  LET tbl == TableAfterExit(reaped.pid, reaped.ok)
         IN  \/ \E j \in DOMAIN tbl : tbl[j].svc = services[k].svc
             \/ ~WantsRestart(services[k], reaped.ok)
<1> DEFINE pid == reaped.pid
           ok == reaped.ok
           tbl == TableAfterExit(pid, ok)
<1>1. ok \in BOOLEAN /\ now \in Nat
  BY DEF BudgetInv, TypeOK
<1>2. /\ services \in Seq(EntryType)
      /\ Len(services) \in Nat /\ DOMAIN services = 1 .. Len(services)
      /\ \A i \in DOMAIN services : services[i] \in EntryType
  BY ServicesTyped
<1> SUFFICES \/ \E j \in DOMAIN tbl : tbl[j].svc = services[k].svc
             \/ ~WantsRestart(services[k], ok)
  OBVIOUS
<1> HIDE DEF pid, ok
<1>3. \/ tbl = services
      \/ \E i \in DOMAIN services : tbl = [services EXCEPT ![i] = Schedule(services[i])]
      \/ \E i \in DOMAIN services :
           ~WantsRestart(services[i], ok) /\ tbl = DropSlot(services, i)
  BY <1>1, <1>2, AfterExitCases
<1> HIDE DEF tbl
<1>4. CASE tbl = services
  BY <1>4
<1>5. ASSUME NEW i \in DOMAIN services,
             tbl = [services EXCEPT ![i] = Schedule(services[i])]
      PROVE  \E j \in DOMAIN tbl : tbl[j].svc = services[k].svc
  <2> DEFINE e == Schedule(services[i])
  <2>1. e.svc = services[i].svc
    BY <1>1, <1>2, ScheduleEntry
  <2> HIDE DEF e
  <2>2. tbl = [services EXCEPT ![i] = e]
    BY <1>5 DEF e
  <2>3. k \in DOMAIN tbl /\ tbl[k] = IF k = i THEN e ELSE services[k]
    BY <1>2, <2>2
  <2> QED  BY <2>1, <2>3
<1>6. ASSUME NEW i \in DOMAIN services, ~WantsRestart(services[i], ok),
             tbl = DropSlot(services, i), k # i
      PROVE  \E j \in DOMAIN tbl : tbl[j].svc = services[k].svc
  <2>1. /\ DOMAIN tbl = 1 .. Len(services) - 1
        /\ \A j \in 1 .. Len(services) - 1 :
             tbl[j] = IF j < i THEN services[j] ELSE services[j + 1]
    BY <1>2, <1>6, DropSlotProperties
  <2>2. CASE k < i
    BY <1>2, <2>1, <2>2
  <2>3. CASE k > i
    <3>1. k - 1 \in DOMAIN tbl /\ tbl[k - 1] = services[k]
      BY <1>2, <2>1, <2>3
    <3> QED  BY <3>1
  <2> QED  BY <1>2, <1>6, <2>2, <2>3
<1> QED  BY <1>3, <1>4, <1>5, <1>6

(* At boot no service has been started, so none has been dropped.          *)
LEMMA KeptInit == Init => KeptInv
<1> SUFFICES ASSUME Init PROVE KeptInv
  OBVIOUS
<1>1. DOMAIN services = {} /\ \A s \in Services : starts[s] = 0
  BY DEF Init
<1> QED  BY <1>1, BudgetInit DEF KeptInv, Exact, NeverDroppedEarly

(* With room in the table and no failed fork or registration, every step   *)
(* keeps the services that have restarts left.                             *)
LEMMA KeptStep ==
  ASSUME Roomy, "fork" \notin Faults, "add" \notin Faults
  PROVE  KeptInv /\ [Next]_vars => KeptInv'
<1> SUFFICES ASSUME KeptInv, [Next]_vars PROVE KeptInv'
  OBVIOUS
<1>1. BudgetInv /\ BudgetInv' /\ Exact(services, starts) /\ NeverDroppedEarly
  BY BudgetStep DEF KeptInv
<1>2. /\ starts \in [Services -> Nat] /\ reaped.ok \in BOOLEAN
      /\ now \in Nat /\ shutting_down \in BOOLEAN
      /\ \A i \in DOMAIN services :
           /\ services[i] \in EntryType /\ services[i].svc \in Services
           /\ services[i].restart_count \in 0 .. MAX_RESTARTS
  <2>1. \A i \in DOMAIN services : services[i] \in EntryType
    BY <1>1, ServicesTyped
  <2> QED  BY <1>1, <2>1 DEF BudgetInv, TypeOK, EntryType
<1> SUFFICES Exact(services', starts') /\ NeverDroppedEarly'
  BY <1>1 DEF KeptInv
<1>3. CASE UNCHANGED vars \/ Terminated \/ Boot \/ BootFails \/ SignalBeforeHandler
             \/ EndShell \/ WaitNothing \/ DrainDone \/ RestartDone
             \/ SignalInShell \/ SignalInGuardian \/ Tick
             \/ \E p \in Pids : \/ DrainReap(p) \/ WaitReap(p) \/ Adopt(p)
                                \/ \E ok \in BOOLEAN : Exit(p, ok)
  <2>1. UNCHANGED <<services, starts>> /\ (shutting_down' = shutting_down \/ shutting_down')
    BY <1>3 DEF Terminated, vars, Boot, BootFails, SignalBeforeHandler, EndShell,
                WaitNothing, DrainDone, RestartDone, SignalInShell,
                SignalInGuardian, Tick, DrainReap, WaitReap, Adopt, Exit, history
  <2> QED  BY <1>1, <2>1 DEF Exact, NeverDroppedEarly
<1>4. ASSUME NEW s \in Services, NEW p \in Pids, Register(s, p) \/ RegisterFails(s, p)
      PROVE  Exact(services', starts') /\ NeverDroppedEarly'
  <2>1. /\ starts[s] = 0 /\ starts' = [starts EXCEPT ![s] = 1]
        /\ UNCHANGED shutting_down /\ services' = AddService(services, s, p)
    BY <1>4 DEF Register, RegisterFails, Launch
  <2>2. /\ DOMAIN services' = 1 .. Len(services) + 1
        /\ \A i \in DOMAIN services :
             /\ i \in DOMAIN services' /\ services'[i] = services[i]
             /\ services[i].svc # s
        /\ services'[Len(services) + 1] = Entry(s, p)
        /\ Len(services) \in Nat /\ DOMAIN services = 1 .. Len(services)
    BY <1>1, <2>1, AddAppends, ServicesTyped
  <2>3. Exact(services', starts')
    <3> SUFFICES ASSUME NEW j \in DOMAIN services'
                 PROVE  starts'[services'[j].svc] = services'[j].restart_count + 1
      BY DEF Exact
    <3>1. CASE j \in DOMAIN services
      BY <1>1, <1>2, <2>1, <2>2, <3>1 DEF Exact
    <3>2. CASE j = Len(services) + 1
      BY <1>2, <2>1, <2>2, <3>2 DEF Entry
    <3> QED  BY <2>2, <3>1, <3>2
  <2>4. ASSUME NEW t \in Services, RestartPolicy = "terminated", ~shutting_down
        PROVE  \/ starts'[t] \in {0, MAX_RESTARTS + 1}
               \/ \E i \in DOMAIN services' : services'[i].svc = t
    <3>1. CASE t = s
      <4>1. Len(services) + 1 \in DOMAIN services'
              /\ services'[Len(services) + 1].svc = s
        BY <2>2 DEF Entry
      <4> QED  BY <3>1, <4>1
    <3>2. CASE t # s
      BY <1>1, <1>2, <2>1, <2>2, <2>4, <3>2 DEF NeverDroppedEarly
    <3> QED  BY <3>1, <3>2
  <2> QED  BY <2>1, <2>3, <2>4 DEF NeverDroppedEarly
<1>5. CASE HandleChildExit \/ ReexecFails
  <2>1. /\ services' = TableAfterExit(reaped.pid, reaped.ok)
        /\ UNCHANGED <<starts, shutting_down>>
    BY <1>5 DEF HandleChildExit, ReexecFails, history
  <2>2. Exact(services', starts')
    <3>1. \A i \in DOMAIN services :
            /\ Schedule(services[i]).svc = services[i].svc
            /\ Schedule(services[i]).restart_count = services[i].restart_count
      BY <1>2, ScheduleEntry
    <3> QED  BY <1>1, <2>1, <3>1, AfterExitEntries, BudgetTyped DEF Exact
  <2>3. ASSUME NEW t \in Services, RestartPolicy = "terminated", ~shutting_down
        PROVE  \/ starts[t] \in {0, MAX_RESTARTS + 1}
               \/ \E i \in DOMAIN services' : services'[i].svc = t
    <3>1. CASE starts[t] \in {0, MAX_RESTARTS + 1}
      BY <3>1
    <3>2. ASSUME NEW k \in DOMAIN services, services[k].svc = t
          PROVE  \/ starts[t] = MAX_RESTARTS + 1
                 \/ \E i \in DOMAIN services' : services'[i].svc = t
      <4>1. CASE WantsRestart(services[k], reaped.ok)
        BY <1>1, <2>1, <3>2, <4>1, AfterExitKeeps
      <4>2. CASE ~WantsRestart(services[k], reaped.ok)
        <5>1. services[k].restart_count = MAX_RESTARTS
          BY <1>2, <2>3, <4>2, GuardianAssumption DEF WantsRestart, Policy
        <5> QED  BY <1>1, <3>2, <5>1 DEF Exact
      <4> QED  BY <4>1, <4>2
    <3> QED  BY <1>1, <2>3, <3>1, <3>2 DEF NeverDroppedEarly
  <2> QED  BY <2>1, <2>2, <2>3 DEF NeverDroppedEarly
<1>6. CASE Reexec
  <2>1. DOMAIN services' = {} /\ \A s \in Services : starts'[s] = 0
    BY <1>6 DEF Reexec
  <2> QED  BY <2>1 DEF Exact, NeverDroppedEarly
<1>7. ASSUME NEW i, NEW p \in Pids, RestartOne(i, p)
      PROVE  Exact(services', starts') /\ NeverDroppedEarly'
  <2> DEFINE e == Restarted(services[i], p)
  <2>1. /\ i \in DOMAIN services /\ IsScheduled(services[i])
        /\ services' = [services EXCEPT ![i] = e]
        /\ starts' = [starts EXCEPT ![services[i].svc] = @ + 1]
        /\ UNCHANGED shutting_down
    BY <1>7 DEF RestartOne, IsFirstDue, IsDue
  <2>2. e.svc = services[i].svc /\ e.restart_count = services[i].restart_count + 1
    BY <1>1, <1>2, <2>1, RestartedEntry DEF BudgetInv, TableOK, WithinLimit
  <2>3. /\ DOMAIN services' = DOMAIN services
        /\ \A j \in DOMAIN services : services'[j] = IF j = i THEN e ELSE services[j]
    BY <1>1, <2>1, RestartEntries, BudgetTyped
  <2> HIDE DEF e
  <2>4. \A j \in DOMAIN services : j # i => services[j].svc # services[i].svc
    BY <1>1, <2>1 DEF BudgetInv, TableOK, SvcDistinct
  <2>5. Exact(services', starts')
    BY <1>1, <1>2, <2>1, <2>2, <2>3, <2>4 DEF Exact
  <2>6. ASSUME NEW t \in Services
        PROVE  \/ starts'[t] = starts[t]
               \/ \E j \in DOMAIN services' : services'[j].svc = t
    BY <1>2, <2>1, <2>2, <2>3
  <2>7. \A j \in DOMAIN services : services'[j].svc = services[j].svc
    BY <2>2, <2>3
  <2>8. NeverDroppedEarly'
    BY <1>1, <2>1, <2>3, <2>6, <2>7 DEF NeverDroppedEarly
  <2> QED  BY <2>5, <2>8
<1>8. ASSUME NEW i, RestartForkFails(i)
      PROVE  FALSE
  BY <1>8 DEF RestartForkFails
<1> QED
  BY <1>3, <1>4, <1>5, <1>6, <1>7, <1>8 DEF Next, GuardianStep, ShellStep, Environment

(* A build that restarts every service gives one up only after all its     *)
(* restarts, unless it is shutting down (handle_child_exit): also if pids  *)
(* are reused, so that somebody else's exit is taken for the service's.    *)
THEOREM NeverDroppedEarlyAlways ==
  ASSUME Roomy, "fork" \notin Faults, "add" \notin Faults
  PROVE  Spec => []NeverDroppedEarly
<1>1. KeptInv => NeverDroppedEarly
  BY DEF KeptInv
<1> QED  BY KeptInit, KeptStep, <1>1, PTL DEF Spec

-----------------------------------------------------------------------------
(* Signals.  UsagiInit exits with success from the handler, which has just *)
(* signalled all that lives, or because there is nothing to guard.         *)
SignalInv == SupervisedInv /\ SignalForwarded

(* At boot UsagiInit has not exited.                                       *)
LEMMA SignalInit == Init => SignalInv
BY SupervisedInit DEF SignalInv, Init, SignalForwarded

(* A step that leaves UsagiInit running has nothing to show; one that ends *)
(* it has signalled everybody, or found the table empty.                   *)
LEMMA SignalStep ==
  ASSUME Roomy, TerminateAll, "fork" \notin Faults, "pid_reuse" \notin Faults,
         "add" \notin Faults
  PROVE  SignalInv /\ [Next]_vars => SignalInv'
<1> SUFFICES ASSUME SignalInv, [Next]_vars PROVE SignalInv'
  OBVIOUS
<1>1. SupervisedInv /\ SupervisedInv' /\ SignalForwarded
  BY SupervisedStep DEF SignalInv
<1> SUFFICES SignalForwarded'
  BY <1>1 DEF SignalInv
<1>2. CASE UNCHANGED vars \/ Terminated
  BY <1>1, <1>2 DEF vars, Terminated, kernel, history, SignalForwarded, Live
<1>3. CASE SignalInGuardian
  BY <1>3 DEF SignalInGuardian, Forward, Live, kernel, SignalForwarded
<1>4. CASE DrainDone
  <2>1. CASE Len(services) = 0
    <3>1. DOMAIN services = {}
      BY <1>1, <2>1, ServicesTyped DEF SupervisedInv, WatchInv
    <3>2. \A p \in Live : command[p] = NoService
      BY <1>1, <3>1
         DEF SupervisedInv, Covered, Live, WatchInv, BudgetInv, TypeOK
    <3> QED  BY <1>4, <3>2 DEF DrainDone, kernel, Live, SignalForwarded
  <2>2. CASE Len(services) # 0
    BY <1>4, <2>2 DEF DrainDone, LoopTop, SignalForwarded
  <2> QED  BY <2>1, <2>2
<1>5. CASE BootFails \/ SignalBeforeHandler \/ ReexecFails
  BY <1>5 DEF BootFails, SignalBeforeHandler, ReexecFails, Exited, SignalForwarded
<1>6. CASE Boot \/ EndShell \/ WaitNothing \/ RestartDone \/ HandleChildExit \/ Reexec
             \/ SignalInShell \/ Tick
  <2>1. pc' # "exited"
    BY <1>6 DEF Boot, EndShell, WaitNothing, RestartDone, LoopTop, HandleChildExit,
                Reexec, SignalInShell, Tick, GuardianPoints
  <2> QED  BY <2>1 DEF SignalForwarded
<1>7. ASSUME NEW p \in Pids, \/ DrainReap(p) \/ WaitReap(p) \/ Adopt(p)
                             \/ \E ok \in BOOLEAN : Exit(p, ok)
                             \/ \E s \in Services : Register(s, p) \/ RegisterFails(s, p)
                             \/ \E i \in 1 .. MAX_SERVICES : RestartOne(i, p)
      PROVE  SignalForwarded'
  <2>1. pc' # "exited"
    BY <1>7 DEF DrainReap, WaitReap, Adopt, Exit, Register, RegisterFails, Launch,
                RestartOne
  <2> QED  BY <2>1 DEF SignalForwarded
<1>8. ASSUME NEW i \in 1 .. MAX_SERVICES, RestartForkFails(i)
      PROVE  SignalForwarded'
  BY <1>8 DEF RestartForkFails
<1> QED
  BY <1>2, <1>3, <1>4, <1>5, <1>6, <1>7, <1>8
     DEF Next, GuardianStep, ShellStep, Environment

(* When UsagiInit exits because of a signal, every service process that    *)
(* still runs was sent it, whatever phase the signal met and whoever was   *)
(* registered or restarted behind it (README, "Signal forwarding"), in a   *)
(* build with TERMINATE_ALL_PROCESSES.                                     *)
THEOREM SignalForwardedAlways ==
  ASSUME Roomy, TerminateAll, "fork" \notin Faults, "pid_reuse" \notin Faults,
         "add" \notin Faults
  PROVE  Spec => []SignalForwarded
<1>1. SignalInv => SignalForwarded
  BY DEF SignalInv
<1> QED  BY SignalInit, SignalStep, <1>1, PTL DEF Spec
=============================================================================
