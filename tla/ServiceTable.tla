---------------------------- MODULE ServiceTable ----------------------------
(***************************************************************************)
(* The service table of src/services.c: the static array services[] with   *)
(* its service_count, as a sequence of entries.  An entry keeps what the   *)
(* guardian decides on: which command it is (svc), the pid it was last     *)
(* started under, how often it was restarted, and the time at which it is  *)
(* to be restarted (0: no restart is scheduled).  args and env, which the  *)
(* decisions never read, are abstracted into svc.                          *)
(***************************************************************************)
EXTENDS Integers, Sequences

CONSTANT MAX_SERVICES       \* capacity of services[]

ASSUME MaxServicesAssumption == MAX_SERVICES \in Nat \ {0}

Entry(svc, pid) ==
  [svc |-> svc, pid |-> pid, restart_count |-> 0, next_restart |-> 0]

(* add_service: a full table refuses the entry and is left unchanged.      *)
IsFull(tbl) == Len(tbl) >= MAX_SERVICES
AddServiceUnchecked(tbl, svc, pid) ==       \* mutant: the limit is not tested
  Append(tbl, Entry(svc, pid))
AddService(tbl, svc, pid) ==
  IF IsFull(tbl) THEN tbl ELSE Append(tbl, Entry(svc, pid))

(* find_service: the first entry with that pid.                            *)
IsRegistered(tbl, pid) == \E i \in DOMAIN tbl : tbl[i].pid = pid
FindService(tbl, pid) ==
  CHOOSE i \in DOMAIN tbl :
    tbl[i].pid = pid /\ \A j \in 1 .. i - 1 : tbl[j].pid # pid

(* remove_service: the entries behind the first match move down one slot.  *)
DropSlotUnmoved(tbl, i) ==                  \* mutant: count-- without the shift
  SubSeq(tbl, 1, Len(tbl) - 1)
DropSlot(tbl, i) ==
  [j \in 1 .. Len(tbl) - 1 |-> IF j < i THEN tbl[j] ELSE tbl[j + 1]]
RemoveService(tbl, pid) ==
  IF IsRegistered(tbl, pid) THEN DropSlot(tbl, FindService(tbl, pid)) ELSE tbl

(* get_next_restart_time: its caller only asks whether the earliest        *)
(* deadline is positive, that is whether any entry has a deadline at all.  *)
IsScheduled(e) == e.next_restart > 0
HasDeadline(tbl) == \E i \in DOMAIN tbl : IsScheduled(tbl[i])

(* get_service_pending_restart: i is the first entry whose deadline has    *)
(* passed at time now.                                                     *)
IsDue(e, now) == IsScheduled(e) /\ e.next_restart <= now
IsFirstDue(tbl, i, now) ==
  IsDue(tbl[i], now) /\ \A j \in 1 .. i - 1 : ~IsDue(tbl[j], now)
=============================================================================
