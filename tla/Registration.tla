----------------------------- MODULE Registration -----------------------------
(***************************************************************************)
(* The shell phase in script mode: how a background line of the init       *)
(* script gets into the service table.                                     *)
(*                                                                         *)
(*   sh          runs the preprocessed script: a line ending in & has      *)
(*               become a command of the foreground, usagi-reg ...           *)
(*   usagi-reg   src/usagi-reg.c, one process per background line: forks   *)
(*               the service, writes its record to the registration pipe,  *)
(*               then closes a sync pipe the service waits on              *)
(*   service     the forked child, until it execs the command              *)
(*   job         a background process that is no service and inherits the  *)
(*               write end of the registration pipe from sh                *)
(*   reader      main's two read loops over read_registration              *)
(*                                                                         *)
(* A service is identified by its pid.  A line of text is the unit of the  *)
(* pipe and of the reader's buffer: who wrote it, and what atoi makes of   *)
(* it.  All capacities are counted in lines.                               *)
(***************************************************************************)
EXTENDS ServiceTable

CONSTANTS
  Services,       \* pids of the services the script may launch
  EnvLen,         \* size of the environment usagi-reg sends
  Multiline,      \* services with a newline inside an argument
  PIPE_CAP,       \* kernel: capacity of a pipe
  PIPE_BUF,       \* kernel: longest write that is never split
  BUF_CAP,        \* registration.c: size of s_buf
  WithJob,        \* the script also starts a background job
  Parallel,       \* lines stand in parts of the script that run side by side
  MayDie          \* sh or a usagi-reg may fail or be killed

ASSUME RegistrationAssumption ==
  /\ Services \subseteq Nat \ {0}
  /\ EnvLen \in Nat /\ Multiline \subseteq Services
  /\ PIPE_CAP \in Nat \ {0} /\ BUF_CAP \in Nat \ {0, 1}
  /\ PIPE_BUF \in 1 .. PIPE_CAP
  /\ WithJob \in BOOLEAN /\ Parallel \in BOOLEAN /\ MayDie \in BOOLEAN

VARIABLES
  sh,             \* "running" | "exited"
  job,            \* "none" | "running" | "exited"
  reg,            \* usagi-reg: "none" | "started" | "writing" | "exited" | "died"
  unwritten,      \* what each usagi-reg still has to write
  child,          \* "none" | "forked" | "waiting" | "running"
  pipe,           \* the registration pipe, a sequence of lines
  buf,            \* s_buf[s_start .. s_end)
  reader,         \* "read" | "check" | "drain" | "closed"
  services        \* the table

procs == <<sh, job, reg, unwritten, child>>
vars == <<procs, pipe, buf, reader, services>>

-----------------------------------------------------------------------------
(* The message usagi-reg builds: pid, argc, the arguments, envc, the       *)
(* environment, one per line.  A newline inside an argument starts another *)
(* line; argc does not count it.                                           *)
Line(s, value) == [from |-> s, value |-> value]
Text(s) == Line(s, 0)
Arguments(s) ==
  IF s \in Multiline THEN <<Text(s), Text(s)>> ELSE <<Text(s)>>
Record(s) ==
  <<Line(s, s), Line(s, 1)>> \o Arguments(s)
    \o <<Line(s, EnvLen)>> \o [i \in 1 .. EnvLen |-> Text(s)]

(* read_registration on the lines b: either a record and the lines behind  *)
(* it, or REG_AGAIN / REG_ERROR with the buffer as it was.                 *)
Argc(b) == b[2].value
EnvcAt(b) == 3 + Argc(b)
RecordEnd(b) == EnvcAt(b) + b[EnvcAt(b)].value
IsBad(b) == Len(b) >= 2 /\ Argc(b) <= 0
IsComplete(b) ==
  /\ Len(b) >= 2 /\ ~IsBad(b)
  /\ Len(b) >= EnvcAt(b) /\ Len(b) >= RecordEnd(b)
ArgvShort(b) ==         \* mutant: argc counts the name of usagi-reg, too
  SubSeq(b, 3, 1 + Argc(b))
Argv(b) == SubSeq(b, 3, 2 + Argc(b))
BehindNothing(b) == b   \* mutant: s_start is put back after success, too
Behind(b) == SubSeq(b, RecordEnd(b) + 1, Len(b))

(* buf_fill: one read of what the pipe holds, as far as the buffer has     *)
(* room for it behind the compacted rest.                                  *)
Room == BUF_CAP - 1 - Len(buf)
Taken == IF Len(pipe) <= Room THEN Len(pipe) ELSE Room
Filled == buf \o SubSeq(pipe, 1, Taken)
Emptied == SubSeq(pipe, Taken + 1, Len(pipe))

(* The write end of the registration pipe is open in sh and in whatever    *)
(* inherited it and has not closed it or ended.                            *)
WriteEndKept == TRUE    \* mutant: main does not close its own write end
WriteEndOpen ==
  \/ sh = "running" \/ job = "running"
  \/ \E s \in Services : reg[s] \in {"started", "writing"} \/ child[s] = "forked"

-----------------------------------------------------------------------------
(* sh.  It waits for each usagi-reg, unless the lines are in several parts *)
(* of a pipeline or in a background part of the script.  The script may    *)
(* end or exit after any of its lines.                                     *)
ShIsFree == Parallel \/ \A s \in Services : reg[s] \in {"none", "exited", "died"}
ShLaunch(s) ==
  /\ sh = "running" /\ ShIsFree /\ reg[s] = "none"
  /\ reg' = [reg EXCEPT ![s] = "started"]
  /\ UNCHANGED <<sh, job, unwritten, child, pipe, buf, reader, services>>
ShJob ==
  /\ WithJob /\ sh = "running" /\ job = "none"
  /\ job' = "running"
  /\ UNCHANGED <<sh, reg, unwritten, child, pipe, buf, reader, services>>
ShExit ==
  /\ sh = "running" /\ (ShIsFree \/ MayDie)
  /\ sh' = "exited"
  /\ UNCHANGED <<job, reg, unwritten, child, pipe, buf, reader, services>>
JobExit ==
  /\ job = "running"
  /\ job' = "exited"
  /\ UNCHANGED <<sh, reg, unwritten, child, pipe, buf, reader, services>>

(* usagi-reg: fork the service, build the message, write it, close both    *)
(* pipes.                                                                  *)
RegFork(s) ==
  /\ reg[s] = "started"
  /\ reg' = [reg EXCEPT ![s] = "writing"]
  /\ child' = [child EXCEPT ![s] = "forked"]
  /\ unwritten' = [unwritten EXCEPT ![s] = Record(s)]
  /\ UNCHANGED <<sh, job, pipe, buf, reader, services>>

(* pipe() or fork() fails: the background line is skipped.                 *)
RegFails(s) ==
  /\ reg[s] = "started" /\ MayDie
  /\ reg' = [reg EXCEPT ![s] = "died"]
  /\ UNCHANGED <<sh, job, unwritten, child, pipe, buf, reader, services>>

(* One stretch of write(): the kernel splits a message only if it is       *)
(* longer than PIPE_BUF, and then whenever the pipe is full.               *)
RegWrite(s) ==
  LET free == PIPE_CAP - Len(pipe)
      left == Len(unwritten[s])
      n == IF left <= free THEN left ELSE free
  IN  /\ reg[s] = "writing" /\ reader # "closed"
      /\ n > 0
      /\ Len(Record(s)) <= PIPE_BUF => left <= free
      /\ pipe' = pipe \o SubSeq(unwritten[s], 1, n)
      /\ unwritten' = [unwritten EXCEPT ![s] = SubSeq(@, n + 1, left)]
      /\ UNCHANGED <<sh, job, reg, child, buf, reader, services>>
RegClose(s) ==
  /\ reg[s] = "writing" /\ unwritten[s] = <<>>
  /\ reg' = [reg EXCEPT ![s] = "exited"]
  /\ UNCHANGED <<sh, job, unwritten, child, pipe, buf, reader, services>>

(* SIGPIPE once the reader is gone; a failed malloc or write, or a signal  *)
(* (kill(-1) reaches usagi-reg too).  Both pipes close with the process.   *)
RegDies(s) ==
  /\ reg[s] = "writing" /\ unwritten[s] # <<>>
  /\ MayDie \/ reader = "closed"
  /\ reg' = [reg EXCEPT ![s] = "died"]
  /\ UNCHANGED <<sh, job, unwritten, child, pipe, buf, reader, services>>

(* The service: close reg_fd, read the sync pipe until it is closed at the *)
(* other end, exec.                                                        *)
SyncPipeKept(s) ==      \* mutant: the child keeps its own sync[1] open
  reg[s] \notin {"exited", "died"} \/ child[s] = "waiting"
SyncPipeUnused(s) == FALSE      \* mutant: the child does not read the pipe
SyncPipeOpen(s) == reg[s] \notin {"exited", "died"}
ChildClose(s) ==
  /\ child[s] = "forked"
  /\ child' = [child EXCEPT ![s] = "waiting"]
  /\ UNCHANGED <<sh, job, reg, unwritten, pipe, buf, reader, services>>
ChildExec(s) ==
  /\ child[s] = "waiting" /\ ~SyncPipeOpen(s)
  /\ child' = [child EXCEPT ![s] = "running"]
  /\ UNCHANGED <<sh, job, reg, unwritten, pipe, buf, reader, services>>

-----------------------------------------------------------------------------
(* One call of read_registration and what both loops of main do with       *)
(* REG_OK: add_service.  A call that yields no record leaves the loop for  *)
(* control point `otherwise'.                                              *)
ReadRegistration(otherwise) ==
  /\ pipe' = Emptied
  /\ IF IsComplete(Filled)
     THEN /\ services' = AddService(services, Argv(Filled), Filled[1].value)
          /\ buf' = Behind(Filled)
          /\ UNCHANGED reader
     ELSE /\ buf' = Filled
          /\ reader' = otherwise
          /\ UNCHANGED services
  /\ UNCHANGED procs

(* While sh runs, the pipe does not block; poll() only bounds the pause.   *)
ReadWhileShRuns == reader = "read" /\ ReadRegistration("check")
CheckShNoDrain ==       \* mutant: what is in flight at sh's exit is ignored
  /\ reader = "check"
  /\ reader' = IF sh = "exited" THEN "closed" ELSE "read"
  /\ UNCHANGED <<procs, pipe, buf, services>>
CheckSh ==
  /\ reader = "check"
  /\ reader' = IF sh = "exited" THEN "drain" ELSE "read"
  /\ UNCHANGED <<procs, pipe, buf, services>>

(* Then it does: read() waits for data or for the last writer to close,    *)
(* except that a full buffer asks for no byte and gets none.               *)
ReadBlocking ==
  /\ reader = "drain"
  /\ pipe # <<>> \/ Room = 0 \/ ~WriteEndOpen
  /\ ReadRegistration("closed")

-----------------------------------------------------------------------------
Init ==
  /\ sh = "running" /\ job = "none"
  /\ reg = [s \in Services |-> "none"]
  /\ unwritten = [s \in Services |-> <<>>]
  /\ child = [s \in Services |-> "none"]
  /\ pipe = <<>> /\ buf = <<>>
  /\ reader = "read" /\ services = <<>>

Reader == ReadWhileShRuns \/ CheckSh \/ ReadBlocking
RegStep(s) == RegFork(s) \/ RegWrite(s) \/ RegClose(s) \/ RegDies(s) \/ RegFails(s)
ChildStep(s) == ChildClose(s) \/ ChildExec(s)
Quiet ==
  /\ reader = "closed" /\ sh = "exited" /\ job # "running"
  /\ \A s \in Services : reg[s] \in {"none", "exited", "died"}
                          /\ child[s] \in {"none", "running"}
  /\ UNCHANGED vars

Next ==
  \/ Reader \/ ShJob \/ ShExit \/ JobExit
  \/ \E s \in Services : ShLaunch(s) \/ RegStep(s) \/ ChildStep(s)
  \/ Quiet

(* Every process runs; the script ends.  Nothing makes a job end.          *)
Fairness ==
  /\ WF_vars(Reader) /\ WF_vars(ShExit)
  /\ \A s \in Services : /\ WF_vars(RegFork(s) \/ RegWrite(s) \/ RegClose(s))
                         /\ WF_vars(reader = "closed" /\ RegDies(s))
                         /\ WF_vars(ChildStep(s))

Spec == Init /\ [][Next]_vars
FairSpec == Spec /\ Fairness

-----------------------------------------------------------------------------
LineType == [from: Services, value: Nat]
TypeOK ==
  /\ sh \in {"running", "exited"}
  /\ job \in {"none", "running", "exited"}
  /\ reg \in [Services -> {"none", "started", "writing", "exited", "died"}]
  /\ unwritten \in [Services -> Seq(LineType)]
  /\ child \in [Services -> {"none", "forked", "waiting", "running"}]
  /\ pipe \in Seq(LineType) /\ Len(pipe) <= PIPE_CAP
  /\ buf \in Seq(LineType) /\ Len(buf) < BUF_CAP
  /\ reader \in {"read", "check", "drain", "closed"}
  /\ Len(services) <= MAX_SERVICES

IsEntryOf(e, s) == e.pid = s /\ e.svc = Arguments(s)
InTable(s) == \E i \in DOMAIN services : IsEntryOf(services[i], s)

(* Whatever the pace of the writers and the reader, however reads cut the  *)
(* stream, and wherever the buffer is compacted: every entry is some       *)
(* launched service's pid and command, and no service has two entries.     *)
NoPhantomEntry ==
  /\ \A i \in DOMAIN services :
       \E s \in Services : IsEntryOf(services[i], s) /\ reg[s] # "none"
  /\ \A i, j \in DOMAIN services : services[i].pid = services[j].pid => i = j

(* When the guardian phase begins no service is missing from the table:    *)
(* the blocking drain outlasts every usagi-reg, also one that sh forked    *)
(* just before it exited (README, "any line ending with & ...").  Only a   *)
(* usagi-reg that died, or a full table, loses a service.                  *)
NobodyMissed ==
  reader = "closed" =>
    \A s \in Services : reg[s] \in {"none", "died"} \/ InTable(s) \/ IsFull(services)

(* The sync pipe: no service execs before its whole record is in the pipe  *)
(* (usagi-reg.c, "cannot exec until AFTER").                               *)
ExecAfterRecord ==
  \A s \in Services : child[s] = "running" =>
    reg[s] = "exited" /\ unwritten[s] = <<>>

(* What the sync pipe is there for: a service that runs is in the table,   *)
(* so its SERVICE: line was logged.                                        *)
LoggedBeforeOutput ==
  \A s \in Services : child[s] = "running" => InTable(s)

(* The script's end leads to the guardian phase (README, "Once the script  *)
(* ends").                                                                 *)
GuardianPhaseComes == sh = "exited" ~> reader = "closed"

(* Every line the script started becomes a running service: no deadlock    *)
(* between the full pipe, the sync pipes and the reader.                   *)
EveryLaunchRuns ==
  \A s \in Services : reg[s] = "started" ~> child[s] = "running"
=============================================================================
