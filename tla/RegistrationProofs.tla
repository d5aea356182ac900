-------------------------- MODULE RegistrationProofs --------------------------
(***************************************************************************)
(* Theorems about the registration of services: for every number of them,  *)
(* every size of the pipe, the buffer and the environment, and every       *)
(* schedule of the writers and the reader.  usagi-reg's records are lines  *)
(* in a stream that reads and writes cut at any place; the invariant is    *)
(* that the stream nevertheless can be cut into whole records.  At the end, *)
(* Guardian's one action Register is shown to stand for all that sh,       *)
(* usagi-reg, the pipe, the buffer and the reader do about a line.         *)
(***************************************************************************)
EXTENDS RegistrationRefinement, ServiceTableTheorems

(* The table of this module, whose entries hold lines for a command.       *)
TableEntry ==
  [svc: Seq(LineType), pid: Nat, restart_count: Nat, next_restart: Nat]
TypeInv == TypeOK /\ services \in Seq(TableEntry)

-----------------------------------------------------------------------------
(* usagi-reg's message is a sequence of lines, of known length and order   *)
(* if no argument contains a newline.                                      *)
LEMMA RecordTyped ==
  ASSUME NEW s \in Services
  PROVE  Record(s) \in Seq(LineType)
<1>1. s \in Nat /\ EnvLen \in Nat
  BY RegistrationAssumption
<1>2. /\ Line(s, s) \in LineType /\ Line(s, 1) \in LineType
      /\ Line(s, EnvLen) \in LineType /\ Text(s) \in LineType
  BY <1>1 DEF Line, Text, LineType
<1>3. [i \in 1 .. EnvLen |-> Text(s)] \in Seq(LineType)
  BY <1>1, <1>2
<1>4. /\ <<Line(s, s), Line(s, 1)>> \in Seq(LineType)
      /\ <<Line(s, EnvLen)>> \in Seq(LineType)
      /\ Arguments(s) \in Seq(LineType)
  BY <1>2 DEF Arguments
<1> QED  BY <1>3, <1>4, ConcatProperties DEF Record

(* buf_fill moves lines from the front of the pipe to the end of the       *)
(* buffer; nothing is lost, and the buffer keeps a byte for its end.       *)
LEMMA FillMoves ==
  ASSUME TypeOK
  PROVE  /\ Filled \in Seq(LineType) /\ Emptied \in Seq(LineType)
         /\ Taken \in 0 .. Len(pipe) /\ Room \in Nat
         /\ Len(buf) \in Nat /\ Len(pipe) \in Nat
         /\ Len(Filled) = Len(buf) + Taken /\ Len(Filled) < BUF_CAP
         /\ Len(Emptied) = Len(pipe) - Taken
         /\ Taken = Len(pipe) \/ Len(Filled) = BUF_CAP - 1
         /\ Filled \o Emptied = buf \o pipe
<1>1. /\ buf \in Seq(LineType) /\ pipe \in Seq(LineType)
      /\ Len(buf) \in Nat /\ Len(pipe) \in Nat /\ Len(buf) < BUF_CAP
      /\ BUF_CAP \in Nat
  BY RegistrationAssumption DEF TypeOK
<1>2. /\ Room \in Nat /\ Taken \in 0 .. Len(pipe) /\ Taken <= Room
      /\ Taken = Len(pipe) \/ Taken = Room
  BY <1>1 DEF Room, Taken
<1>3. \A i \in 1 .. Len(pipe) : pipe[i] \in LineType
  BY <1>1, ElementOfSeq
<1> DEFINE front == SubSeq(pipe, 1, Taken)
<1>4. front \in Seq(LineType) /\ Len(front) = Taken
  BY <1>1, <1>2, <1>3, SubSeqProperties
<1>5. Emptied \in Seq(LineType) /\ Len(Emptied) = Len(pipe) - Taken
  BY <1>1, <1>2, <1>3, SubSeqProperties DEF Emptied
<1>6. front \o Emptied = pipe
  <2>1. SubSeq(pipe, 1, Taken) \o SubSeq(pipe, Taken + 1, Len(pipe))
          = SubSeq(pipe, 1, Len(pipe))
    <3>1. /\ 1 \in 1 .. Len(pipe) + 1 /\ Taken \in 1 - 1 .. Len(pipe)
          /\ Len(pipe) \in Taken .. Len(pipe)
      BY <1>1, <1>2
    <3> QED  BY <1>1, <3>1, ConcatAdjacentSubSeq
  <2> QED  BY <1>1, <2>1, SubSeqFull DEF Emptied
<1> HIDE DEF front
<1>7. /\ Filled = buf \o front /\ Filled \in Seq(LineType)
      /\ Len(Filled) = Len(buf) + Taken
  BY <1>1, <1>4, ConcatProperties DEF Filled, front
<1>8. Filled \o Emptied = buf \o pipe
  <2>1. (buf \o front) \o Emptied = buf \o (front \o Emptied)
    BY <1>1, <1>4, <1>5
  <2> QED  BY <1>6, <1>7, <2>1
<1>9. Len(Filled) < BUF_CAP /\ (Taken = Len(pipe) \/ Len(Filled) = BUF_CAP - 1)
  BY <1>1, <1>2, <1>7 DEF Room
<1> QED  BY <1>1, <1>2, <1>5, <1>7, <1>8, <1>9

(* add_service keeps the table a table, within its capacity.               *)
LEMMA AddTyped ==
  ASSUME NEW tbl \in Seq(TableEntry), Len(tbl) <= MAX_SERVICES,
         NEW svc \in Seq(LineType), NEW pid \in Nat
  PROVE  /\ AddService(tbl, svc, pid) \in Seq(TableEntry)
         /\ Len(AddService(tbl, svc, pid)) <= MAX_SERVICES
<1> DEFINE e == Entry(svc, pid)
<1>1. e \in TableEntry
  BY DEF Entry, TableEntry
<1> HIDE DEF e
<1>2. CASE IsFull(tbl)
  BY <1>2 DEF AddService
<1>3. CASE ~IsFull(tbl)
  <2>1. /\ Append(tbl, e) \in Seq(TableEntry)
        /\ Len(Append(tbl, e)) = Len(tbl) + 1 /\ Len(tbl) \in Nat
    BY <1>1, AppendProperties
  <2> QED  BY <1>3, <2>1, MaxServicesAssumption DEF AddService, IsFull, e
<1> QED  BY <1>2, <1>3

(* read_registration leaves the buffer and the pipe well typed, whatever   *)
(* it makes of the lines.                                                  *)
LEMMA ReadTyped ==
  ASSUME TypeInv, NEW otherwise \in {"read", "check", "drain", "closed"},
         ReadRegistration(otherwise)
  PROVE  TypeInv'
<1>1. /\ Filled \in Seq(LineType) /\ Emptied \in Seq(LineType)
      /\ Len(Filled) \in Nat /\ Len(Filled) < BUF_CAP
      /\ Len(Emptied) <= PIPE_CAP
  BY FillMoves, RegistrationAssumption DEF TypeInv, TypeOK
<1>2. \A i \in 1 .. Len(Filled) : Filled[i] \in LineType /\ Filled[i].value \in Nat
  <2>1. \A i \in 1 .. Len(Filled) : Filled[i] \in LineType
    BY <1>1, ElementOfSeq
  <2> QED  BY <2>1 DEF LineType
<1>3. CASE IsComplete(Filled)
  <2>1. /\ Argc(Filled) \in Nat /\ Len(Filled) >= 3 + Argc(Filled)
        /\ RecordEnd(Filled) \in Nat /\ RecordEnd(Filled) >= 0
    <3>1. Len(Filled) >= 2 /\ Argc(Filled) \in Nat
      BY <1>1, <1>2, <1>3 DEF IsComplete, Argc
    <3>2. Len(Filled) >= EnvcAt(Filled) /\ EnvcAt(Filled) = 3 + Argc(Filled)
      BY <1>3 DEF IsComplete, EnvcAt
    <3>3. Filled[EnvcAt(Filled)].value \in Nat
      BY <1>1, <1>2, <3>1, <3>2
    <3> QED  BY <3>1, <3>2, <3>3 DEF RecordEnd
  <2>2. Argv(Filled) \in Seq(LineType)
    <3>1. \A i \in 3 .. 2 + Argc(Filled) : Filled[i] \in LineType
      BY <1>1, <1>2, <2>1
    <3> QED  BY <2>1, <3>1, SubSeqProperties DEF Argv
  <2>3. Behind(Filled) \in Seq(LineType) /\ Len(Behind(Filled)) < BUF_CAP
    <3>1. \A i \in RecordEnd(Filled) + 1 .. Len(Filled) : Filled[i] \in LineType
      BY <1>1, <1>2, <2>1
    <3>2. /\ Behind(Filled) \in Seq(LineType)
          /\ Len(Behind(Filled)) =
               IF RecordEnd(Filled) + 1 <= Len(Filled)
               THEN Len(Filled) - (RecordEnd(Filled) + 1) + 1 ELSE 0
      BY <1>1, <2>1, <3>1, SubSeqProperties DEF Behind
    <3> QED  BY <1>1, <2>1, <3>2, RegistrationAssumption
  <2>4. Filled[1].value \in Nat
    BY <1>1, <1>2, <1>3 DEF IsComplete
  <2>5. /\ buf' = Behind(Filled) /\ pipe' = Emptied /\ UNCHANGED <<reader, procs>>
        /\ services' = AddService(services, Argv(Filled), Filled[1].value)
    BY <1>3 DEF ReadRegistration
  <2>6. services' \in Seq(TableEntry) /\ Len(services') <= MAX_SERVICES
    BY <2>2, <2>4, <2>5, AddTyped DEF TypeInv, TypeOK
  <2> QED  BY <1>1, <2>3, <2>5, <2>6 DEF TypeInv, TypeOK, procs
<1>4. CASE ~IsComplete(Filled)
  BY <1>1, <1>4 DEF ReadRegistration, TypeInv, TypeOK, procs
<1> QED  BY <1>3, <1>4

(* One stretch of write(): what is added to the pipe and what is left.     *)
LEMMA WriteMoves ==
  ASSUME TypeInv, NEW s \in Services, RegWrite(s)
  PROVE  LET u == unwritten[s]
         IN  \E n \in 1 .. Len(u) :
               /\ u \in Seq(LineType)
               /\ SubSeq(u, 1, n) \in Seq(LineType) /\ Len(SubSeq(u, 1, n)) = n
               /\ \A d \in 1 .. n : SubSeq(u, 1, n)[d] = u[d]
               /\ pipe' = pipe \o SubSeq(u, 1, n) /\ Len(pipe) + n <= PIPE_CAP
               /\ unwritten' = [unwritten EXCEPT ![s] = SubSeq(u, n + 1, Len(u))]
               /\ SubSeq(u, n + 1, Len(u)) \in Seq(LineType)
               /\ Len(Record(s)) <= PIPE_BUF => n = Len(u)
<1> DEFINE u == unwritten[s]
           free == PIPE_CAP - Len(pipe)
           n == IF Len(u) <= free THEN Len(u) ELSE free
<1>1. /\ u \in Seq(LineType) /\ Len(u) \in Nat /\ Len(pipe) \in Nat
      /\ Len(pipe) <= PIPE_CAP /\ PIPE_CAP \in Nat
  BY RegistrationAssumption DEF TypeInv, TypeOK
<1>2. /\ n > 0 /\ (Len(Record(s)) <= PIPE_BUF => Len(u) <= free)
      /\ pipe' = pipe \o SubSeq(u, 1, n)
      /\ unwritten' = [unwritten EXCEPT ![s] = SubSeq(u, n + 1, Len(u))]
  BY DEF RegWrite
<1>3. n \in 1 .. Len(u) /\ Len(pipe) + n <= PIPE_CAP
        /\ (Len(Record(s)) <= PIPE_BUF => n = Len(u))
  BY <1>1, <1>2
<1> HIDE DEF n, u, free
<1>4. \A i \in 1 .. Len(u) : u[i] \in LineType
  BY <1>1, ElementOfSeq
<1>5. /\ SubSeq(u, 1, n) \in Seq(LineType) /\ Len(SubSeq(u, 1, n)) = n
      /\ \A d \in 1 .. n : SubSeq(u, 1, n)[d] = u[d]
  <2>1. \A i \in 1 .. n : u[i] \in LineType
    BY <1>1, <1>3, <1>4
  <2> QED  BY <1>3, <2>1, SubSeqProperties
<1>6. SubSeq(u, n + 1, Len(u)) \in Seq(LineType)
  <2>1. \A i \in n + 1 .. Len(u) : u[i] \in LineType
    BY <1>1, <1>3, <1>4
  <2> QED  BY <1>1, <1>3, <2>1, SubSeqProperties
<1> QED  BY <1>1, <1>2, <1>3, <1>5, <1>6 DEF u

(* At the start nothing is under way and the table is empty.               *)
LEMMA TypeInit == Init => TypeInv
BY RegistrationAssumption, MaxServicesAssumption
   DEF Init, TypeInv, TypeOK

(* Every step of sh, usagi-reg, a service and the reader keeps the types.  *)
LEMMA TypeStep == TypeInv /\ [Next]_vars => TypeInv'
<1> SUFFICES ASSUME TypeInv, [Next]_vars PROVE TypeInv'
  OBVIOUS
<1>1. CASE UNCHANGED vars \/ Quiet
  BY <1>1 DEF Quiet, vars, procs, TypeInv, TypeOK
<1>2. CASE ReadWhileShRuns \/ ReadBlocking
  BY <1>2, ReadTyped DEF ReadWhileShRuns, ReadBlocking
<1>3. CASE CheckSh \/ ShJob \/ ShExit \/ JobExit
  BY <1>3 DEF CheckSh, ShJob, ShExit, JobExit, procs, TypeInv, TypeOK
<1>4. ASSUME NEW s \in Services,
             ShLaunch(s) \/ RegClose(s) \/ RegDies(s) \/ RegFails(s) \/ ChildStep(s)
      PROVE  TypeInv'
  BY <1>4 DEF ShLaunch, RegClose, RegDies, RegFails, ChildStep, ChildClose,
              ChildExec, TypeInv, TypeOK
<1>5. ASSUME NEW s \in Services, RegFork(s)
      PROVE  TypeInv'
  BY <1>5, RecordTyped DEF RegFork, TypeInv, TypeOK
<1>6. ASSUME NEW s \in Services, RegWrite(s)
      PROVE  TypeInv'
  <2> DEFINE u == unwritten[s]
  <2>1. PICK n \in 1 .. Len(u) :
          /\ SubSeq(u, 1, n) \in Seq(LineType) /\ Len(SubSeq(u, 1, n)) = n
          /\ pipe' = pipe \o SubSeq(u, 1, n) /\ Len(pipe) + n <= PIPE_CAP
          /\ unwritten' = [unwritten EXCEPT ![s] = SubSeq(u, n + 1, Len(u))]
          /\ SubSeq(u, n + 1, Len(u)) \in Seq(LineType)
    BY <1>6, WriteMoves
  <2>2. pipe' \in Seq(LineType) /\ Len(pipe') <= PIPE_CAP
    BY <2>1, ConcatProperties DEF TypeInv, TypeOK
  <2>3. unwritten' \in [Services -> Seq(LineType)]
    BY <2>1 DEF TypeInv, TypeOK
  <2> QED
    BY <1>6, <2>2, <2>3 DEF RegWrite, TypeInv, TypeOK
<1> QED
  BY <1>1, <1>2, <1>3, <1>4, <1>5, <1>6 DEF Next, Reader, RegStep

(* The pipe and the buffer keep to their capacities and to lines, also if  *)
(* arguments contain newlines, parts of the script run side by side and    *)
(* processes die.                                                          *)
THEOREM RegistrationTypeCorrect == Spec => []TypeOK
<1>1. TypeInv => TypeOK
  BY DEF TypeInv
<1> QED  BY TypeInit, TypeStep, <1>1, PTL DEF Spec

-----------------------------------------------------------------------------
(* What is on its way to the table: the lines in s_buf, then those still   *)
(* in the pipe.                                                            *)
Stream == buf \o pipe

(* The number of lines of a record: pid, argc, the command, envc and the   *)
(* environment.  The theorems about the stream assume that no argument     *)
(* contains a newline.                                                     *)
RecordLen == EnvLen + 4

(* The positions in H are those at which the records of st begin.          *)
Cut(H, st) ==
  /\ H \subseteq DOMAIN st
  /\ 1 \in DOMAIN st => 1 \in H
  /\ \A k \in H : k + RecordLen \in DOMAIN st => k + RecordLen \in H
  /\ \A j, k \in H : j < k => j + RecordLen <= k
  /\ \A k \in H : st[k].from \in Services
  /\ \A k \in H, d \in 1 .. RecordLen :
       k + d - 1 \in DOMAIN st => st[k + d - 1] = Record(st[k].from)[d]
  /\ \A j, k \in H : st[j].from = st[k].from => j = k

(* A record that begins at k has its writer's pid in no entry yet.  If it  *)
(* is whole, the writer has nothing left to write; if not, the writer is   *)
(* about to write just the lines that it lacks, and may only have been     *)
(* interrupted because the record exceeds PIPE_BUF.                        *)
Fate(k) ==
  LET s == Stream[k].from
  IN  /\ \A i \in DOMAIN services : services[i].pid # s
      /\ IF k + RecordLen <= Len(Stream) + 1
         THEN reg[s] \in {"writing", "exited"} /\ unwritten[s] = <<>>
         ELSE /\ reg[s] = "writing" /\ RecordLen > PIPE_BUF
              /\ unwritten[s] =
                   SubSeq(Record(s), Len(Stream) - k + 2, RecordLen)

(* Written but not entered: the record is in the stream, or the table was  *)
(* full.  Not written yet: all of it, or the rest of what is in the stream.*)
Sent(H, s) == \E k \in H : Stream[k].from = s
Whereabouts(H, s) ==
  /\ reg[s] \in {"none", "started", "exited"} => unwritten[s] = <<>>
  /\ reg[s] \in {"writing", "exited"} /\ unwritten[s] = <<>>
       => InTable(s) \/ IsFull(services) \/ Sent(H, s)
  /\ reg[s] = "writing" /\ unwritten[s] # <<>>
       => unwritten[s] = Record(s) \/ Sent(H, s)

EntriesGood ==
  /\ \A i \in DOMAIN services : \E s \in Services :
       /\ IsEntryOf(services[i], s)
       /\ reg[s] \in {"writing", "exited"} /\ unwritten[s] = <<>>
  /\ \A i, j \in DOMAIN services : services[i].pid = services[j].pid => i = j

(* sh runs one line at a time unless they stand in parts that run side by  *)
(* side, and waits for the last one unless it is killed.  The reader       *)
(* leaves its loops when nobody can write any more.                        *)
Busy(s) == reg[s] \in {"started", "writing"}
Turns ==
  /\ ~Parallel => \A s, t \in Services : Busy(s) /\ Busy(t) => s = t
  /\ ~Parallel /\ ~MayDie /\ sh = "exited" => \A s \in Services : ~Busy(s)
  /\ reader \in {"drain", "closed"} => sh = "exited"
  /\ reader = "closed" => Stream = <<>> /\ \A s \in Services : ~Busy(s)

StreamInvFor(H) ==
  /\ Cut(H, Stream)
  /\ \A k \in H : Fate(k)
  /\ \A s \in Services : Whereabouts(H, s)
  /\ EntriesGood /\ Turns

StreamInv == TypeInv /\ \E H \in SUBSET (DOMAIN Stream) : StreamInvFor(H)

(* A record fits into s_buf.  A larger one would be asked for byte by byte *)
(* of a buffer that has no room left.                                      *)
Fits == RecordLen < BUF_CAP

(* Writers do not mix their records: the kernel does not split a write, or *)
(* only one of them is ever at work and none is killed at it.              *)
WholeWrites == RecordLen <= PIPE_BUF \/ (~Parallel /\ ~MayDie)

-----------------------------------------------------------------------------
(* The elements of a concatenation, counted from either part.              *)
LEMMA Joined ==
  ASSUME NEW E, NEW a \in Seq(E), NEW b \in Seq(E)
  PROVE  /\ a \o b \in Seq(E) /\ Len(a \o b) = Len(a) + Len(b)
         /\ Len(a) \in Nat /\ Len(b) \in Nat
         /\ DOMAIN (a \o b) = 1 .. Len(a) + Len(b)
         /\ \A i \in 1 .. Len(a) : (a \o b)[i] = a[i]
         /\ \A i \in Len(a) + 1 .. Len(a) + Len(b) : (a \o b)[i] = b[i - Len(a)]
<1>1. Len(a) \in Nat /\ Len(b) \in Nat
  BY LenProperties
<1>2. a \o b \in Seq(E) /\ Len(a \o b) = Len(a) + Len(b)
        /\ DOMAIN (a \o b) = 1 .. Len(a \o b)
  BY ConcatProperties, LenProperties
<1>3. \A i \in 1 .. Len(a) + Len(b) :
        (a \o b)[i] = IF i <= Len(a) THEN a[i] ELSE b[i - Len(a)]
  BY ConcatProperties
<1>4. \A i \in 1 .. Len(a) : (a \o b)[i] = a[i]
  BY <1>1, <1>3
<1>5. \A i \in Len(a) + 1 .. Len(a) + Len(b) : (a \o b)[i] = b[i - Len(a)]
  BY <1>1, <1>3
<1> QED  BY <1>1, <1>2, <1>4, <1>5

(* What is at each place of a record without extra newlines.               *)
LEMMA RecordShape ==
  ASSUME Multiline = {}, NEW s \in Services
  PROVE  /\ Record(s) \in Seq(LineType) /\ Len(Record(s)) = RecordLen
         /\ RecordLen \in Nat /\ RecordLen >= 4 /\ s \in Nat /\ s # 0
         /\ Record(s)[1] = [from |-> s, value |-> s]
         /\ Record(s)[2] = [from |-> s, value |-> 1]
         /\ Record(s)[3] = Text(s)
         /\ Record(s)[4] = [from |-> s, value |-> EnvLen]
         /\ Arguments(s) = <<Text(s)>> /\ Text(s) \in LineType
<1>1. s \in Nat /\ s # 0 /\ EnvLen \in Nat
  BY RegistrationAssumption
<1>2. /\ Line(s, s) \in LineType /\ Line(s, 1) \in LineType
      /\ Line(s, EnvLen) \in LineType /\ Text(s) \in LineType
  BY <1>1 DEF Line, Text, LineType
<1>3. Arguments(s) = <<Text(s)>>
  BY DEF Arguments
<1> DEFINE head == <<Line(s, s), Line(s, 1)>>
           arg == Arguments(s)
           envc == <<Line(s, EnvLen)>>
           env == [i \in 1 .. EnvLen |-> Text(s)]
           two == head \o arg
           three == two \o envc
<1>4. head \in Seq(LineType) /\ arg \in Seq(LineType) /\ envc \in Seq(LineType)
        /\ env \in Seq(LineType)
  BY <1>1, <1>2, <1>3
<1>5. /\ Len(head) = 2 /\ head[1] = Line(s, s) /\ head[2] = Line(s, 1)
      /\ Len(arg) = 1 /\ arg[1] = Text(s)
      /\ Len(envc) = 1 /\ envc[1] = Line(s, EnvLen)
      /\ Len(env) = EnvLen
  BY <1>1, <1>2, <1>3
<1> HIDE DEF head, env, arg, envc
<1>6. two \in Seq(LineType) /\ Len(two) = 3
        /\ two[1] = Line(s, s) /\ two[2] = Line(s, 1) /\ two[3] = Text(s)
  <2>1. /\ two \in Seq(LineType) /\ Len(two) = Len(head) + Len(arg)
        /\ \A i \in 1 .. Len(head) : two[i] = head[i]
        /\ \A i \in Len(head) + 1 .. Len(head) + Len(arg) :
             two[i] = arg[i - Len(head)]
    BY <1>4, Joined
  <2> HIDE DEF two
  <2> QED  BY <1>5, <2>1
<1> HIDE DEF two
<1>7. /\ three \in Seq(LineType) /\ Len(three) = 4
      /\ three[1] = Line(s, s) /\ three[2] = Line(s, 1)
      /\ three[3] = Text(s) /\ three[4] = Line(s, EnvLen)
  <2>1. two \in Seq(LineType)
    BY <1>6
  <2>2. /\ three \in Seq(LineType) /\ Len(three) = Len(two) + Len(envc)
        /\ \A i \in 1 .. Len(two) : three[i] = two[i]
        /\ \A i \in Len(two) + 1 .. Len(two) + Len(envc) :
             three[i] = envc[i - Len(two)]
    BY <1>4, <2>1, Joined
  <2> HIDE DEF three
  <2> QED  BY <1>5, <1>6, <2>2
<1> HIDE DEF three
<1>8. /\ three \o env \in Seq(LineType) /\ Len(three \o env) = 4 + EnvLen
      /\ \A i \in 1 .. 4 : (three \o env)[i] = three[i]
  <2>1. /\ three \o env \in Seq(LineType)
        /\ Len(three \o env) = Len(three) + Len(env)
        /\ \A i \in 1 .. Len(three) : (three \o env)[i] = three[i]
    BY <1>4, <1>7, Joined
  <2> QED  BY <1>5, <1>7, <2>1
<1>9. Record(s) = three \o env
  BY DEF Record, three, two, head, env, arg, envc
<1> QED  BY <1>1, <1>2, <1>3, <1>7, <1>8, <1>9 DEF Line, RecordLen

(* The stream has the lines of the buffer and then those of the pipe.      *)
LEMMA StreamTyped ==
  ASSUME TypeOK
  PROVE  /\ Stream \in Seq(LineType) /\ Len(Stream) = Len(buf) + Len(pipe)
         /\ Len(Stream) \in Nat /\ DOMAIN Stream = 1 .. Len(Stream)
<1>1. buf \in Seq(LineType) /\ pipe \in Seq(LineType)
  BY DEF TypeOK
<1> QED  BY <1>1 DEF Stream

(* A usagi-reg begins its record behind whole ones.                        *)
LEMMA CutGrows ==
  ASSUME Multiline = {}, NEW st \in Seq(LineType), NEW H, Cut(H, st),
         NEW s \in Services, NEW more \in Seq(LineType),
         Len(more) \in 1 .. RecordLen,
         \A d \in 1 .. Len(more) : more[d] = Record(s)[d],
         \A k \in H : k + RecordLen <= Len(st) + 1,
         \A k \in H : st[k].from # s
  PROVE  Cut(H \cup {Len(st) + 1}, st \o more)
<1> DEFINE n == Len(st)
           m == Len(more)
           new == st \o more
           K == H \cup {n + 1}
           R == RecordLen
<1>1. /\ n \in Nat /\ m \in 1 .. R /\ DOMAIN st = 1 .. n /\ DOMAIN new = 1 .. n + m
      /\ \A i \in 1 .. n : new[i] = st[i]
      /\ \A i \in n + 1 .. n + m : new[i] = more[i - n]
  BY Joined, LenProperties
<1>2. R \in Nat /\ R >= 4 /\ Record(s)[1].from = s
  <2>1. R \in Nat /\ R >= 4 /\ Record(s)[1] = [from |-> s, value |-> s]
    BY RecordShape
  <2> QED  BY <2>1
<1>3. /\ H \subseteq 1 .. n /\ (1 \in 1 .. n => 1 \in H)
      /\ \A k \in H : k + R \in 1 .. n => k + R \in H
      /\ \A j, k \in H : j < k => j + R <= k
      /\ \A k \in H : st[k].from \in Services
      /\ \A k \in H, d \in 1 .. R :
           k + d - 1 \in 1 .. n => st[k + d - 1] = Record(st[k].from)[d]
      /\ \A j, k \in H : st[j].from = st[k].from => j = k
      /\ \A k \in H : k + R <= n + 1 /\ st[k].from # s
  BY <1>1 DEF Cut
<1>4. \A d \in 1 .. m : new[n + d] = Record(s)[d]
  <2> SUFFICES ASSUME NEW d \in 1 .. m PROVE new[n + d] = Record(s)[d]
    OBVIOUS
  <2>1. n + d \in n + 1 .. n + m /\ n + d - n = d
    BY <1>1
  <2>2. new[n + d] = more[d]
    BY <1>1, <2>1
  <2> QED  BY <2>2
<1>5. new[n + 1].from = s
  <2>1. 1 \in 1 .. m
    BY <1>1
  <2> QED  BY <1>2, <1>4, <2>1
<1> HIDE DEF new, n, m, R
<1>6. K \subseteq 1 .. n + m /\ (1 \in 1 .. n + m => 1 \in K)
  BY <1>1, <1>2, <1>3
<1>7. \A k \in K : k + R \in 1 .. n + m => k + R \in K
  <2> SUFFICES ASSUME NEW k \in K, k + R \in 1 .. n + m PROVE k + R \in K
    OBVIOUS
  <2>1. k \in H
    BY <1>1, <1>2
  <2>2. k \in 1 .. n /\ k + R <= n + 1
    BY <1>3, <2>1
  <2>3. CASE k + R = n + 1
    BY <2>3
  <2>4. CASE k + R \in 1 .. n
    BY <1>3, <2>1, <2>4
  <2> QED  BY <1>1, <1>2, <2>2, <2>3, <2>4
<1>8. \A j, k \in K : j < k => j + R <= k
  BY <1>1, <1>2, <1>3
<1>9. \A k \in H : k \in 1 .. n /\ new[k].from = st[k].from
  BY <1>1, <1>3
<1>10. \A k \in K : new[k].from \in Services
  BY <1>3, <1>5, <1>9
<1>11. ASSUME NEW k \in K, NEW d \in 1 .. R, k + d - 1 \in 1 .. n + m
       PROVE  new[k + d - 1] = Record(new[k].from)[d]
  <2>1. CASE k \in H
    <3>1. k + d - 1 \in 1 .. n
      BY <1>1, <1>2, <1>3, <2>1
    <3> QED  BY <1>1, <1>3, <1>9, <2>1, <3>1
  <2>2. CASE k = n + 1
    <3>1. k + d - 1 = n + d /\ d \in 1 .. m
      BY <1>1, <1>2, <1>11, <2>2
    <3> QED  BY <1>4, <1>5, <2>2, <3>1
  <2> QED  BY <2>1, <2>2
<1>12. \A j, k \in K : new[j].from = new[k].from => j = k
  BY <1>3, <1>5, <1>9
<1>13. DOMAIN new = 1 .. n + m
  BY <1>1
<1>14. Cut(K, new)
  BY <1>6, <1>7, <1>8, <1>10, <1>11, <1>12, <1>13 DEF Cut, R
<1> QED  BY <1>14 DEF K, new, n

(* A usagi-reg goes on with the record at k, of which a part is sent.      *)
LEMMA CutContinues ==
  ASSUME Multiline = {}, NEW st \in Seq(LineType), NEW H, Cut(H, st),
         NEW k \in H, NEW more \in Seq(LineType),
         Len(st) + Len(more) < k + RecordLen,
         \A d \in 1 .. Len(more) :
           more[d] = Record(st[k].from)[Len(st) - k + 1 + d]
  PROVE  Cut(H, st \o more)
<1> DEFINE n == Len(st)
           m == Len(more)
           new == st \o more
           R == RecordLen
<1>1. /\ n \in Nat /\ m \in Nat /\ DOMAIN st = 1 .. n /\ DOMAIN new = 1 .. n + m
      /\ \A i \in 1 .. n : new[i] = st[i]
      /\ \A i \in n + 1 .. n + m : new[i] = more[i - n]
  BY Joined, LenProperties
<1>2. k \in 1 .. n /\ n + m < k + R
  BY <1>1 DEF Cut
<1>3. R \in Nat /\ R >= 4
  BY RecordShape DEF Cut
<1>4. /\ H \subseteq 1 .. n /\ (1 \in 1 .. n => 1 \in H)
      /\ \A j \in H : j + R \in 1 .. n => j + R \in H
      /\ \A i, j \in H : i < j => i + R <= j
      /\ \A j \in H : st[j].from \in Services
      /\ \A j \in H, d \in 1 .. R :
           j + d - 1 \in 1 .. n => st[j + d - 1] = Record(st[j].from)[d]
      /\ \A i, j \in H : st[i].from = st[j].from => i = j
  BY <1>1 DEF Cut
<1>5. \A d \in 1 .. m : more[d] = Record(st[k].from)[n - k + 1 + d]
  OBVIOUS
<1> HIDE DEF new, n, m, R
<1>6. \A j \in H : j # k => j + R <= k
  BY <1>1, <1>2, <1>3, <1>4
<1>7. H \subseteq 1 .. n + m /\ (1 \in 1 .. n + m => 1 \in H)
  BY <1>1, <1>2, <1>4
<1>8. \A j \in H : j + R \in 1 .. n + m => j + R \in H
  BY <1>1, <1>2, <1>3, <1>4, <1>6
<1>9. \A j \in H : j \in 1 .. n /\ new[j].from = st[j].from
  BY <1>1, <1>4
<1>10. ASSUME NEW j \in H, NEW d \in 1 .. R, j + d - 1 \in 1 .. n + m
       PROVE  new[j + d - 1] = Record(new[j].from)[d]
  <2>1. CASE j + d - 1 \in 1 .. n
    BY <1>1, <1>4, <1>9, <2>1
  <2>2. CASE j + d - 1 \notin 1 .. n
    <3>1. j = k
      BY <1>1, <1>2, <1>3, <1>6, <1>9, <1>10, <2>2
    <3>2. /\ j + d - 1 \in n + 1 .. n + m /\ j + d - 1 - n \in 1 .. m
          /\ n - k + 1 + (j + d - 1 - n) = d
      BY <1>1, <1>2, <1>3, <1>10, <2>2, <3>1
    <3>3. \A i \in n + 1 .. n + m :
            i = j + d - 1 => new[i] = Record(st[k].from)[d]
      <4> SUFFICES ASSUME NEW i \in n + 1 .. n + m, i = j + d - 1
                   PROVE  new[i] = Record(st[k].from)[d]
        OBVIOUS
      <4>1. new[i] = more[i - n] /\ i - n \in 1 .. m /\ n - k + 1 + (i - n) = d
        BY <1>1, <1>2, <1>3, <3>1, <3>2
      <4> QED  BY <1>5, <4>1
    <3> QED  BY <1>9, <3>1, <3>2, <3>3
  <2> QED  BY <2>1, <2>2
<1>11. /\ \A j \in H : new[j].from \in Services
       /\ \A i, j \in H : new[i].from = new[j].from => i = j
  BY <1>4, <1>9
<1>12. Cut(H, new)
  BY <1>1, <1>4, <1>7, <1>8, <1>10, <1>11 DEF Cut, R
<1> QED  BY <1>12 DEF new

(* The first record is taken off the stream.                               *)
LEMMA CutShifts ==
  ASSUME Multiline = {}, NEW st \in Seq(LineType), NEW H, Cut(H, st),
         NEW new \in Seq(LineType), Len(st) >= RecordLen,
         Len(new) = Len(st) - RecordLen,
         \A i \in 1 .. Len(new) : new[i] = st[i + RecordLen]
  PROVE  Cut({k \in 1 .. Len(new) : k + RecordLen \in H}, new)
<1> DEFINE n == Len(st)
           m == Len(new)
           R == RecordLen
           K == {k \in 1 .. m : k + R \in H}
<1>1. /\ n \in Nat /\ m \in Nat /\ DOMAIN st = 1 .. n /\ DOMAIN new = 1 .. m
  BY LenProperties
<1>2. R \in Nat /\ R >= 4
  BY RegistrationAssumption DEF RecordLen
<1>3. /\ H \subseteq 1 .. n /\ (1 \in 1 .. n => 1 \in H)
      /\ \A j \in H : j + R \in 1 .. n => j + R \in H
      /\ \A i, j \in H : i < j => i + R <= j
      /\ \A j \in H : st[j].from \in Services
      /\ \A j \in H, d \in 1 .. R :
           j + d - 1 \in 1 .. n => st[j + d - 1] = Record(st[j].from)[d]
      /\ \A i, j \in H : st[i].from = st[j].from => i = j
  BY <1>1 DEF Cut
<1>4. n >= R /\ m = n - R /\ \A i \in 1 .. m : new[i] = st[i + R]
  OBVIOUS
<1> HIDE DEF n, m, R
<1>5. \A k \in K : /\ k \in 1 .. m /\ k + R \in H /\ k \in Nat
                   /\ new[k].from = st[k + R].from
  BY <1>4
<1>6. 1 \in 1 .. m => 1 \in K
  BY <1>1, <1>2, <1>3, <1>4
<1>7. \A k \in K : k + R \in 1 .. m => k + R \in K
  BY <1>1, <1>2, <1>3, <1>4, <1>5
<1>8. \A j, k \in K : j < k => j + R <= k
  BY <1>2, <1>3, <1>5
<1>9. \A k \in K : new[k].from \in Services
  BY <1>3, <1>5
<1>10. ASSUME NEW k \in K, NEW d \in 1 .. R, k + d - 1 \in 1 .. m
       PROVE  new[k + d - 1] = Record(new[k].from)[d]
  <2>1. /\ k + R + d - 1 \in 1 .. n
        /\ k + d - 1 + R = k + R + d - 1
    BY <1>1, <1>2, <1>4, <1>5, <1>10
  <2>2. new[k + d - 1] = st[k + R + d - 1]
    BY <1>4, <1>10, <2>1
  <2>3. \A j \in H : j = k + R => st[j + d - 1] = Record(st[j].from)[d]
    BY <1>3, <2>1
  <2> QED  BY <1>5, <2>2, <2>3
<1>11. \A j, k \in K : new[j].from = new[k].from => j = k
  BY <1>2, <1>3, <1>5
<1>12. Cut(K, new)
  BY <1>1, <1>6, <1>7, <1>8, <1>9, <1>10, <1>11 DEF Cut, R
<1> QED  BY <1>12 DEF K, m, R

(* The invariant at the start, with nothing in the stream.                 *)
LEMMA StreamInit == Init => StreamInv
<1> SUFFICES ASSUME Init PROVE StreamInv
  OBVIOUS
<1>1. Stream = <<>> /\ DOMAIN Stream = {} /\ DOMAIN services = {}
  BY DEF Init, Stream
<1>2. StreamInvFor({})
  <2>1. Cut({}, Stream)
    BY <1>1 DEF Cut
  <2>2. \A s \in Services : Whereabouts({}, s)
    BY DEF Init, Whereabouts
  <2>3. EntriesGood /\ Turns
    BY <1>1 DEF Init, EntriesGood, Turns, Busy
  <2> QED  BY <2>1, <2>2, <2>3 DEF StreamInvFor
<1> QED  BY <1>1, <1>2, TypeInit DEF StreamInv

(* What the invariant says of the record at k and its writer.              *)
LEMMA HeadFacts ==
  ASSUME Multiline = {}, TypeInv, NEW H, StreamInvFor(H), NEW k \in H
  PROVE  LET s == Stream[k].from
             whole == k + RecordLen <= Len(Stream) + 1
         IN  /\ s \in Services /\ k \in 1 .. Len(Stream) /\ Len(Stream) \in Nat
             /\ RecordLen \in Nat /\ RecordLen >= 4
             /\ reg[s] \in {"writing", "exited"}
             /\ \A i \in DOMAIN services : services[i].pid # s
             /\ whole => unwritten[s] = <<>>
             /\ ~whole => /\ reg[s] = "writing" /\ RecordLen > PIPE_BUF
                          /\ unwritten[s] # <<>> /\ unwritten[s] # Record(s)
                          /\ unwritten[s] =
                               SubSeq(Record(s), Len(Stream) - k + 2, RecordLen)
                          /\ Len(unwritten[s]) = k + RecordLen - 1 - Len(Stream)
<1> DEFINE s == Stream[k].from
           whole == k + RecordLen <= Len(Stream) + 1
           rest == SubSeq(Record(s), Len(Stream) - k + 2, RecordLen)
<1>1. /\ s \in Services /\ k \in 1 .. Len(Stream) /\ Len(Stream) \in Nat
      /\ Fate(k)
  <2>1. Stream \in Seq(LineType) /\ DOMAIN Stream = 1 .. Len(Stream)
          /\ Len(Stream) \in Nat
    BY StreamTyped DEF TypeInv
  <2>2. Fate(k) /\ Cut(H, Stream)
    BY DEF StreamInvFor
  <2> QED  BY <2>1, <2>2 DEF Cut
<1>2. /\ RecordLen \in Nat /\ RecordLen >= 4
      /\ Record(s) \in Seq(LineType) /\ Len(Record(s)) = RecordLen
  BY <1>1, RecordShape
<1>3. /\ reg[s] \in {"writing", "exited"}
      /\ \A i \in DOMAIN services : services[i].pid # s
      /\ whole => unwritten[s] = <<>>
      /\ ~whole =>
           reg[s] = "writing" /\ RecordLen > PIPE_BUF /\ unwritten[s] = rest
  BY <1>1 DEF Fate
<1>4. ASSUME ~whole
      PROVE  /\ Len(rest) = k + RecordLen - 1 - Len(Stream) /\ Len(rest) > 0
             /\ Len(rest) < RecordLen
  <2>1. Len(Stream) - k + 2 \in 2 .. RecordLen
    BY <1>1, <1>2, <1>4
  <2>2. \A i \in Len(Stream) - k + 2 .. RecordLen : Record(s)[i] \in LineType
    BY <1>1, <1>2, <2>1, ElementOfSeq
  <2>3. Len(rest) = RecordLen - (Len(Stream) - k + 2) + 1
    BY <1>1, <1>2, <2>1, <2>2, SubSeqProperties
  <2> QED  BY <1>1, <1>2, <2>1, <2>3
<1> HIDE DEF rest, whole, s
<1>5. ~whole => rest # <<>> /\ rest # Record(s)
  <2>1. ~whole => Len(rest) # Len(<<>>) /\ Len(rest) # Len(Record(s))
    <3> SUFFICES ASSUME ~whole
                 PROVE  Len(rest) # Len(<<>>) /\ Len(rest) # Len(Record(s))
      OBVIOUS
    <3>1. Len(rest) \in Int /\ Len(rest) > 0 /\ Len(rest) < RecordLen
      BY <1>1, <1>2, <1>4
    <3> QED  BY <1>2, <3>1
  <2> QED  BY <2>1
<1>6. ~whole => unwritten[s] # <<>> /\ unwritten[s] # Record(s)
                  /\ unwritten[s] = rest
                  /\ Len(unwritten[s]) = k + RecordLen - 1 - Len(Stream)
  BY <1>3, <1>4, <1>5
<1> QED  BY <1>1, <1>2, <1>3, <1>6 DEF rest, whole, s

(* A step of one usagi-reg that moves no line keeps the invariant if its   *)
(* own record and entries keep what is said of them.                       *)
LEMMA OthersKeep ==
  ASSUME TypeInv, NEW H, StreamInvFor(H), NEW s \in Services,
         UNCHANGED <<buf, pipe, services>>,
         \A t \in Services \ {s} : reg'[t] = reg[t] /\ unwritten'[t] = unwritten[t],
         \A k \in H : Stream[k].from = s => Fate(k)',
         Whereabouts(H, s)',
         \A i \in DOMAIN services : services[i].pid = s =>
           reg'[s] \in {"writing", "exited"} /\ unwritten'[s] = <<>>,
         Turns'
  PROVE  StreamInvFor(H)'
<1>1. Stream' = Stream /\ services' = services
  BY DEF Stream
<1>2. Cut(H, Stream)'
  BY <1>1 DEF StreamInvFor, Cut
<1>3. ASSUME NEW k \in H
      PROVE  Fate(k)'
  <2>1. CASE Stream[k].from = s
    BY <2>1
  <2>2. CASE Stream[k].from # s
    <3>1. Stream[k].from \in Services \ {s}
      BY <2>2 DEF StreamInvFor, Cut
    <3> QED  BY <1>1, <3>1 DEF StreamInvFor, Fate
  <2> QED  BY <2>1, <2>2
<1>4. ASSUME NEW t \in Services
      PROVE  Whereabouts(H, t)'
  <2>1. CASE t = s
    BY <2>1
  <2>2. CASE t # s
    BY <1>1, <2>2 DEF StreamInvFor, Whereabouts, Sent, InTable, IsEntryOf, IsFull
  <2> QED  BY <2>1, <2>2
<1>5. EntriesGood'
  BY <1>1 DEF StreamInvFor, EntriesGood, IsEntryOf
<1> QED  BY <1>2, <1>3, <1>4, <1>5 DEF StreamInvFor

(* A service that is launched, or whose usagi-reg fails before its fork    *)
(* or forks, has no record in the stream and no entry.                     *)
LEMMA BeginsKeep ==
  ASSUME Multiline = {}, TypeInv, NEW H, StreamInvFor(H), NEW s \in Services,
         ShLaunch(s) \/ RegFork(s) \/ RegFails(s)
  PROVE  StreamInvFor(H)'
<1>1. /\ reg[s] \in {"none", "started"}
      /\ UNCHANGED <<sh, buf, pipe, services, reader>>
      /\ \A t \in Services \ {s} : reg'[t] = reg[t] /\ unwritten'[t] = unwritten[t]
  BY DEF ShLaunch, RegFork, RegFails, TypeInv, TypeOK
<1>2. \A k \in H : Stream[k].from # s
  BY <1>1, HeadFacts
<1>3. \A i \in DOMAIN services : services[i].pid # s
  BY <1>1 DEF StreamInvFor, EntriesGood, IsEntryOf
<1>4. Whereabouts(H, s)'
  <2>1. CASE ShLaunch(s) \/ RegFails(s)
    BY <1>1, <2>1
       DEF ShLaunch, RegFails, TypeInv, TypeOK, StreamInvFor, Whereabouts
  <2>2. CASE RegFork(s)
    <3>1. reg'[s] = "writing" /\ unwritten'[s] = Record(s)
      BY <2>2 DEF RegFork, TypeInv, TypeOK
    <3>2. Record(s) # <<>>
      <4>1. Len(Record(s)) = RecordLen /\ RecordLen \in Nat /\ RecordLen >= 4
        BY RecordShape
      <4>2. Len(Record(s)) # Len(<<>>)
        BY <4>1
      <4> QED  BY <4>2
    <3> QED  BY <3>1, <3>2 DEF Whereabouts
  <2> QED  BY <2>1, <2>2
<1>5. Turns'
  <2>1. Stream' = Stream
    BY <1>1 DEF Stream
  <2>2. CASE ShLaunch(s)
    <3>1. /\ sh = "running" /\ ShIsFree /\ reg'[s] = "started"
      BY <2>2 DEF ShLaunch, TypeInv, TypeOK
    <3>2. ~Parallel => \A t \in Services : Busy(t)' => t = s
      BY <1>1, <3>1 DEF ShIsFree, Busy
    <3> QED  BY <1>1, <3>1, <3>2 DEF StreamInvFor, Turns
  <2>3. CASE RegFork(s) \/ RegFails(s)
    <3>1. \A t \in Services : Busy(t)' => Busy(t)
      BY <1>1, <2>3 DEF RegFork, RegFails, Busy
    <3> QED  BY <1>1, <2>1, <3>1 DEF StreamInvFor, Turns
  <2> QED  BY <2>2, <2>3
<1> QED  BY <1>1, <1>2, <1>3, <1>4, <1>5, OthersKeep

(* A usagi-reg ends: with nothing left to write, or killed before the      *)
(* kernel took any line of its record.                                     *)
LEMMA EndsKeep ==
  ASSUME Multiline = {}, WholeWrites, TypeInv, NEW H, StreamInvFor(H),
         NEW s \in Services, RegClose(s) \/ RegDies(s)
  PROVE  StreamInvFor(H)'
<1>1. /\ reg[s] = "writing"
      /\ UNCHANGED <<sh, buf, pipe, services, reader, unwritten>>
      /\ \A t \in Services \ {s} : reg'[t] = reg[t] /\ unwritten'[t] = unwritten[t]
      /\ reg' = [reg EXCEPT ![s] = IF RegClose(s) THEN "exited" ELSE "died"]
      /\ RegClose(s) => unwritten[s] = <<>>
      /\ ~RegClose(s) => unwritten[s] # <<>> /\ (MayDie \/ reader = "closed")
  BY DEF RegClose, RegDies, TypeInv, TypeOK
<1>2. reg'[s] = IF RegClose(s) THEN "exited" ELSE "died"
  BY <1>1 DEF TypeInv, TypeOK
<1>3. Stream' = Stream /\ reader # "closed"
  BY <1>1 DEF Stream, StreamInvFor, Turns, Busy
<1>4. Turns'
  <2>1. \A t \in Services : Busy(t)' => Busy(t)
    BY <1>1, <1>2 DEF Busy
  <2> QED  BY <1>1, <1>3, <2>1 DEF StreamInvFor, Turns
<1>5. CASE RegClose(s)
  <2>1. ASSUME NEW k \in H, Stream[k].from = s
        PROVE  Fate(k)'
    <3>1. k + RecordLen <= Len(Stream) + 1
      BY <1>1, <1>5, <2>1, HeadFacts
    <3> QED  BY <1>1, <1>2, <1>3, <1>5, <2>1, <3>1, HeadFacts DEF Fate
  <2>2. Whereabouts(H, s)'
    BY <1>1, <1>2, <1>3, <1>5
       DEF StreamInvFor, Whereabouts, Sent, InTable, IsEntryOf, IsFull
  <2> QED  BY <1>1, <1>2, <1>4, <1>5, <2>1, <2>2, OthersKeep
<1>6. CASE ~RegClose(s)
  <2>1. MayDie /\ RecordLen <= PIPE_BUF
    BY <1>1, <1>3, <1>6 DEF WholeWrites
  <2>2. ASSUME NEW k \in H
        PROVE  Stream[k].from # s
    <3>1. unwritten[Stream[k].from] = <<>>
      BY <2>1, HeadFacts, RegistrationAssumption
    <3> QED  BY <1>1, <1>6, <3>1
  <2>3. \A i \in DOMAIN services : services[i].pid # s
    BY <1>1, <1>6 DEF StreamInvFor, EntriesGood, IsEntryOf
  <2>4. Whereabouts(H, s)'
    BY <1>2, <1>6 DEF Whereabouts
  <2> QED  BY <1>1, <1>4, <2>2, <2>3, <2>4, OthersKeep
<1> QED  BY <1>5, <1>6

(* Steps of sh, of a job, of a service, and the reader's look at sh.       *)
LEMMA RestKeeps ==
  ASSUME TypeInv, NEW H, StreamInvFor(H),
         \/ ShJob \/ ShExit \/ JobExit \/ CheckSh \/ Quiet \/ UNCHANGED vars
         \/ \E s \in Services : ChildStep(s)
  PROVE  StreamInvFor(H)'
<1>1. UNCHANGED <<buf, pipe, services, reg, unwritten>>
  BY DEF ShJob, ShExit, JobExit, CheckSh, Quiet, ChildStep, ChildClose, ChildExec,
         vars, procs
<1>2. /\ Stream' = Stream /\ services' = services
      /\ reg' = reg /\ unwritten' = unwritten
  BY <1>1 DEF Stream
<1>3. Cut(H, Stream)' /\ \A k \in H : Fate(k)'
  BY <1>2 DEF StreamInvFor, Cut, Fate
<1>4. \A s \in Services : Whereabouts(H, s)'
  BY <1>2 DEF StreamInvFor, Whereabouts, Sent, InTable, IsEntryOf, IsFull
<1>5. EntriesGood'
  BY <1>2 DEF StreamInvFor, EntriesGood, IsEntryOf
<1>6. \A s \in Services : Busy(s)' <=> Busy(s)
  BY <1>2 DEF Busy
<1>7. Turns'
  <2>1. CASE ShExit
    <3>1. sh' = "exited" /\ reader' = reader /\ (ShIsFree \/ MayDie)
      BY <2>1 DEF ShExit
    <3>2. ~Parallel /\ ~MayDie => \A s \in Services : ~Busy(s)
      BY <3>1 DEF ShIsFree, Busy
    <3> QED  BY <1>2, <1>6, <3>1, <3>2 DEF StreamInvFor, Turns
  <2>2. CASE CheckSh
    <3>1. sh' = sh /\ reader' # "closed" /\ (reader' = "drain" => sh = "exited")
      BY <2>2 DEF CheckSh, procs
    <3> QED  BY <1>2, <1>6, <3>1 DEF StreamInvFor, Turns
  <2>3. CASE ~ShExit /\ ~CheckSh
    <3>1. sh' = sh /\ reader' = reader
      BY <2>3 DEF ShJob, JobExit, Quiet, ChildStep, ChildClose, ChildExec, vars,
                  procs
    <3> QED  BY <1>2, <1>6, <3>1 DEF StreamInvFor, Turns
  <2> QED  BY <2>1, <2>2, <2>3
<1> QED  BY <1>3, <1>4, <1>5, <1>7 DEF StreamInvFor

(* What a usagi-reg has written lies behind the stream.  If the record it  *)
(* belongs to begins at k, and all others are whole, the invariant holds.  *)
LEMMA WrittenKeeps ==
  ASSUME TypeInv, NEW H, StreamInvFor(H), NEW s \in Services, RegWrite(s),
         NEW K, NEW k \in K, H \subseteq K, K \subseteq H \cup {k},
         Cut(K, Stream)', Fate(k)', Stream'[k].from = s,
         \A i \in H : Stream'[i] = Stream[i],
         \A i \in H \ {k} : Stream[i].from # s /\ i + RecordLen <= Len(Stream) + 1,
         Len(Stream') \in Nat, Len(Stream') >= Len(Stream), Len(Stream) \in Nat,
         \A i \in H : i \in Nat, RecordLen \in Nat
  PROVE  StreamInvFor(K)'
<1>1. /\ reg' = reg /\ services' = services /\ sh' = sh /\ reader' = reader
      /\ reg[s] = "writing" /\ unwritten[s] # <<>> /\ reader # "closed"
      /\ \A t \in Services \ {s} : unwritten'[t] = unwritten[t]
  <2>1. PICK n \in 1 .. Len(unwritten[s]) :
          unwritten' = [unwritten EXCEPT ![s] = SubSeq(@, n + 1, Len(@))]
    BY WriteMoves
  <2>2. unwritten[s] # <<>>
    BY <2>1
  <2> QED  BY <2>1, <2>2 DEF RegWrite, TypeInv, TypeOK
<1>2. ASSUME NEW i \in K
      PROVE  Fate(i)'
  <2>1. CASE i = k
    BY <2>1
  <2>2. CASE i # k
    <3>1. /\ i \in H /\ Stream'[i] = Stream[i] /\ Fate(i)
          /\ i + RecordLen <= Len(Stream) + 1 /\ i + RecordLen <= Len(Stream') + 1
      BY <2>2 DEF StreamInvFor
    <3>2. Stream[i].from \in Services \ {s}
      BY <2>2, <3>1 DEF StreamInvFor, Cut
    <3> QED  BY <1>1, <3>1, <3>2 DEF Fate
  <2> QED  BY <2>1, <2>2
<1>3. ASSUME NEW t \in Services
      PROVE  Whereabouts(K, t)'
  <2>1. CASE t = s
    BY <1>1, <2>1 DEF Whereabouts, Sent
  <2>2. CASE t # s
    <3>1. Sent(H, t) => Sent(K, t)'
      BY DEF Sent
    <3>2. InTable(t)' = InTable(t) /\ IsFull(services)' = IsFull(services)
      BY <1>1 DEF InTable, IsEntryOf, IsFull
    <3> QED  BY <1>1, <2>2, <3>1, <3>2 DEF StreamInvFor, Whereabouts
  <2> QED  BY <2>1, <2>2
<1>4. EntriesGood'
  BY <1>1 DEF StreamInvFor, EntriesGood, IsEntryOf
<1>5. Turns'
  BY <1>1 DEF StreamInvFor, Turns, Busy
<1> QED  BY <1>2, <1>3, <1>4, <1>5 DEF StreamInvFor

(* What is left of the rest of a sequence is a rest of the sequence.       *)
LEMMA RestOfRest ==
  ASSUME NEW E, NEW r \in Seq(E), NEW a \in 1 .. Len(r), NEW n \in 0 .. Len(r) - a
  PROVE  SubSeq(SubSeq(r, a, Len(r)), n + 1, Len(r) - a + 1)
           = SubSeq(r, a + n, Len(r))
<1> DEFINE i == n + 1
           j == Len(r) - a + 1
           e == Len(r)
<1>1. /\ e \in 1 .. e /\ i \in 1 .. e - a + 1 /\ j \in 1 .. e - a + 1
      /\ a + i - 1 = a + n /\ a + j - 1 = e
  BY LenProperties
<1> HIDE DEF i, j
<1>2. SubSeq(SubSeq(r, a, e), i, j) = SubSeq(r, a + i - 1, a + j - 1)
  BY <1>1, SubSeqOfSubSeq
<1>3. SubSeq(SubSeq(r, a, e), i, j) = SubSeq(r, a + n, e)
  BY <1>1, <1>2
<1> QED  BY <1>3 DEF i, j

(* However much of its record a usagi-reg writes at once: it is the start  *)
(* of a record behind whole ones, or continues the last, incomplete one.   *)
LEMMA WriteKeeps ==
  ASSUME Multiline = {}, WholeWrites, TypeInv, NEW H, StreamInvFor(H),
         NEW s \in Services, RegWrite(s)
  PROVE  \E K \in SUBSET DOMAIN Stream' : StreamInvFor(K)'
<1> DEFINE u == unwritten[s]
           L == Len(Stream)
           R == RecordLen
<1>1. PICK n \in 1 .. Len(u) :
        /\ u \in Seq(LineType)
        /\ SubSeq(u, 1, n) \in Seq(LineType) /\ Len(SubSeq(u, 1, n)) = n
        /\ \A d \in 1 .. n : SubSeq(u, 1, n)[d] = u[d]
        /\ pipe' = pipe \o SubSeq(u, 1, n)
        /\ unwritten' = [unwritten EXCEPT ![s] = SubSeq(u, n + 1, Len(u))]
        /\ Len(Record(s)) <= PIPE_BUF => n = Len(u)
  BY WriteMoves
<1> DEFINE more == SubSeq(u, 1, n)
<1>2. more \in Seq(LineType) /\ Len(more) = n /\ \A d \in 1 .. n : more[d] = u[d]
  BY <1>1
<1>3. Stream \in Seq(LineType) /\ L \in Nat /\ DOMAIN Stream = 1 .. L
  BY StreamTyped DEF TypeInv
<1>4. Stream' = Stream \o more
  <2>1. buf \in Seq(LineType) /\ pipe \in Seq(LineType) /\ more \in Seq(LineType)
    BY <1>2 DEF TypeInv, TypeOK
  <2>2. buf \o (pipe \o more) = (buf \o pipe) \o more
    BY <2>1
  <2>3. buf' = buf /\ pipe' = pipe \o more
    BY <1>1 DEF RegWrite
  <2> QED  BY <2>2, <2>3 DEF Stream
<1>5. /\ n \in Nat /\ n >= 1 /\ Len(u) \in Nat /\ n <= Len(u)
      /\ unwritten'[s] = SubSeq(u, n + 1, Len(u))
      /\ reg[s] = "writing" /\ reg' = reg /\ services' = services
  <2>1. Len(u) \in Nat
    BY <1>1, LenProperties
  <2>2. unwritten'[s] = SubSeq(u, n + 1, Len(u))
    BY <1>1 DEF TypeInv, TypeOK
  <2>3. reg[s] = "writing" /\ reg' = reg /\ services' = services
    BY DEF RegWrite
  <2> QED  BY <1>1, <2>1, <2>2, <2>3
<1>6. /\ R \in Nat /\ R >= 4 /\ Record(s) \in Seq(LineType) /\ Len(Record(s)) = R
      /\ Record(s)[1] = [from |-> s, value |-> s]
  BY RecordShape
<1>7. n = Len(u) => unwritten'[s] = <<>>
  BY <1>5, SubSeqEmpty
<1>8. R <= PIPE_BUF => n = Len(u)
  BY <1>1, <1>6
<1> HIDE DEF more, u, L, R
<1>9. /\ Len(Stream') = L + n /\ DOMAIN Stream' = 1 .. L + n
      /\ \A i \in 1 .. L : Stream'[i] = Stream[i]
      /\ \A i \in L + 1 .. L + n : Stream'[i] = more[i - L]
  BY <1>2, <1>3, <1>4, Joined DEF L
<1>10. H \subseteq 1 .. L /\ Cut(H, Stream)
  BY <1>3 DEF StreamInvFor, Cut
<1>11. u # <<>>
  BY <1>5
<1>12. CASE u = Record(s)
  <2>1. \A k \in H : Stream[k].from # s
    BY <1>11, <1>12, HeadFacts DEF u
  <2>2. \A k \in H : k + R <= L + 1
    <3> SUFFICES ASSUME NEW k \in H, ~(k + R <= L + 1) PROVE FALSE
      OBVIOUS
    <3>1. /\ Stream[k].from \in Services /\ reg[Stream[k].from] = "writing"
          /\ RecordLen > PIPE_BUF
      BY HeadFacts DEF R, L
    <3>2. ~Parallel
      BY <3>1, <1>6, RegistrationAssumption DEF WholeWrites, R
    <3>3. Stream[k].from = s
      BY <1>5, <3>1, <3>2 DEF StreamInvFor, Turns, Busy
    <3> QED  BY <2>1, <3>3
  <2>3. \A i \in DOMAIN services : services[i].pid # s
    BY <1>11 DEF StreamInvFor, EntriesGood, IsEntryOf, u
  <2>4. PICK k \in Nat : k = L + 1
    BY <1>3
  <2> DEFINE K == H \cup {k}
  <2>5. Cut(K, Stream')
    <3>1. \A d \in 1 .. Len(more) : more[d] = Record(s)[d]
      BY <1>2, <1>12
    <3>2. Len(more) \in 1 .. RecordLen
      BY <1>2, <1>5, <1>6, <1>12 DEF R
    <3> QED
      BY <1>2, <1>3, <1>4, <1>10, <2>1, <2>2, <2>4, <3>1, <3>2, CutGrows DEF L, R
  <2>6. Stream'[k].from = s
    <3>1. k \in L + 1 .. L + n /\ k - L = 1 /\ 1 \in 1 .. n
      BY <1>3, <1>5, <2>4
    <3>2. Stream'[k] = more[1] /\ more[1] = u[1]
      BY <1>2, <1>9, <3>1
    <3> QED  BY <1>6, <1>12, <3>2
  <2>7. Fate(k)'
    <3>1. Len(u) = R
      BY <1>6, <1>12
    <3>2. CASE n = R
      <4>1. k + R <= Len(Stream') + 1
        BY <1>3, <1>6, <1>9, <2>4, <3>2
      <4> QED  BY <1>5, <1>7, <2>3, <2>6, <3>1, <3>2, <4>1 DEF Fate, R
    <3>3. CASE n < R
      <4>1. ~(k + R <= Len(Stream') + 1) /\ Len(Stream') - k + 2 = n + 1
        BY <1>3, <1>5, <1>6, <1>9, <2>4, <3>3
      <4>2. unwritten'[s] = SubSeq(Record(s), Len(Stream') - k + 2, R)
        BY <1>5, <1>12, <3>1, <4>1
      <4>3. R > PIPE_BUF
        BY <1>5, <1>6, <1>8, <3>1, <3>3, RegistrationAssumption
      <4> QED  BY <1>5, <2>3, <2>6, <4>1, <4>2, <4>3 DEF Fate, R
    <3> QED  BY <1>5, <1>6, <3>1, <3>2, <3>3
  <2>8. StreamInvFor(K)'
    <3>1. ASSUME NEW i \in H
          PROVE  i \in Nat /\ i # k /\ Stream'[i] = Stream[i]
      <4>1. i \in 1 .. L
        BY <1>10
      <4>2. Stream'[i] = Stream[i]
        BY <1>9, <4>1
      <4>3. i \in Nat /\ i # k
        BY <1>3, <2>4, <4>1
      <4> QED  BY <4>2, <4>3
    <3>2. /\ Len(Stream) \in Nat /\ RecordLen \in Nat
          /\ Len(Stream') \in Nat /\ Len(Stream') >= Len(Stream)
      BY <1>3, <1>5, <1>6, <1>9 DEF L, R
    <3>3. k \in K /\ H \subseteq K /\ K \subseteq H \cup {k}
      OBVIOUS
    <3>4. /\ \A i \in H : Stream'[i] = Stream[i] /\ i \in Nat
          /\ \A i \in H \ {k} : Stream[i].from # s /\ i + RecordLen <= Len(Stream) + 1
      BY <2>1, <2>2, <3>1 DEF L, R
    <3>5. Cut(K, Stream)'
      BY <2>5
    <3> HIDE DEF K
    <3> QED  BY <2>6, <2>7, <3>2, <3>3, <3>4, <3>5, WrittenKeeps
  <2>9. K \in SUBSET DOMAIN Stream'
    BY <1>3, <1>5, <1>9, <1>10, <2>4
  <2> HIDE DEF K
  <2> QED  BY <2>8, <2>9
<1>13. CASE u # Record(s)
  <2>1. PICK k \in H : Stream[k].from = s
    BY <1>5, <1>11, <1>13 DEF StreamInvFor, Whereabouts, Sent, u
  <2>2. /\ k \in 1 .. L /\ ~(k + R <= L + 1) /\ R > PIPE_BUF
        /\ u = SubSeq(Record(s), L - k + 2, R) /\ Len(u) = k + R - 1 - L
        /\ \A i \in DOMAIN services : services[i].pid # s
    BY <1>11, <2>1, HeadFacts DEF u, L, R
  <2>3. PICK a \in 1 .. R : a = L - k + 2 /\ Len(u) = R - a + 1
    <3>1. L - k + 2 \in 1 .. R /\ R - (L - k + 2) + 1 = k + R - 1 - L
      BY <1>3, <1>6, <2>2
    <3> QED  BY <2>2, <3>1
  <2>4. \A d \in 1 .. n : more[d] = Record(s)[L - k + 1 + d]
    <3> SUFFICES ASSUME NEW d \in 1 .. n
                 PROVE  more[d] = Record(s)[L - k + 1 + d]
      OBVIOUS
    <3>1. \A i \in a .. R : Record(s)[i] \in LineType
      BY <1>6, <2>3, ElementOfSeq
    <3>2. d \in 1 .. R - a + 1 /\ a + d - 1 = L - k + 1 + d
      BY <1>3, <1>5, <1>6, <2>2, <2>3
    <3>3. u[d] = Record(s)[a + d - 1]
      BY <1>6, <2>2, <2>3, <3>1, <3>2, SubSeqProperties
    <3> QED  BY <1>2, <3>2, <3>3
  <2>5. Cut(H, Stream')
    <3>1. L + Len(more) < k + R
      BY <1>2, <1>3, <1>5, <1>6, <2>2
    <3> QED  BY <1>2, <1>3, <1>4, <1>10, <2>1, <2>4, <3>1, CutContinues DEF L, R
  <2>6. \A i \in H \ {k} : Stream[i].from # s /\ i + R <= L + 1
    <3> SUFFICES ASSUME NEW i \in H \ {k}
                 PROVE  Stream[i].from # s /\ i + R <= L + 1
      OBVIOUS
    <3>1. Stream[i].from # s
      BY <1>10, <2>1 DEF Cut
    <3>2. (i < k => i + R <= k) /\ (k < i => k + R <= i) /\ i \in 1 .. L
      BY <1>10 DEF Cut, R
    <3>3. i # k
      OBVIOUS
    <3> QED  BY <1>3, <1>6, <2>2, <3>1, <3>2, <3>3
  <2>7. Stream'[k].from = s
    BY <1>9, <2>1, <2>2
  <2>8. Fate(k)'
    <3> DEFINE m == Len(u)
               N == Len(Stream')
    <3>1. /\ L \in Nat /\ R \in Nat /\ n \in Nat /\ m \in Nat /\ n <= m
          /\ k \in 1 .. L /\ m = k + R - 1 - L /\ a = L - k + 2 /\ m = R - a + 1
      BY <1>3, <1>5, <1>6, <2>2, <2>3
    <3>2. N = L + n
      BY <1>9
    <3> HIDE DEF m, N
    <3>3. CASE n = m
      <4>1. k + R <= N + 1
        BY <3>3, <3>1, <3>2
      <4> QED  BY <1>5, <1>7, <2>2, <2>7, <3>3, <4>1 DEF Fate, R, m, N
    <3>4. CASE n < m
      <4>1. n \in 0 .. R - a /\ a + n = N - k + 2
        BY <3>4, <3>1, <3>2
      <4>2. ~(k + R <= N + 1)
        BY <3>4, <3>1, <3>2
      <4>3. SubSeq(SubSeq(Record(s), a, R), n + 1, R - a + 1)
              = SubSeq(Record(s), a + n, R)
        BY <1>6, <2>3, <4>1, RestOfRest
      <4>4. unwritten'[s] = SubSeq(Record(s), N - k + 2, R)
        <5>1. u = SubSeq(Record(s), a, R) /\ Len(u) = R - a + 1
          BY <2>2, <2>3
        <5> QED  BY <1>5, <4>1, <4>3, <5>1
      <4> QED  BY <1>5, <2>2, <2>7, <4>2, <4>4 DEF Fate, R, N
    <3> QED  BY <3>3, <3>4, <3>1
  <2>9. StreamInvFor(H)'
    <3>1. /\ Len(Stream) \in Nat /\ RecordLen \in Nat
          /\ Len(Stream') \in Nat /\ Len(Stream') >= Len(Stream)
      BY <1>3, <1>5, <1>6, <1>9 DEF L, R
    <3>2. H \subseteq H \cup {k} /\ k \in H /\ H \subseteq H
      OBVIOUS
    <3>3. ASSUME NEW i \in H
          PROVE  /\ Stream'[i] = Stream[i] /\ i \in Nat
                 /\ i # k => Stream[i].from # s /\ i + RecordLen <= Len(Stream) + 1
      <4>1. i \in 1 .. L
        BY <1>10
      <4>2. Stream'[i] = Stream[i]
        BY <1>9, <4>1
      <4>3. i \in Nat
        BY <1>3, <4>1
      <4> QED  BY <2>6, <4>2, <4>3 DEF L, R
    <3>4. Cut(H, Stream)'
      BY <2>5
    <3> QED  BY <2>7, <2>8, <3>1, <3>2, <3>3, <3>4, WrittenKeeps
  <2>10. H \in SUBSET DOMAIN Stream'
    BY <1>3, <1>5, <1>9, <1>10
  <2> QED  BY <2>9, <2>10
<1> QED  BY <1>12, <1>13

(* read_registration finds a record complete exactly if all of its lines   *)
(* are in the buffer, and then finds the first record of the stream.       *)
LEMMA CompleteIsWhole ==
  ASSUME Multiline = {}, TypeInv, NEW H, StreamInvFor(H)
  PROVE  /\ IsComplete(Filled) <=> Len(Filled) >= RecordLen
         /\ IsComplete(Filled) =>
              /\ 1 \in H /\ RecordEnd(Filled) = RecordLen
              /\ Filled[1].value = Stream[1].from
              /\ Argv(Filled) = <<Text(Stream[1].from)>>
<1> DEFINE F == Filled
           n == Len(Filled)
           s == Stream[1].from
           R == RecordLen
<1>1. /\ F \in Seq(LineType) /\ n \in Nat
      /\ n <= Len(Stream) /\ Len(Stream) \in Nat
      /\ \A i \in 1 .. n : F[i] = Stream[i]
  <2>1. /\ F \in Seq(LineType) /\ Emptied \in Seq(LineType)
        /\ F \o Emptied = Stream
    BY FillMoves DEF TypeInv, Stream
  <2>2. /\ Len(Stream) = n + Len(Emptied) /\ n \in Nat /\ Len(Emptied) \in Nat
        /\ \A i \in 1 .. n : Stream[i] = F[i]
    BY <2>1, Joined
  <2> QED  BY <2>1, <2>2
<1>2. R = EnvLen + 4 /\ EnvLen \in Nat
  BY RegistrationAssumption DEF RecordLen
<1>3. ASSUME n >= 2
      PROVE  /\ 1 \in H /\ s \in Services
             /\ \A d \in 1 .. R : d <= n => F[d] = Record(s)[d]
  <2>1. DOMAIN Stream = 1 .. Len(Stream)
    BY StreamTyped DEF TypeInv
  <2>2. 1 \in DOMAIN Stream
    BY <1>1, <1>3, <2>1
  <2>3. 1 \in H /\ s \in Services
    BY <2>2 DEF StreamInvFor, Cut
  <2>4. \A k \in H, d \in 1 .. R :
          k + d - 1 \in DOMAIN Stream =>
            Stream[k + d - 1] = Record(Stream[k].from)[d]
    BY DEF StreamInvFor, Cut
  <2>5. ASSUME NEW d \in 1 .. R, d <= n
        PROVE  F[d] = Record(s)[d]
    <3>1. 1 + d - 1 = d /\ d \in 1 .. n /\ d \in DOMAIN Stream
      BY <1>1, <2>1, <2>5
    <3>2. Stream[1 + d - 1] = Record(s)[d]
      BY <2>3, <2>4, <3>1
    <3> QED  BY <1>1, <3>1, <3>2
  <2> QED  BY <2>3, <2>5
<1> HIDE DEF F, n, s, R
<1>4. ASSUME n >= 2
      PROVE  /\ F[1].value = s /\ F[2].value = 1
             /\ n >= 3 => F[3] = Text(s)
             /\ n >= 4 => F[4].value = EnvLen
  <2>1. /\ Record(s)[1] = [from |-> s, value |-> s]
        /\ Record(s)[2] = [from |-> s, value |-> 1]
        /\ Record(s)[3] = Text(s)
        /\ Record(s)[4] = [from |-> s, value |-> EnvLen]
    BY <1>3, <1>4, RecordShape
  <2>2. 1 \in 1 .. R /\ 2 \in 1 .. R /\ 3 \in 1 .. R /\ 4 \in 1 .. R
    BY <1>2
  <2>3. /\ F[1] = Record(s)[1] /\ F[2] = Record(s)[2]
        /\ n >= 3 => F[3] = Record(s)[3]
        /\ n >= 4 => F[4] = Record(s)[4]
    BY <1>1, <1>3, <1>4, <2>2
  <2> QED  BY <2>1, <2>3
<1>5. ASSUME n >= 2
      PROVE  Argc(F) = 1 /\ ~IsBad(F) /\ EnvcAt(F) = 4
  BY <1>4, <1>5 DEF Argc, IsBad, EnvcAt
<1>6. ASSUME n >= 4
      PROVE  RecordEnd(F) = R
  BY <1>1, <1>2, <1>4, <1>5, <1>6 DEF RecordEnd
<1>7. IsComplete(F) <=> n >= R
  BY <1>1, <1>2, <1>5, <1>6 DEF IsComplete, n, F
<1>8. ASSUME n >= R
      PROVE  Argv(F) = <<Text(s)>>
  <2>1. n >= 3 /\ Argc(F) = 1 /\ F[3] = Text(s)
    BY <1>1, <1>2, <1>4, <1>5, <1>8
  <2>2. Argv(F) = SubSeq(F, 3, 3)
    BY <2>1 DEF Argv
  <2>3. SubSeq(F, 3, 3) = <<F[3]>>
    <3>1. F[3] \in LineType
      BY <1>1, <2>1, ElementOfSeq DEF n, F
    <3>2. /\ SubSeq(F, 3, 3) \in Seq(LineType) /\ Len(SubSeq(F, 3, 3)) = 1
          /\ \A i \in 1 .. 3 - 3 + 1 : SubSeq(F, 3, 3)[i] = F[3 + i - 1]
      BY <3>1, SubSeqProperties
    <3>3. SubSeq(F, 3, 3)[1] = F[3]
      BY <3>2
    <3> DEFINE one == SubSeq(F, 3, 3)
    <3>4. one \in Seq(LineType) /\ Len(one) = 1 /\ one[1] = F[3]
      BY <3>2, <3>3
    <3> HIDE DEF one
    <3>5. one = <<F[3]>>
      BY <3>1, <3>4
    <3> QED  BY <3>5 DEF one
  <2> QED  BY <2>1, <2>2, <2>3
<1>9. n >= R => 1 \in H /\ F[1].value = s /\ RecordEnd(F) = R
  BY <1>1, <1>2, <1>3, <1>4, <1>6
<1> QED  BY <1>7, <1>8, <1>9 DEF F, n, s, R

(* A call of read_registration that finds no complete record leaves the    *)
(* stream as it was, and ends the drain only if nothing can follow.        *)
LEMMA WaitKeeps ==
  ASSUME Multiline = {}, Fits, WholeWrites, TypeInv, NEW H, StreamInvFor(H),
         ReadWhileShRuns \/ ReadBlocking, ~IsComplete(Filled)
  PROVE  StreamInvFor(H)' /\ Stream' = Stream
<1>1. /\ pipe' = Emptied /\ buf' = Filled /\ services' = services
      /\ reg' = reg /\ unwritten' = unwritten /\ sh' = sh
      /\ ReadWhileShRuns => reader' = "check"
      /\ ReadBlocking => reader' = "closed" /\ reader = "drain"
  BY DEF ReadWhileShRuns, ReadBlocking, ReadRegistration, procs
<1>2. Stream' = Stream
  BY <1>1, FillMoves DEF TypeInv, Stream
<1>3. Cut(H, Stream)' /\ \A k \in H : Fate(k)'
  BY <1>1, <1>2 DEF StreamInvFor, Cut, Fate
<1>4. \A s \in Services : Whereabouts(H, s)'
  BY <1>1, <1>2 DEF StreamInvFor, Whereabouts, Sent, InTable, IsEntryOf, IsFull
<1>5. EntriesGood'
  BY <1>1 DEF StreamInvFor, EntriesGood, IsEntryOf
<1>6. CASE ReadWhileShRuns
  BY <1>1, <1>2, <1>3, <1>4, <1>5, <1>6 DEF StreamInvFor, Turns, Busy
<1>7. CASE ReadBlocking
  <2>1. sh = "exited"
    BY <1>1, <1>7 DEF StreamInvFor, Turns
  <2>2. /\ Len(buf) \in Nat /\ Len(pipe) \in Nat /\ Taken \in 0 .. Len(pipe)
        /\ Len(Filled) = Len(buf) + Taken
        /\ Taken = Len(pipe) \/ Len(Filled) = BUF_CAP - 1
        /\ Len(Stream) = Len(buf) + Len(pipe) /\ DOMAIN Stream = 1 .. Len(Stream)
        /\ Stream \in Seq(LineType)
    BY FillMoves, StreamTyped DEF TypeInv
  <2>3. ~(Len(Filled) >= RecordLen) /\ RecordLen < BUF_CAP
        /\ RecordLen \in Nat /\ BUF_CAP \in Nat /\ RecordLen >= 4
    BY CompleteIsWhole, RegistrationAssumption DEF Fits, RecordLen
  <2>4. Len(Stream) < RecordLen /\ Room # 0 /\ Len(Stream) \in Nat
    BY <2>2, <2>3 DEF Room
  <2>5. Stream = <<>>
    <3> SUFFICES ASSUME Stream # <<>> PROVE FALSE
      OBVIOUS
    <3>1. Len(Stream) # 0
      BY <2>2
    <3>2. 1 \in DOMAIN Stream
      BY <2>2, <2>4, <3>1
    <3>3. 1 \in H
      BY <3>2 DEF StreamInvFor, Cut
    <3>4. ~(1 + RecordLen <= Len(Stream) + 1)
      BY <2>3, <2>4
    <3>5. /\ Stream[1].from \in Services /\ reg[Stream[1].from] = "writing"
          /\ RecordLen > PIPE_BUF
      BY <3>3, <3>4, HeadFacts
    <3>6. ~Parallel /\ ~MayDie
      BY <2>3, <3>5, RegistrationAssumption DEF WholeWrites
    <3> QED  BY <2>1, <3>5, <3>6 DEF StreamInvFor, Turns, Busy
  <2>6. pipe = <<>>
    <3>1. Len(Stream) = 0
      BY <2>5
    <3>2. Len(pipe) = 0
      BY <2>2, <3>1
    <3>3. pipe \in Seq(LineType)
      BY DEF TypeInv, TypeOK
    <3> QED  BY <3>2, <3>3
  <2>7. \A s \in Services : ~Busy(s)
    BY <1>7, <2>4, <2>6 DEF ReadBlocking, WriteEndOpen, Busy
  <2>8. Turns'
    BY <1>1, <1>2, <1>7, <2>1, <2>5, <2>7 DEF StreamInvFor, Turns, Busy
  <2> QED  BY <1>2, <1>3, <1>4, <1>5, <2>8 DEF StreamInvFor
<1> QED  BY <1>6, <1>7

(* read_registration takes the first record of the stream, and main adds   *)
(* the entry it describes, or drops it at a full table.                    *)
LEMMA TakeMoves ==
  ASSUME Multiline = {}, TypeInv, NEW H, StreamInvFor(H),
         ReadWhileShRuns \/ ReadBlocking, IsComplete(Filled)
  PROVE  LET s == Stream[1].from
         IN  /\ s \in Services /\ 1 \in H
             /\ services' = AddService(services, Arguments(s), s)
             /\ UNCHANGED <<sh, reg, unwritten, reader>> /\ reader # "closed"
             /\ Stream' \in Seq(LineType) /\ Len(Stream) >= RecordLen
             /\ Len(Stream') = Len(Stream) - RecordLen
             /\ DOMAIN Stream' = 1 .. Len(Stream')
             /\ \A i \in 1 .. Len(Stream') : Stream'[i] = Stream[i + RecordLen]
             /\ reg[s] \in {"writing", "exited"} /\ unwritten[s] = <<>>
             /\ \A i \in DOMAIN services : services[i].pid # s
<1> DEFINE R == RecordLen
           L == Len(Stream)
<1>1. /\ pipe' = Emptied /\ buf' = Behind(Filled)
      /\ services' = AddService(services, Argv(Filled), Filled[1].value)
      /\ reg' = reg /\ unwritten' = unwritten /\ sh' = sh
      /\ reader' = reader /\ reader # "closed"
  BY DEF ReadWhileShRuns, ReadBlocking, ReadRegistration, procs
<1>2. PICK s \in Services : s = Stream[1].from
  BY CompleteIsWhole, HeadFacts
<1>3. /\ 1 \in H /\ RecordEnd(Filled) = R /\ Len(Filled) >= R
      /\ services' = AddService(services, <<Text(s)>>, s)
  BY <1>1, <1>2, CompleteIsWhole
<1>4. /\ Stream \in Seq(LineType) /\ L \in Nat /\ DOMAIN Stream = 1 .. L
      /\ R \in Nat /\ R >= 4
  BY StreamTyped, RegistrationAssumption DEF TypeInv, RecordLen
<1>5. /\ Stream' \in Seq(LineType) /\ L >= R /\ Len(Stream') = L - R
      /\ \A i \in 1 .. L - R : Stream'[i] = Stream[i + R]
      /\ DOMAIN Stream' = 1 .. L - R
  <2> DEFINE F == Filled
             E == Emptied
             n == Len(Filled)
             e == Len(Emptied)
             B == Behind(Filled)
  <2>1. F \in Seq(LineType) /\ E \in Seq(LineType) /\ F \o E = Stream
    BY FillMoves DEF TypeInv, Stream
  <2> HIDE DEF E
  <2>2. /\ L = n + e /\ n \in Nat /\ e \in Nat
        /\ \A i \in 1 .. n : Stream[i] = F[i]
        /\ \A i \in n + 1 .. n + e : Stream[i] = E[i - n]
    BY <2>1, Joined DEF E
  <2>3. /\ B \in Seq(LineType) /\ Len(B) = n - R
        /\ \A i \in 1 .. n - R : B[i] = F[i + R]
    <3>1. B = SubSeq(F, R + 1, n)
      BY <1>3 DEF Behind
    <3>2. \A i \in R + 1 .. n : F[i] \in LineType
      BY <1>4, <2>1, <2>2, ElementOfSeq
    <3>3. /\ SubSeq(F, R + 1, n) \in Seq(LineType)
          /\ Len(SubSeq(F, R + 1, n)) = IF R + 1 <= n THEN n - (R + 1) + 1 ELSE 0
          /\ \A i \in 1 .. n - (R + 1) + 1 :
               SubSeq(F, R + 1, n)[i] = F[R + 1 + i - 1]
      BY <1>4, <2>2, <3>2, SubSeqProperties
    <3> HIDE DEF B, F, n
    <3>4. ASSUME NEW i \in 1 .. n - R
          PROVE  B[i] = F[i + R]
      <4>1. i \in 1 .. n - (R + 1) + 1 /\ R + 1 + i - 1 = i + R
        BY <1>4, <2>2
      <4> QED  BY <3>1, <3>3, <4>1
    <3>5. Len(B) = n - R
      BY <1>3, <1>4, <2>2, <3>1, <3>3 DEF n
    <3> QED  BY <3>1, <3>3, <3>4, <3>5
  <2>4. Stream' = B \o E
    BY <1>1 DEF Stream, E
  <2> HIDE DEF B, F, n, e
  <2>5. /\ B \o E \in Seq(LineType) /\ Len(B \o E) = Len(B) + e
        /\ DOMAIN (B \o E) = 1 .. Len(B) + e
        /\ \A i \in 1 .. Len(B) : (B \o E)[i] = B[i]
        /\ \A i \in Len(B) + 1 .. Len(B) + e : (B \o E)[i] = E[i - Len(B)]
    <3>1. B \in Seq(LineType) /\ E \in Seq(LineType)
      BY <2>1, <2>3
    <3>2. Len(E) = e
      BY DEF E, e
    <3>3. /\ B \o E \in Seq(LineType) /\ Len(B \o E) = Len(B) + Len(E)
          /\ DOMAIN (B \o E) = 1 .. Len(B) + Len(E)
          /\ \A i \in 1 .. Len(B) : (B \o E)[i] = B[i]
          /\ \A i \in Len(B) + 1 .. Len(B) + Len(E) : (B \o E)[i] = E[i - Len(B)]
      BY <3>1, Joined
    <3> QED  BY <3>2, <3>3
  <2>6. n >= R
    BY <1>3 DEF n
  <2> HIDE DEF L, R
  <2>7. ASSUME NEW i \in 1 .. L - R
        PROVE  Stream'[i] = Stream[i + R]
    <3>1. PICK j \in Nat : j = i + R
      BY <1>4
    <3>2. CASE i \in 1 .. n - R
      <4>1. j \in 1 .. n
        BY <1>4, <2>2, <2>6, <3>1, <3>2
      <4>2. Stream'[i] = F[i + R]
        BY <2>3, <2>4, <2>5, <3>2
      <4>3. Stream'[i] = F[j] /\ Stream[j] = F[j]
        BY <2>2, <3>1, <4>1, <4>2
      <4> QED  BY <3>1, <4>3
    <3>3. CASE i \in n - R + 1 .. n - R + e
      <4>1. j \in n + 1 .. n + e /\ j - n = i - (n - R)
        BY <1>4, <2>2, <2>6, <3>1, <3>3
      <4>2. Stream[j] = E[j - n]
        BY <2>2, <4>1
      <4>3. Stream'[i] = E[i - (n - R)]
        BY <2>3, <2>4, <2>5, <3>3
      <4> QED  BY <3>1, <4>1, <4>2, <4>3
    <3> QED  BY <1>4, <2>2, <2>6, <3>2, <3>3
  <2>8. L >= R /\ Len(Stream') = L - R /\ DOMAIN Stream' = 1 .. L - R
    BY <1>4, <2>2, <2>3, <2>4, <2>5, <2>6
  <2> QED  BY <2>4, <2>5, <2>7, <2>8
<1>6. /\ reg[s] \in {"writing", "exited"} /\ unwritten[s] = <<>>
      /\ \A i \in DOMAIN services : services[i].pid # s
  <2>1. 1 + R <= L + 1
    BY <1>4, <1>5
  <2> QED  BY <1>2, <1>3, <2>1, HeadFacts DEF R, L
<1>7. Arguments(s) = <<Text(s)>>
  BY RecordShape
<1> HIDE DEF R, L
<1>8. Len(Stream') = L - R /\ \A i \in 1 .. Len(Stream') : Stream'[i] = Stream[i + R]
  BY <1>5
<1> QED  BY <1>1, <1>2, <1>3, <1>5, <1>6, <1>7, <1>8 DEF R, L

(* A complete record becomes an entry, or is dropped at a full table, and  *)
(* the stream begins with the next one.                                    *)
LEMMA TakeKeeps ==
  ASSUME Multiline = {}, TypeInv, NEW H, StreamInvFor(H),
         ReadWhileShRuns \/ ReadBlocking, IsComplete(Filled)
  PROVE  \E K \in SUBSET DOMAIN Stream' : StreamInvFor(K)'
<1> DEFINE R == RecordLen
           L == Len(Stream)
<1>1. /\ reg' = reg /\ unwritten' = unwritten /\ sh' = sh
      /\ reader' = reader /\ reader # "closed"
  BY TakeMoves
<1>2. PICK s \in Services : s = Stream[1].from
  BY TakeMoves
<1>3. 1 \in H /\ services' = AddService(services, <<Text(s)>>, s)
  BY <1>2, TakeMoves, RecordShape
<1>4. /\ Stream \in Seq(LineType) /\ L \in Nat /\ DOMAIN Stream = 1 .. L
      /\ R \in Nat /\ R >= 4
  BY StreamTyped, RegistrationAssumption DEF TypeInv, RecordLen
<1>5. /\ Stream' \in Seq(LineType) /\ L >= R /\ Len(Stream') = L - R
      /\ \A i \in 1 .. L - R : Stream'[i] = Stream[i + R]
      /\ DOMAIN Stream' = 1 .. L - R
  BY TakeMoves
<1> HIDE DEF R, L
<1>6. PICK N \in Nat : N = L - R
  BY <1>4, <1>5
<1> DEFINE K == {k \in 1 .. N : k + R \in H}
<1>7. Cut(K, Stream')
  <2>1. Cut(H, Stream)
    BY DEF StreamInvFor
  <2> QED  BY <1>4, <1>5, <1>6, <2>1, CutShifts DEF L, R
<1>8. /\ reg[s] \in {"writing", "exited"} /\ unwritten[s] = <<>>
      /\ \A i \in DOMAIN services : services[i].pid # s
  BY <1>2, TakeMoves
<1>9. /\ \A i \in DOMAIN services :
           i \in DOMAIN services' /\ services'[i] = services[i]
      /\ IsFull(services) => services' = services
      /\ ~IsFull(services) =>
           /\ DOMAIN services' = DOMAIN services \cup {Len(services) + 1}
           /\ Len(services) + 1 \notin DOMAIN services
           /\ services'[Len(services) + 1].pid = s
           /\ services'[Len(services) + 1].svc = <<Text(s)>>
  <2>1. services \in Seq(TableEntry)
    BY DEF TypeInv
  <2>2. CASE IsFull(services)
    BY <1>3, <2>2 DEF AddService
  <2>3. CASE ~IsFull(services)
    <3>1. services' = Append(services, Entry(<<Text(s)>>, s))
      BY <1>3, <2>3 DEF AddService
    <3>2. Entry(<<Text(s)>>, s).pid = s /\ Entry(<<Text(s)>>, s).svc = <<Text(s)>>
      BY DEF Entry
    <3> QED  BY <2>1, <2>3, <3>1, <3>2
  <2> QED  BY <2>2, <2>3
<1>10. Arguments(s) = <<Text(s)>>
  BY RecordShape
<1>11. EntriesGood'
  <2>1. ASSUME NEW i \in DOMAIN services
        PROVE  \E t \in Services :
                 /\ IsEntryOf(services[i], t)
                 /\ reg[t] \in {"writing", "exited"} /\ unwritten[t] = <<>>
    BY DEF StreamInvFor, EntriesGood
  <2>2. \A i, j \in DOMAIN services : services[i].pid = services[j].pid => i = j
    BY DEF StreamInvFor, EntriesGood
  <2>3. CASE IsFull(services)
    BY <1>1, <1>9, <2>1, <2>2, <2>3 DEF EntriesGood, IsEntryOf
  <2>4. CASE ~IsFull(services)
    <3> DEFINE last == Len(services) + 1
    <3>1. /\ DOMAIN services' = DOMAIN services \cup {last}
          /\ services'[last].pid = s /\ services'[last].svc = Arguments(s)
      BY <1>9, <1>10, <2>4
    <3> HIDE DEF last
    <3>2. \A i \in DOMAIN services' : \E t \in Services :
            /\ IsEntryOf(services'[i], t)
            /\ reg'[t] \in {"writing", "exited"} /\ unwritten'[t] = <<>>
      BY <1>1, <1>8, <1>9, <2>1, <3>1 DEF IsEntryOf
    <3>3. \A i, j \in DOMAIN services' :
            services'[i].pid = services'[j].pid => i = j
      BY <1>8, <1>9, <2>2, <3>1
    <3> QED  BY <3>2, <3>3 DEF EntriesGood, IsEntryOf
  <2> QED  BY <2>3, <2>4
<1>12. \A i \in DOMAIN services' : i \in DOMAIN services \/ services'[i].pid = s
  BY <1>9
<1>13. ASSUME NEW k \in K
       PROVE  Fate(k)'
  <2>1. PICK j \in H : j = k + R
    OBVIOUS
  <2>2. k \in 1 .. N /\ Stream'[k] = Stream[j]
    BY <1>5, <1>6, <2>1
  <2>3. Fate(j)
    BY DEF StreamInvFor
  <2>4. Stream[j].from # s
    <3>1. j # 1
      BY <1>4, <2>1, <2>2
    <3> QED  BY <1>2, <1>3, <3>1 DEF StreamInvFor, Cut
  <2>5. \A i \in DOMAIN services' : services'[i].pid # Stream[j].from
    BY <1>9, <1>12, <2>3, <2>4 DEF Fate
  <2>6. /\ k + R <= Len(Stream') + 1 <=> j + R <= Len(Stream) + 1
        /\ Len(Stream') - k + 2 = Len(Stream) - j + 2
    <3>1. /\ Len(Stream') = N /\ Len(Stream) = L /\ N = L - R /\ L \in Nat
          /\ R \in Nat /\ k \in Nat /\ j = k + R
      BY <1>4, <1>5, <1>6, <2>1, <2>2 DEF L
    <3> QED  BY <3>1
  <2>7. Fate(k)' <=>
          LET t == Stream'[k].from
          IN  /\ \A i \in DOMAIN services' : services'[i].pid # t
              /\ IF k + R <= Len(Stream') + 1
                 THEN reg'[t] \in {"writing", "exited"} /\ unwritten'[t] = <<>>
                 ELSE /\ reg'[t] = "writing" /\ R > PIPE_BUF
                      /\ unwritten'[t] =
                           SubSeq(Record(t), Len(Stream') - k + 2, R)
    BY DEF Fate, R
  <2> QED  BY <1>1, <2>2, <2>3, <2>5, <2>6, <2>7 DEF Fate, R
<1>14. ASSUME NEW t \in Services
       PROVE  Whereabouts(K, t)'
  <2>1. Whereabouts(H, t)
    BY DEF StreamInvFor
  <2>2. IsFull(services) => IsFull(services)'
    BY <1>9 DEF IsFull
  <2>3. InTable(t) => InTable(t)'
    BY <1>9 DEF InTable, IsEntryOf
  <2>4. ~IsFull(services) => InTable(s)'
    BY <1>9, <1>10 DEF InTable, IsEntryOf
  <2>5. ASSUME Sent(H, t), t # s
        PROVE  Sent(K, t)'
    <3>1. PICK j \in H : Stream[j].from = t
      BY <2>5 DEF Sent
    <3>2. j \in 1 .. L /\ j # 1 /\ (1 < j => 1 + R <= j)
      BY <1>2, <1>3, <1>4, <2>5, <3>1 DEF StreamInvFor, Cut, R
    <3>3. PICK k \in 1 .. N : k + R = j
      <4>1. j - R \in 1 .. N /\ (j - R) + R = j
        BY <1>4, <1>5, <1>6, <3>2
      <4> QED  BY <4>1
    <3>4. k \in K /\ Stream'[k] = Stream[j]
      BY <1>5, <1>6, <3>3
    <3> QED  BY <3>1, <3>4 DEF Sent
  <2>6. CASE t = s
    BY <1>1, <1>8, <2>1, <2>2, <2>4, <2>6 DEF Whereabouts
  <2>7. CASE t # s
    BY <1>1, <2>1, <2>2, <2>3, <2>5, <2>7 DEF Whereabouts
  <2> QED  BY <2>6, <2>7
<1>15. Turns'
  BY <1>1 DEF StreamInvFor, Turns, Busy
<1>16. K \in SUBSET DOMAIN Stream'
  BY <1>5, <1>6
<1> HIDE DEF K
<1>17. StreamInvFor(K)'
  BY <1>7, <1>11, <1>13, <1>14, <1>15 DEF StreamInvFor
<1> QED  BY <1>16, <1>17

(* Every step of every process keeps the stream a sequence of records.     *)
LEMMA StreamStep ==
  ASSUME Multiline = {}, Fits, WholeWrites
  PROVE  StreamInv /\ [Next]_vars => StreamInv'
<1> SUFFICES ASSUME StreamInv, [Next]_vars PROVE StreamInv'
  OBVIOUS
<1>1. TypeInv /\ TypeInv'
  BY TypeStep DEF StreamInv
<1>2. PICK H \in SUBSET DOMAIN Stream : StreamInvFor(H)
  BY DEF StreamInv
<1>3. ASSUME StreamInvFor(H)', Stream' = Stream
      PROVE  StreamInv'
  BY <1>1, <1>3 DEF StreamInv
<1>4. ASSUME \E K \in SUBSET DOMAIN Stream' : StreamInvFor(K)'
      PROVE  StreamInv'
  BY <1>1, <1>4 DEF StreamInv
<1>5. CASE ReadWhileShRuns \/ ReadBlocking
  <2>1. CASE IsComplete(Filled)
    BY <1>1, <1>2, <1>4, <1>5, <2>1, TakeKeeps
  <2>2. CASE ~IsComplete(Filled)
    BY <1>1, <1>2, <1>3, <1>5, <2>2, WaitKeeps
  <2> QED  BY <2>1, <2>2
<1>6. CASE \/ ShJob \/ ShExit \/ JobExit \/ CheckSh \/ Quiet \/ UNCHANGED vars
           \/ \E s \in Services : ChildStep(s)
  <2>1. Stream' = Stream
    BY <1>6 DEF ShJob, ShExit, JobExit, CheckSh, Quiet, ChildStep, ChildClose,
                ChildExec, vars, Stream
  <2> QED  BY <1>1, <1>2, <1>3, <1>6, <2>1, RestKeeps
<1>7. ASSUME NEW s \in Services, ShLaunch(s) \/ RegFork(s) \/ RegFails(s)
      PROVE  StreamInv'
  <2>1. Stream' = Stream
    BY <1>7 DEF ShLaunch, RegFork, RegFails, Stream
  <2> QED  BY <1>1, <1>2, <1>3, <1>7, <2>1, BeginsKeep
<1>8. ASSUME NEW s \in Services, RegClose(s) \/ RegDies(s)
      PROVE  StreamInv'
  <2>1. Stream' = Stream
    BY <1>8 DEF RegClose, RegDies, Stream
  <2> QED  BY <1>1, <1>2, <1>3, <1>8, <2>1, EndsKeep
<1>9. ASSUME NEW s \in Services, RegWrite(s)
      PROVE  StreamInv'
  BY <1>1, <1>2, <1>4, <1>9, WriteKeeps
<1> QED  BY <1>5, <1>6, <1>7, <1>8, <1>9 DEF Next, Reader, RegStep

(* At any pace of the writers and the reader, wherever reads and writes    *)
(* cut the stream: main adds no entry but those of launched services, each *)
(* with its pid and its command, and none twice.                           *)
THEOREM NoPhantomEntryAlways ==
  ASSUME Multiline = {}, Fits, WholeWrites
  PROVE  Spec => []NoPhantomEntry
<1>1. StreamInv => NoPhantomEntry
  <2> SUFFICES ASSUME EntriesGood PROVE NoPhantomEntry
    BY DEF StreamInv, StreamInvFor
  <2> QED  BY DEF EntriesGood, NoPhantomEntry
<1> QED  BY StreamInit, StreamStep, <1>1, PTL DEF Spec

(* When main leaves its drain loop nothing is in flight: every usagi-reg   *)
(* has ended, and each that was not killed has its service in the table    *)
(* unless the table is full.                                               *)
THEOREM NobodyMissedAlways ==
  ASSUME Multiline = {}, Fits, WholeWrites
  PROVE  Spec => []NobodyMissed
<1>1. StreamInv => NobodyMissed
  <2> SUFFICES ASSUME StreamInv, reader = "closed", NEW s \in Services,
                      reg[s] \notin {"none", "died"}
               PROVE  InTable(s) \/ IsFull(services)
    BY DEF NobodyMissed
  <2>1. PICK H \in SUBSET DOMAIN Stream : StreamInvFor(H)
    BY DEF StreamInv
  <2>2. Stream = <<>> /\ ~Busy(s) /\ Whereabouts(H, s)
    BY <2>1 DEF StreamInvFor, Turns
  <2>3. reg[s] = "exited"
    BY <2>2 DEF StreamInv, TypeInv, TypeOK, Busy
  <2>4. ~Sent(H, s)
    BY <2>1, <2>2 DEF Sent
  <2> QED  BY <2>2, <2>3, <2>4 DEF Whereabouts
<1> QED  BY StreamInit, StreamStep, <1>1, PTL DEF Spec

-----------------------------------------------------------------------------
(* A service exists only once its usagi-reg has forked it, and runs only   *)
(* once that has ended in the regular way.                                 *)
ChildAfterReg ==
  \A s \in Services :
    /\ reg[s] # "died"
    /\ child[s] # "none" => reg[s] \notin {"none", "started"}
    /\ child[s] = "running" => reg[s] = "exited"

(* The sync pipe keeps a service from its exec until its whole record is   *)
(* in the registration pipe, if no usagi-reg is killed or fails: one that  *)
(* does closes the sync pipe as well.                                      *)
THEOREM ExecAfterRecordAlways ==
  ASSUME Multiline = {}, Fits, WholeWrites, ~MayDie
  PROVE  Spec => []ExecAfterRecord
<1> DEFINE Inv == StreamInv /\ ChildAfterReg
<1>1. Init => Inv
  BY StreamInit DEF Init, ChildAfterReg
<1>2. Inv /\ [Next]_vars => Inv'
  <2> SUFFICES ASSUME StreamInv, ChildAfterReg, [Next]_vars PROVE Inv'
    OBVIOUS
  <2>1. TypeOK /\ Turns /\ StreamInv'
    BY StreamStep DEF StreamInv, TypeInv, StreamInvFor
  <2>2. ASSUME NEW s \in Services, RegStep(s) \/ ShLaunch(s) \/ ChildStep(s)
        PROVE  ChildAfterReg'
    <3>1. ~RegFails(s)
      BY DEF RegFails
    <3>2. ~RegDies(s)
      BY <2>1 DEF RegDies, Turns, Busy
    <3>3. CASE RegFork(s) \/ RegWrite(s) \/ RegClose(s) \/ ShLaunch(s)
      BY <2>1, <3>3
         DEF RegFork, RegWrite, RegClose, ShLaunch, ChildAfterReg, TypeOK
    <3>4. CASE ChildClose(s) \/ ChildExec(s)
      BY <2>1, <3>4 DEF ChildClose, ChildExec, SyncPipeOpen, ChildAfterReg, TypeOK
    <3> QED  BY <2>2, <3>1, <3>2, <3>3, <3>4 DEF RegStep, ChildStep
  <2>3. CASE Reader \/ ShJob \/ ShExit \/ JobExit \/ Quiet \/ UNCHANGED vars
    <3>1. reg' = reg /\ child' = child
      BY <2>3 DEF Reader, ReadWhileShRuns, ReadBlocking, ReadRegistration, CheckSh,
                  ShJob, ShExit, JobExit, Quiet, vars, procs
    <3> QED  BY <2>1, <3>1 DEF ChildAfterReg
  <2> QED  BY <2>1, <2>2, <2>3 DEF Next
<1>3. Inv => ExecAfterRecord
  BY DEF StreamInv, StreamInvFor, Whereabouts, ChildAfterReg, ExecAfterRecord
<1> QED  BY <1>1, <1>2, <1>3, PTL DEF Spec

-----------------------------------------------------------------------------
(* The refinement.  Every line of the stream belongs to one of its         *)
(* records.                                                                *)
LEMMA Covered ==
  ASSUME NEW st \in Seq(LineType), NEW H, Cut(H, st), NEW i \in DOMAIN st
  PROVE  \E k \in H : k <= i /\ i < k + RecordLen
<1>1. /\ RecordLen \in Nat /\ RecordLen >= 4 /\ Len(st) \in Nat
      /\ DOMAIN st = 1 .. Len(st) /\ i \in 1 .. Len(st)
  BY RegistrationAssumption DEF RecordLen
<1>2. /\ H \subseteq 1 .. Len(st) /\ 1 \in H
      /\ \A k \in H : k + RecordLen \in 1 .. Len(st) => k + RecordLen \in H
  BY <1>1 DEF Cut
<1> DEFINE T == {j \in 1 .. i : i + 1 - j \in H}
<1>3. i \in T /\ i \in Nat /\ T \in SUBSET (1 .. i)
  BY <1>1, <1>2
<1> HIDE DEF T
<1>4. PICK j \in T : \A m \in T : j <= m
  BY <1>3, LeastIndex
<1>5. i + 1 - j \in H /\ j \in 1 .. i
  BY DEF T
<1>6. ASSUME i >= i + 1 - j + RecordLen
      PROVE  FALSE
  <2>1. i + 1 - j + RecordLen \in H
    BY <1>1, <1>2, <1>5, <1>6
  <2>2. j - RecordLen \in 1 .. i /\ i + 1 - (j - RecordLen) = i + 1 - j + RecordLen
    BY <1>1, <1>5, <1>6
  <2>3. j - RecordLen \in T
    BY <2>1, <2>2 DEF T
  <2> QED  BY <1>1, <1>4, <1>5, <2>3
<1>7. i + 1 - j <= i /\ i < i + 1 - j + RecordLen
  BY <1>1, <1>5, <1>6
<1> QED  BY <1>5, <1>7

(* Every line of a record tells its writer.                                *)
LEMMA OwnLines ==
  ASSUME Multiline = {}, NEW s \in Services, NEW d \in 1 .. RecordLen
  PROVE  Record(s)[d].from = s
<1>1. EnvLen \in Nat /\ Arguments(s) = <<Text(s)>>
  BY RegistrationAssumption, RecordShape
<1> DEFINE env == [i \in 1 .. EnvLen |-> Text(s)]
           head == <<Line(s, s), Line(s, 1), Text(s), Line(s, EnvLen)>>
<1>2. Record(s) = head \o env
  BY <1>1 DEF Record
<1>3. d \in 1 .. 4 + EnvLen
  BY <1>1 DEF RecordLen
<1>4. CASE d \in 1 .. 4
  <2>1. Record(s)[d] = head[d]
    BY <1>1, <1>2, <1>4
  <2> QED  BY <1>4, <2>1 DEF Line, Text
<1>5. CASE d \in 5 .. 4 + EnvLen
  <2>1. Record(s)[d] = env[d - 4]
    BY <1>1, <1>2, <1>5
  <2>2. d - 4 \in 1 .. EnvLen
    BY <1>1, <1>5
  <2> QED  BY <2>1, <2>2 DEF Line, Text
<1> QED  BY <1>1, <1>3, <1>4, <1>5

(* A line is that of the writer in whose record it stands.                 *)
LEMMA OwnRecord ==
  ASSUME Multiline = {}, TypeInv, NEW H, StreamInvFor(H), NEW i \in DOMAIN Stream
  PROVE  \E k \in H :
           k <= i /\ i < k + RecordLen /\ Stream[k].from = Stream[i].from
<1>1. Cut(H, Stream)
  BY DEF StreamInvFor
<1>2. /\ Stream \in Seq(LineType) /\ DOMAIN Stream = 1 .. Len(Stream)
      /\ Len(Stream) \in Nat /\ RecordLen \in Nat
  BY StreamTyped, RegistrationAssumption DEF TypeInv, RecordLen
<1>3. PICK k \in H : k <= i /\ i < k + RecordLen
  BY <1>1, <1>2, Covered
<1>4. PICK d \in 1 .. RecordLen : k + d - 1 = i
  <2>1. k \in Nat /\ i \in Nat
    BY <1>1, <1>2 DEF Cut
  <2>2. i - k + 1 \in 1 .. RecordLen /\ k + (i - k + 1) - 1 = i
    BY <1>2, <1>3, <2>1
  <2> QED  BY <2>2
<1>5. Stream[k].from \in Services /\ Stream[i] = Record(Stream[k].from)[d]
  BY <1>1, <1>4 DEF Cut
<1>6. Stream[i].from = Stream[k].from
  BY <1>5, OwnLines
<1> QED  BY <1>3, <1>6

(* The lines of two parts of the stream are those of the whole.            *)
LEMMA FromEither ==
  ASSUME NEW a \in Seq(LineType), NEW b \in Seq(LineType), NEW s
  PROVE  From(a \o b, s) <=> From(a, s) \/ From(b, s)
<1> DEFINE n == Len(a)
           m == Len(b)
           ab == a \o b
<1>1. /\ n \in Nat /\ m \in Nat
      /\ DOMAIN a = 1 .. n /\ DOMAIN b = 1 .. m /\ DOMAIN ab = 1 .. n + m
      /\ \A i \in 1 .. n : ab[i] = a[i]
      /\ \A i \in n + 1 .. n + m : ab[i] = b[i - n]
  BY Joined
<1> HIDE DEF n, m, ab
<1>2. From(a, s) => From(ab, s)
  BY <1>1 DEF From
<1>3. ASSUME NEW i \in 1 .. m, b[i].from = s
      PROVE  From(ab, s)
  <2>1. i + n \in n + 1 .. n + m /\ i + n \in 1 .. n + m /\ (i + n) - n = i
    BY <1>1
  <2>2. ab[i + n] = b[i]
    BY <1>1, <2>1
  <2> QED  BY <1>1, <1>3, <2>1, <2>2 DEF From
<1>4. ASSUME NEW i \in 1 .. n + m, ab[i].from = s
      PROVE  From(a, s) \/ From(b, s)
  <2>1. CASE i \in 1 .. n
    BY <1>1, <1>4, <2>1 DEF From
  <2>2. CASE i \in n + 1 .. n + m
    <3>1. i - n \in 1 .. m
      BY <1>1, <2>2
    <3> QED  BY <1>1, <1>4, <2>2, <3>1 DEF From
  <2> QED  BY <1>1, <2>1, <2>2
<1> QED  BY <1>1, <1>2, <1>3, <1>4 DEF From, ab

-----------------------------------------------------------------------------
(* What the refinement mapping makes of the processes and of the history.  *)
StateBar == [s \in Services |-> IF IsRead(s) THEN "running" ELSE "free"]
CommandBar == [s \in Services |-> IF IsRead(s) THEN Arguments(s) ELSE <<>>]
StartsBar ==
  [a \in {Arguments(s) : s \in Services} |->
     IF \E s \in Services : Arguments(s) = a /\ IsRead(s) THEN 1 ELSE 0]

(* A step that adds no entry, reads no line and leaves no loop of main for *)
(* run_guardian is none of Guardian's.                                     *)
LEMMA NoneIsRead ==
  ASSUME services' = services, reader = "closed" <=> reader' = "closed",
         \A s \in Services : IsRead(s)' <=> IsRead(s)
  PROVE  UNCHANGED G!vars
<1>1. StateBar' = StateBar /\ CommandBar' = CommandBar
  BY DEF StateBar, CommandBar, Arguments, Text, Line
<1>2. StartsBar' = StartsBar
  BY DEF StartsBar, Arguments, Text, Line
<1> QED
  BY <1>1, <1>2
     DEF G!vars, G!kernel, G!history, StateBar, CommandBar, StartsBar

(* A step that makes one service's record read, and adds its entry, is     *)
(* Guardian's Register for that service.                                   *)
LEMMA OneIsRead ==
  ASSUME Multiline = {}, NEW s \in Services,
         services' = AddService(services, Arguments(s), s),
         reader' = reader, reader # "closed", ~IsRead(s), IsRead(s)',
         \A t \in Services \ {s} : IsRead(t)' <=> IsRead(t),
         \A i \in DOMAIN services : services[i].pid # s
  PROVE  G!Register(Arguments(s), s)
<1>1. ASSUME NEW t \in Services, Arguments(t) = Arguments(s)
      PROVE  t = s
  <2>1. Arguments(t)[1] = Text(t) /\ Arguments(s)[1] = Text(s)
    BY DEF Arguments
  <2>2. Text(t) = Text(s)
    BY <1>1, <2>1
  <2> QED  BY <2>2 DEF Text, Line
<1>2. /\ StateBar[s] = "free" /\ StateBar' = [StateBar EXCEPT ![s] = "running"]
      /\ CommandBar' = [CommandBar EXCEPT ![s] = Arguments(s)]
  BY DEF StateBar, CommandBar, Arguments, Text, Line
<1>3. /\ StartsBar[Arguments(s)] = 0
      /\ StartsBar' = [StartsBar EXCEPT ![Arguments(s)] = 1]
  BY <1>1 DEF StartsBar
<1>4. G!IsFree(s)
  BY <1>2 DEF G!IsFree, G!NamedPids, StateBar
<1>5. G!Spawn(s, Arguments(s))
  BY <1>2, <1>4 DEF G!Spawn, StateBar, CommandBar
<1>6. G!Launch(Arguments(s), s)
  BY <1>3, <1>5 DEF G!Launch, StartsBar
<1> QED
  BY <1>6 DEF G!Register, G!AddService, G!IsFull, G!Entry, AddService, IsFull, Entry

-----------------------------------------------------------------------------
(* What a usagi-reg has still to write are lines of its own record.        *)
LEMMA UnwrittenIsOwn ==
  ASSUME Multiline = {}, TypeInv, NEW H, StreamInvFor(H), NEW s \in Services,
         reg[s] = "writing", NEW d \in 1 .. Len(unwritten[s])
  PROVE  unwritten[s][d].from = s
<1> DEFINE u == unwritten[s]
           L == Len(Stream)
           R == RecordLen
<1>1. /\ Record(s) \in Seq(LineType) /\ Len(Record(s)) = R /\ R \in Nat
      /\ u \in Seq(LineType) /\ Len(u) \in Nat /\ u # <<>>
  <2>1. u \in Seq(LineType) /\ Len(u) \in Nat
    BY DEF TypeInv, TypeOK
  <2>2. u # <<>>
    BY <2>1
  <2>3. /\ Record(s) \in Seq(LineType) /\ Len(Record(s)) = RecordLen
        /\ RecordLen \in Nat
    BY RecordShape
  <2> QED  BY <2>1, <2>2, <2>3
<1>2. CASE u = Record(s)
  BY <1>1, <1>2, OwnLines
<1>3. CASE Sent(H, s)
  <2>1. PICK k \in H : Stream[k].from = s
    BY <1>3 DEF Sent
  <2>2. /\ k \in 1 .. L /\ L \in Nat /\ ~(k + R <= L + 1)
        /\ u = SubSeq(Record(s), L - k + 2, R)
        /\ Len(u) = k + R - 1 - L
    BY <1>1, <2>1, HeadFacts
  <2> DEFINE a == L - k + 2
  <2>3. /\ a \in 1 .. R /\ a + d - 1 \in 1 .. R /\ d \in 1 .. R - a + 1
    BY <1>1, <2>2
  <2>4. u[d] = Record(s)[a + d - 1]
    <3> HIDE DEF u, a, L, R
    <3>1. \A i \in a .. R : Record(s)[i] \in LineType
      BY <1>1, <2>3, ElementOfSeq
    <3>2. \A i \in 1 .. R - a + 1 : SubSeq(Record(s), a, R)[i] = Record(s)[a + i - 1]
      BY <1>1, <2>3, <3>1, SubSeqProperties
    <3> QED  BY <2>2, <2>3, <3>2 DEF a
  <2> QED  BY <2>3, <2>4, OwnLines
<1> QED  BY <1>1, <1>2, <1>3 DEF StreamInvFor, Whereabouts

(* Writing is none of Guardian's steps: the writer has read on neither     *)
(* side of it, and no other service gets a line.                           *)
LEMMA WriteIsQuiet ==
  ASSUME Multiline = {}, TypeInv, NEW H, StreamInvFor(H), NEW s \in Services,
         RegWrite(s)
  PROVE  UNCHANGED G!vars
<1> DEFINE u == unwritten[s]
<1>1. PICK n \in 1 .. Len(u) :
        /\ u \in Seq(LineType)
        /\ SubSeq(u, 1, n) \in Seq(LineType) /\ Len(SubSeq(u, 1, n)) = n
        /\ \A d \in 1 .. n : SubSeq(u, 1, n)[d] = u[d]
        /\ pipe' = pipe \o SubSeq(u, 1, n)
        /\ unwritten' = [unwritten EXCEPT ![s] = SubSeq(u, n + 1, Len(u))]
  BY WriteMoves
<1>2. /\ reg[s] = "writing" /\ u # <<>> /\ reg' = reg /\ buf' = buf
      /\ services' = services /\ reader' = reader
      /\ \A t \in Services \ {s} : unwritten'[t] = unwritten[t]
  BY <1>1 DEF RegWrite, TypeInv, TypeOK
<1> DEFINE more == SubSeq(u, 1, n)
<1>3. \A d \in 1 .. n : more[d].from = s
  BY <1>1, <1>2, UnwrittenIsOwn
<1>4. more \in Seq(LineType) /\ DOMAIN more = 1 .. n /\ 1 \in 1 .. n
  BY <1>1
<1> HIDE DEF more
<1>5. \A t \in Services : From(more, t) <=> t = s
  BY <1>3, <1>4 DEF From
<1>6. pipe \in Seq(LineType)
  BY DEF TypeInv, TypeOK
<1>7. \A t \in Services : From(pipe', t) <=> From(pipe, t) \/ t = s
  BY <1>1, <1>4, <1>5, <1>6, FromEither DEF more
<1>8. ~IsRead(s) /\ ~IsRead(s)'
  BY <1>2, <1>7 DEF IsRead, From
<1>9. \A t \in Services \ {s} : IsRead(t)' <=> IsRead(t)
  BY <1>2, <1>7 DEF IsRead, From
<1> QED  BY <1>2, <1>8, <1>9, NoneIsRead

(* Taking a record from the stream is Register for its writer, which has   *)
(* no line in the stream any more; the other writers keep theirs.          *)
LEMMA TakeRegisters ==
  ASSUME Multiline = {}, TypeInv, NEW H, StreamInvFor(H), TypeInv',
         ReadWhileShRuns \/ ReadBlocking, IsComplete(Filled)
  PROVE  \E s \in Services : G!Register(Arguments(s), s)
<1> DEFINE L == Len(Stream)
           R == RecordLen
<1>1. PICK s \in Services : s = Stream[1].from
  BY TakeMoves
<1>2. /\ 1 \in H
      /\ services' = AddService(services, Arguments(s), s)
      /\ UNCHANGED <<reg, unwritten, reader>> /\ reader # "closed"
      /\ Len(Stream') = L - R /\ L >= R /\ DOMAIN Stream' = 1 .. L - R
      /\ \A i \in 1 .. L - R : Stream'[i] = Stream[i + R]
      /\ reg[s] \in {"writing", "exited"} /\ unwritten[s] = <<>>
      /\ \A i \in DOMAIN services : services[i].pid # s
  BY <1>1, TakeMoves
<1>3. L \in Nat /\ DOMAIN Stream = 1 .. L /\ R \in Nat /\ R >= 4
  BY StreamTyped, RegistrationAssumption DEF TypeInv, RecordLen
<1>4. Cut(H, Stream)
  BY DEF StreamInvFor
<1>5. \A i \in 1 .. R : Stream[i].from = s
  <2> SUFFICES ASSUME NEW i \in 1 .. R PROVE Stream[i].from = s
    OBVIOUS
  <2>1. i \in DOMAIN Stream /\ 1 + i - 1 = i
    BY <1>2, <1>3
  <2>2. Stream[1 + i - 1] = Record(s)[i]
    BY <1>1, <1>2, <1>4, <2>1 DEF Cut
  <2> QED  BY <1>1, <2>1, <2>2, OwnLines
<1>6. \A i \in R + 1 .. L : Stream[i].from # s
  <2> SUFFICES ASSUME NEW i \in R + 1 .. L, Stream[i].from = s PROVE FALSE
    OBVIOUS
  <2>1. i \in DOMAIN Stream
    BY <1>3
  <2>2. PICK k \in H : i < k + R /\ Stream[k].from = s
    BY <2>1, OwnRecord
  <2>3. k = 1
    BY <1>1, <1>2, <1>4, <2>2 DEF Cut
  <2> QED  BY <1>3, <2>2, <2>3
<1> HIDE DEF L, R
<1>7. From(Stream, s) /\ ~From(Stream', s)
  <2>1. 1 \in 1 .. R /\ 1 \in 1 .. L
    BY <1>2, <1>3
  <2>2. \A i \in 1 .. L - R : i + R \in R + 1 .. L
    BY <1>2, <1>3
  <2> QED  BY <1>2, <1>3, <1>5, <1>6, <2>1, <2>2 DEF From
<1>8. ASSUME NEW t \in Services \ {s}
      PROVE  From(Stream', t) <=> From(Stream, t)
  <2>1. ASSUME NEW i \in 1 .. L, Stream[i].from = t
        PROVE  From(Stream', t)
    <3>1. i \notin 1 .. R
      BY <1>5, <2>1
    <3>2. i - R \in 1 .. L - R /\ (i - R) + R = i
      BY <1>2, <1>3, <3>1
    <3>3. Stream'[i - R] = Stream[i]
      BY <1>2, <3>2
    <3> QED  BY <1>2, <2>1, <3>2, <3>3 DEF From
  <2>2. ASSUME NEW i \in 1 .. L - R, Stream'[i].from = t
        PROVE  From(Stream, t)
    <3>1. i + R \in 1 .. L /\ Stream'[i] = Stream[i + R]
      BY <1>2, <1>3
    <3> QED  BY <1>3, <2>2, <3>1 DEF From
  <2> QED  BY <1>2, <1>3, <2>1, <2>2 DEF From
<1>9. /\ \A t \in Services : From(Stream, t) <=> From(buf, t) \/ From(pipe, t)
      /\ \A t \in Services : From(Stream', t) <=> From(buf', t) \/ From(pipe', t)
  <2>1. /\ buf \in Seq(LineType) /\ pipe \in Seq(LineType)
        /\ buf' \in Seq(LineType) /\ pipe' \in Seq(LineType)
    BY DEF TypeInv, TypeOK
  <2> QED  BY <2>1, FromEither DEF Stream
<1>10. ~IsRead(s) /\ IsRead(s)'
  BY <1>2, <1>7, <1>9 DEF IsRead
<1>11. \A t \in Services \ {s} : IsRead(t)' <=> IsRead(t)
  BY <1>2, <1>8, <1>9 DEF IsRead
<1> QED  BY <1>2, <1>10, <1>11, OneIsRead

-----------------------------------------------------------------------------
(* Every step is a Register, the end of the shell phase, or none of        *)
(* Guardian's.                                                             *)
LEMMA StepRegisters ==
  ASSUME Multiline = {}, Fits, WholeWrites, StreamInv, TypeInv', [Next]_vars
  PROVE  [(\E s \in Services : G!Register(Arguments(s), s)) \/ G!EndShell]_(G!vars)
<1>1. TypeInv
  BY DEF StreamInv
<1>2. PICK H \in SUBSET DOMAIN Stream : StreamInvFor(H)
  BY DEF StreamInv
<1>3. CASE \/ ShJob \/ ShExit \/ JobExit \/ CheckSh \/ Quiet \/ UNCHANGED vars
           \/ \E s \in Services : ChildStep(s)
  <2>1. /\ services' = services /\ reg' = reg /\ unwritten' = unwritten
        /\ pipe' = pipe /\ buf' = buf /\ (reader = "closed" <=> reader' = "closed")
    BY <1>3 DEF ShJob, ShExit, JobExit, CheckSh, Quiet, ChildStep, ChildClose,
                ChildExec, vars, procs
  <2>2. \A s \in Services : IsRead(s)' <=> IsRead(s)
    BY <2>1 DEF IsRead, From
  <2> QED  BY <2>1, <2>2, NoneIsRead
<1>4. ASSUME NEW s \in Services,
             ShLaunch(s) \/ RegFork(s) \/ RegFails(s) \/ RegClose(s) \/ RegDies(s)
      PROVE  UNCHANGED G!vars
  <2>1. /\ services' = services /\ pipe' = pipe /\ buf' = buf /\ reader' = reader
        /\ \A t \in Services \ {s} : reg'[t] = reg[t] /\ unwritten'[t] = unwritten[t]
    BY <1>1, <1>4 DEF ShLaunch, RegFork, RegFails, RegClose, RegDies, TypeInv, TypeOK
  <2>2. \A t \in Services \ {s} : IsRead(t)' <=> IsRead(t)
    BY <2>1 DEF IsRead, From
  <2>3. IsRead(s)' <=> IsRead(s)
    <3>1. CASE ShLaunch(s) \/ RegFails(s)
      BY <1>1, <3>1 DEF ShLaunch, RegFails, IsRead, TypeInv, TypeOK
    <3>2. CASE RegFork(s)
      <4>1. Record(s) # <<>>
        <5>1. Len(Record(s)) = RecordLen /\ RecordLen \in Nat /\ RecordLen >= 4
          BY RecordShape
        <5> QED  BY <5>1
      <4>2. unwritten'[s] = Record(s) /\ reg[s] = "started"
        BY <1>1, <3>2 DEF RegFork, TypeInv, TypeOK
      <4> QED  BY <4>1, <4>2 DEF IsRead
    <3>3. CASE RegClose(s)
      <4>1. /\ reg[s] = "writing" /\ reg'[s] = "exited"
            /\ unwritten'[s] = unwritten[s]
        BY <1>1, <3>3 DEF RegClose, TypeInv, TypeOK
      <4> QED  BY <2>1, <4>1 DEF IsRead, From
    <3>4. CASE RegDies(s)
      <4>1. unwritten[s] # <<>> /\ unwritten'[s] = unwritten[s]
        BY <3>4 DEF RegDies
      <4> QED  BY <4>1 DEF IsRead
    <3> QED  BY <1>4, <3>1, <3>2, <3>3, <3>4
  <2> QED  BY <2>1, <2>2, <2>3, NoneIsRead
<1>5. ASSUME NEW s \in Services, RegWrite(s)
      PROVE  UNCHANGED G!vars
  BY <1>1, <1>2, <1>5, WriteIsQuiet
<1>6. CASE (ReadWhileShRuns \/ ReadBlocking) /\ IsComplete(Filled)
  BY <1>1, <1>2, <1>6, TakeRegisters
<1>7. CASE (ReadWhileShRuns \/ ReadBlocking) /\ ~IsComplete(Filled)
  <2>1. Stream' = Stream
    BY <1>1, <1>2, <1>7, WaitKeeps
  <2>2. services' = services /\ reg' = reg /\ unwritten' = unwritten
    BY <1>7 DEF ReadWhileShRuns, ReadBlocking, ReadRegistration, procs
  <2>3. \A t \in Services :
          From(buf', t) \/ From(pipe', t) <=> From(buf, t) \/ From(pipe, t)
    <3>1. /\ buf \in Seq(LineType) /\ pipe \in Seq(LineType)
          /\ buf' \in Seq(LineType) /\ pipe' \in Seq(LineType)
      BY <1>1 DEF TypeInv, TypeOK
    <3>2. buf' \o pipe' = buf \o pipe
      BY <2>1 DEF Stream
    <3> QED  BY <3>1, <3>2, FromEither
  <2>4. \A t \in Services : IsRead(t)' <=> IsRead(t)
    BY <2>2, <2>3 DEF IsRead, From
  <2>5. CASE ReadWhileShRuns
    <3>1. reader # "closed" /\ reader' # "closed"
      BY <1>7, <2>5 DEF ReadWhileShRuns, ReadRegistration
    <3> QED  BY <2>2, <2>4, <3>1, NoneIsRead
  <2>6. CASE ReadBlocking
    <3>1. reader = "drain" /\ reader' = "closed"
      BY <1>7, <2>6 DEF ReadBlocking, ReadRegistration
    <3>2. StateBar' = StateBar /\ CommandBar' = CommandBar
      BY <2>4 DEF StateBar, CommandBar, Arguments, Text, Line
    <3>3. StartsBar' = StartsBar
      BY <2>4 DEF StartsBar, Arguments, Text, Line
    <3>4. G!EndShell
      BY <2>2, <3>1, <3>2, <3>3
         DEF G!EndShell, G!kernel, G!history, StateBar, CommandBar, StartsBar
    <3> QED  BY <3>4
  <2> QED  BY <1>7, <2>5, <2>6
<1> QED  BY <1>3, <1>4, <1>5, <1>6, <1>7 DEF Next, Reader, RegStep

(* Guardian may treat a background line as one step: however sh, the       *)
(* usagi-regs and the reads of main interleave, what the service table     *)
(* sees of the shell phase is one Register after the other, each for a     *)
(* service that had none, and then its end.                                *)
THEOREM RegisterImplemented ==
  ASSUME Multiline = {}, Fits, WholeWrites
  PROVE  Spec => ImplementsRegister
<1>1. StreamInv /\ StreamInv' /\ [Next]_vars =>
        [(\E s \in Services : G!Register(Arguments(s), s)) \/ G!EndShell]_(G!vars)
  BY StepRegisters DEF StreamInv
<1> QED
  BY StreamInit, StreamStep, <1>1, PTL DEF Spec, ImplementsRegister
=============================================================================
