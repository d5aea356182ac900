-------------------------- MODULE LaunchContextProofs --------------------------
(***************************************************************************)
(* What a service is started with and restarted with, for every script,    *)
(* every line, all directories and programs, and any number of lines,      *)
(* commands and re-initialisations.                                        *)
(*                                                                         *)
(* handle_redirection and sh's expansion are folds over the words of a     *)
(* line.  What they return is found by induction along the line.           *)
(***************************************************************************)
EXTENDS LaunchContext, SequenceTheorems, WellFoundedInduction, TLAPS

-----------------------------------------------------------------------------
(* A set of numbers has a least one.                                       *)
LEMMA Least ==
  ASSUME NEW S, S \subseteq Nat, S # {}
  PROVE  \E m \in S : \A k \in S : m <= k
<1>1. PICK m \in S : \A k \in S : ~(<<k, m>> \in OpToRel(<, Nat))
  BY WFMin, NatLessThanWellFounded
<1>2. ASSUME NEW k \in S
      PROVE  m <= k
  <2> DEFINE p == <<k, m>>
  <2>1. p \in Nat \X Nat
    OBVIOUS
  <2>2. ~(p[1] < p[2])
    BY <1>1, <2>1 DEF OpToRel
  <2> QED  BY <2>2
<1> QED  BY <1>2

(* Induction: a set of numbers that is closed under successor has them     *)
(* all, since the least one outside it would have a predecessor.           *)
LEMMA Closed ==
  ASSUME NEW T, 0 \in T, \A m \in Nat : m \in T => m + 1 \in T
  PROVE  Nat \subseteq T
<1>1. SUFFICES ASSUME Nat \ T # {} PROVE FALSE
  OBVIOUS
<1>2. PICK m \in Nat \ T : \A k \in Nat \ T : m <= k
  BY <1>1, Least
<1>3. m # 0 /\ m - 1 \in Nat /\ ~(m <= m - 1)
  OBVIOUS
<1>4. m - 1 \in T
  BY <1>2, <1>3
<1> QED  BY <1>3, <1>4

(* The greatest of a set of indices with n in it.                          *)
LEMMA Greatest ==
  ASSUME NEW n \in Nat, NEW s \in SUBSET (1 .. n), n \in s
  PROVE  Max(s) = n
<1>1. \A x \in s : (\A y \in s : x >= y) => x = n
  OBVIOUS
<1>2. \A y \in s : n >= y
  OBVIOUS
<1> QED  BY <1>1, <1>2 DEF Max

(* A set of such indices that is not empty has a greatest one.             *)
LEMMA MaxIn ==
  ASSUME NEW n \in Nat, NEW s \in SUBSET (1 .. n), s # {}
  PROVE  Max(s) \in s
<1> DEFINE T == {m \in Nat : \A t \in SUBSET (1 .. m) : t # {} => Max(t) \in t}
<1>1. 0 \in T
  BY 1 .. 0 = {}
<1>2. ASSUME NEW m \in Nat, m \in T
      PROVE  m + 1 \in T
  <2> SUFFICES ASSUME NEW t \in SUBSET (1 .. m + 1), t # {}
               PROVE  Max(t) \in t
    OBVIOUS
  <2>1. CASE m + 1 \in t
    BY <2>1, Greatest
  <2>2. CASE m + 1 \notin t
    <3>1. t \in SUBSET (1 .. m)
      BY <2>2
    <3> QED  BY <1>2, <3>1
  <2> QED  BY <2>1, <2>2
<1>3. n \in T
  <2> HIDE DEF T
  <2> QED  BY <1>1, <1>2, Closed
<1> QED  BY <1>3

(* A fold over n indices is a function of the set of indices.              *)
Folds(n, base, h, g) ==
  \A s \in SUBSET (1 .. n) :
    g[s] = IF s = {} THEN base ELSE h[<<g[s \ {Max(s)}], Max(s)>>]

(* There is one, its results being in R, if h stays there.                 *)
LEMMA FoldExists ==
  ASSUME NEW N \in Nat, NEW R, NEW base \in R, NEW h \in [R \X (1 .. N) -> R]
  PROVE  \E g \in [SUBSET (1 .. N) -> R] : Folds(N, base, h, g)
<1> DEFINE Good(n) == \E g \in [SUBSET (1 .. n) -> R] : Folds(n, base, h, g)
           T == {n \in Nat : n <= N => Good(n)}
<1> HIDE DEF Good
<1>1. 0 \in T
  <2> DEFINE g == [s \in SUBSET (1 .. 0) |-> base]
  <2>1. 1 .. 0 = {}
    OBVIOUS
  <2>2. g \in [SUBSET (1 .. 0) -> R] /\ Folds(0, base, h, g)
    BY <2>1 DEF Folds
  <2>3. Good(0)
    BY <2>2 DEF Good
  <2> QED  BY <2>3
<1>2. ASSUME NEW m \in Nat, m \in T
      PROVE  m + 1 \in T
  <2> SUFFICES ASSUME m + 1 <= N PROVE Good(m + 1)
    OBVIOUS
  <2>1. PICK f \in [SUBSET (1 .. m) -> R] : Folds(m, base, h, f)
    <3>1. Good(m)
      BY <1>2
    <3> QED  BY <3>1 DEF Good
  <2> DEFINE n == m + 1
             g == [s \in SUBSET (1 .. n) |->
                     IF n \in s THEN h[<<f[s \ {n}], n>>] ELSE f[s]]
  <2>2. \A s \in SUBSET (1 .. n) : s \ {n} \in SUBSET (1 .. m)
    OBVIOUS
  <2>3. g \in [SUBSET (1 .. n) -> R]
    <3>1. ASSUME NEW s \in SUBSET (1 .. n)
          PROVE  g[s] \in R
      <4>1. CASE n \in s
        <5>1. f[s \ {n}] \in R /\ n \in 1 .. N
          BY <2>2
        <5> QED  BY <4>1, <5>1
      <4>2. CASE n \notin s
        <5>1. s \in SUBSET (1 .. m)
          BY <2>2, <4>2
        <5> QED  BY <4>2, <5>1
      <4> QED  BY <4>1, <4>2
    <3> QED  BY <3>1
  <2>4. ASSUME NEW s \in SUBSET (1 .. n)
        PROVE  g[s] = IF s = {} THEN base ELSE h[<<g[s \ {Max(s)}], Max(s)>>]
    <3>1. CASE n \in s
      <4>1. Max(s) = n
        BY <3>1, Greatest
      <4>2. g[s \ {n}] = f[s \ {n}]
        BY <2>2
      <4> QED  BY <3>1, <4>1, <4>2
    <3>2. CASE n \notin s
      <4>1. s \in SUBSET (1 .. m)
        BY <2>2, <3>2
      <4>2. f[s] = IF s = {} THEN base ELSE h[<<f[s \ {Max(s)}], Max(s)>>]
        BY <2>1, <4>1 DEF Folds
      <4>3. s \ {Max(s)} \in SUBSET (1 .. n) /\ n \notin s \ {Max(s)}
        BY <3>2
      <4>4. g[s] = f[s] /\ g[s \ {Max(s)}] = f[s \ {Max(s)}]
        BY <3>2, <4>3
      <4> QED  BY <4>2, <4>4
    <3> QED  BY <3>1, <3>2
  <2>5. Folds(n, base, h, g)
    BY <2>4 DEF Folds
  <2> HIDE DEF g
  <2> QED  BY <2>3, <2>5 DEF Good
<1>3. N \in T
  <2> HIDE DEF T
  <2> QED  BY <1>1, <1>2, Closed
<1>4. Good(N)
  BY <1>3
<1> QED  BY <1>4 DEF Good

(* The prefixes of a sequence lose their last index one by one.            *)
LEMMA InitialSegments ==
  ASSUME NEW N \in Nat
  PROVE  /\ 1 .. 0 = {} /\ \A n \in 0 .. N : 1 .. n \in SUBSET (1 .. N)
         /\ \A n \in 1 .. N : /\ 1 .. n # {} /\ Max(1 .. n) = n
                              /\ (1 .. n) \ {n} = 1 .. n - 1
<1>1. ASSUME NEW n \in 1 .. N
      PROVE  Max(1 .. n) = n
  <2>1. 1 .. n \in SUBSET (1 .. n) /\ n \in 1 .. n
    OBVIOUS
  <2> QED  BY <2>1, Greatest
<1>2. ASSUME NEW n \in 1 .. N
      PROVE  (1 .. n) \ {n} = 1 .. n - 1
  OBVIOUS
<1>3. 1 .. 0 = {} /\ \A n \in 1 .. N : n \in 1 .. n
  OBVIOUS
<1>4. \A n \in 0 .. N : 1 .. n \in SUBSET (1 .. N)
  OBVIOUS
<1> QED  BY <1>1, <1>2, <1>3, <1>4

-----------------------------------------------------------------------------
(* The state of handle_redirection between two words, and a whole reading. *)
StreamNames == {"in", "out", "err"}
Files == [dir : Dirs, op : Operators, name : STRING, absolute : BOOLEAN]
Readings ==
  [op : Operators, args : Seq(Words),
   streams : [StreamNames -> Files \cup {Parents}]]
Start == [op |-> None, args |-> <<>>, streams |-> Inherited]
Reads(args, cwd, F) ==
  /\ F \in [0 .. Len(args) -> Readings]
  /\ F[0] = Start
  /\ \A n \in 1 .. Len(args) : F[n] = Take(F[n - 1], args[n], cwd)
  /\ F[Len(args)] = handle_redirection(args, cwd)

(* The four things that it does with a word.                               *)
Opens(r, w, cwd, t) ==
  /\ r.op # None /\ t.op = None /\ t.args = r.args
  /\ t.streams = [r.streams EXCEPT ![Stream(r.op)] = File(w, cwd)]
Awaits(r, w, t) ==
  /\ r.op = None /\ TakesFile(w)
  /\ t.op = w.op /\ t.args = r.args /\ t.streams = r.streams
Errs(r, w, cwd, t) ==
  /\ r.op = None /\ IsOperator(w) /\ ~TakesFile(w)
  /\ t.op = None /\ t.args = r.args
  /\ t.streams = [r.streams EXCEPT !["err"] = ErrTarget(r, w, cwd)]
Passes(r, w, t) ==
  /\ r.op = None /\ ~IsOperator(w)
  /\ t.op = None /\ t.args = Append(r.args, w) /\ t.streams = r.streams

(* A file is one, however it is named.                                     *)
LEMMA FileTyped ==
  ASSUME NEW w \in Words, NEW cwd \in Dirs
  PROVE  File(w, cwd) \in Files
BY DEF File, Files, Words

(* It does one of them, and its state stays what it was.                   *)
LEMMA TakeCases ==
  ASSUME NEW r \in Readings, NEW w \in Words, NEW cwd \in Dirs,
         NEW t, t = Take(r, w, cwd)
  PROVE  /\ t \in Readings
         /\ File(w, cwd) \in Files /\ ErrTarget(r, w, cwd) \in Files \cup {Parents}
         /\ \/ Opens(r, w, cwd, t) \/ Awaits(r, w, t)
            \/ Errs(r, w, cwd, t) \/ Passes(r, w, t)
<1>1. /\ r.op \in Operators /\ r.args \in Seq(Words)
      /\ r.streams \in [StreamNames -> Files \cup {Parents}]
      /\ r = [op |-> r.op, args |-> r.args, streams |-> r.streams]
  BY DEF Readings
<1>2. File(w, cwd) \in Files
  BY FileTyped
<1>3. ErrTarget(r, w, cwd) \in Files \cup {Parents}
  <2>1. [w EXCEPT !.op = None] \in Words
    BY DEF Words, Operators
  <2>2. File([w EXCEPT !.op = None], cwd) \in Files
    BY <2>1, FileTyped
  <2>3. r.streams["out"] \in Files \cup {Parents}
    BY <1>1 DEF StreamNames
  <2> QED  BY <2>2, <2>3 DEF ErrTarget
<1>4. Stream(r.op) \in StreamNames /\ "err" \in StreamNames /\ None \in Operators
  BY DEF Stream, StreamNames, Operators
<1>5. CASE r.op # None
  <2>1. t = [r EXCEPT !.op = None, !.streams[Stream(r.op)] = File(w, cwd)]
    BY <1>5 DEF Take
  <2>2. t = [op |-> None, args |-> r.args,
             streams |-> [r.streams EXCEPT ![Stream(r.op)] = File(w, cwd)]]
    BY <1>1, <2>1
  <2>3. t \in Readings
    BY <1>1, <1>2, <1>4, <2>2 DEF Readings
  <2> QED  BY <1>2, <1>3, <1>5, <2>2, <2>3 DEF Opens
<1>6. CASE r.op = None /\ TakesFile(w)
  <2>1. t = [op |-> w.op, args |-> r.args, streams |-> r.streams]
    BY <1>1, <1>6 DEF Take
  <2>2. w.op \in Operators
    BY DEF Words
  <2>3. t \in Readings
    BY <1>1, <2>1, <2>2 DEF Readings
  <2> QED  BY <1>2, <1>3, <1>6, <2>1, <2>3 DEF Awaits
<1>7. CASE r.op = None /\ IsOperator(w) /\ ~TakesFile(w)
  <2>1. t = [r EXCEPT !.streams["err"] = ErrTarget(r, w, cwd)]
    BY <1>7 DEF Take
  <2>2. t = [op |-> None, args |-> r.args,
             streams |-> [r.streams EXCEPT !["err"] = ErrTarget(r, w, cwd)]]
    BY <1>1, <1>7, <2>1
  <2>3. t \in Readings
    BY <1>1, <1>3, <1>4, <2>2 DEF Readings
  <2> QED  BY <1>2, <1>3, <1>7, <2>2, <2>3 DEF Errs
<1>8. CASE r.op = None /\ ~IsOperator(w)
  <2>1. ~TakesFile(w)
    BY <1>8 DEF TakesFile
  <2>2. t = [op |-> None, args |-> Append(r.args, w), streams |-> r.streams]
    BY <1>1, <1>8, <2>1 DEF Take
  <2>3. Append(r.args, w) \in Seq(Words)
    BY <1>1, AppendProperties
  <2>4. t \in Readings
    BY <1>1, <1>4, <2>2, <2>3 DEF Readings
  <2> QED  BY <1>2, <1>3, <1>8, <2>2, <2>4 DEF Passes
<1> QED  BY <1>5, <1>6, <1>7, <1>8

(* handle_redirection goes through the words one after the other.          *)
LEMMA WordByWord ==
  ASSUME NEW args \in Seq(Words), NEW cwd \in Dirs
  PROVE  \E F : Reads(args, cwd, F)
<1> DEFINE N == Len(args)
           h == [x \in Readings \X (1 .. N) |-> Take(x[1], args[x[2]], cwd)]
<1>1. N \in Nat /\ DOMAIN args = 1 .. N /\ \A n \in 1 .. N : args[n] \in Words
  OBVIOUS
<1>2. Start \in Readings
  BY DEF Start, Readings, Inherited, StreamNames, Operators
<1>3. ASSUME NEW r \in Readings, NEW n \in 1 .. N
      PROVE  h[<<r, n>>] = Take(r, args[n], cwd) /\ h[<<r, n>>] \in Readings
  BY <1>1, TakeCases
<1>4. h \in [Readings \X (1 .. N) -> Readings]
  BY <1>3
<1> HIDE DEF h, N
<1>5. PICK g0 \in [SUBSET (1 .. N) -> Readings] : Folds(N, Start, h, g0)
  BY <1>1, <1>2, <1>4, FoldExists
<1> DEFINE Step(g) ==
             [s \in SUBSET (1 .. N) |->
                IF s = {} THEN Start
                ELSE Take(g[s \ {Max(s)}], args[Max(s)], cwd)]
           iter == CHOOSE g : g = Step(g)
<1>6. handle_redirection(args, cwd) = iter[1 .. N]
  BY <1>1 DEF handle_redirection, FoldLeft, MapThenFoldSet, Start, Inherited
<1>7. ASSUME NEW s \in SUBSET (1 .. N), s # {}
      PROVE  Max(s) \in s
  BY <1>1, <1>7, MaxIn
<1>8. g0 = Step(g0)
  <2>1. ASSUME NEW s \in SUBSET (1 .. N), s # {}
        PROVE  g0[s] = Take(g0[s \ {Max(s)}], args[Max(s)], cwd)
    <3>1. Max(s) \in 1 .. N /\ s \ {Max(s)} \in SUBSET (1 .. N)
      BY <1>7, <2>1
    <3>2. g0[s \ {Max(s)}] \in Readings
      BY <1>5, <3>1
    <3> QED  BY <1>3, <1>5, <2>1, <3>1, <3>2 DEF Folds
  <2>2. g0[{}] = Start
    BY <1>5 DEF Folds
  <2> QED  BY <1>5, <2>1, <2>2
<1>9. iter = Step(iter)
  BY <1>8
<1> HIDE DEF iter
<1> DEFINE F == [n \in 0 .. N |-> iter[1 .. n]]
<1>10. F[0] = Start /\ \A n \in 1 .. N : F[n] = Take(F[n - 1], args[n], cwd)
  <2>1. F[0] = Start
    BY <1>1, <1>9, InitialSegments
  <2>2. ASSUME NEW n \in 1 .. N
        PROVE  F[n] = Take(F[n - 1], args[n], cwd)
    <3>1. /\ 1 .. n \in SUBSET (1 .. N) /\ 1 .. n # {} /\ Max(1 .. n) = n
          /\ (1 .. n) \ {n} = 1 .. n - 1 /\ n \in 0 .. N /\ n - 1 \in 0 .. N
      BY <1>1, InitialSegments
    <3> QED  BY <1>9, <3>1
  <2> QED  BY <2>1, <2>2
<1>11. \A n \in 0 .. N : F[n] \in Readings
  <2> DEFINE T == {n \in Nat : n <= N => F[n] \in Readings}
  <2> HIDE DEF F
  <2>1. 0 \in T
    BY <1>2, <1>10
  <2>2. ASSUME NEW n \in Nat, n \in T
        PROVE  n + 1 \in T
    <3> SUFFICES ASSUME n + 1 <= N PROVE F[n + 1] \in Readings
      OBVIOUS
    <3>1. /\ F[n + 1] = Take(F[n], args[n + 1], cwd)
          /\ F[n] \in Readings /\ args[n + 1] \in Words
      BY <1>1, <1>10, <2>2
    <3> QED  BY <3>1, TakeCases
  <2> HIDE DEF T
  <2>3. Nat \subseteq T
    BY <2>1, <2>2, Closed
  <2> QED  BY <1>1, <2>3 DEF T
<1>12. F[N] = handle_redirection(args, cwd) /\ F = [n \in 0 .. N |-> F[n]]
  BY <1>1, <1>6
<1> HIDE DEF F
<1>13. F \in [0 .. N -> Readings]
  BY <1>11, <1>12
<1> QED  BY <1>10, <1>12, <1>13 DEF Reads, N

(* Words that are no operators pass as they are.                           *)
LEMMA PlainReading ==
  ASSUME NEW args \in Seq(Words), NEW cwd \in Dirs,
         \A k \in DOMAIN args : ~IsOperator(args[k])
  PROVE  LET r == handle_redirection(args, cwd)
         IN  r.op = None /\ r.args = args /\ r.streams = Inherited
<1>1. PICK F : Reads(args, cwd, F)
  BY WordByWord
<1> DEFINE N == Len(args)
           Plain(n) == /\ F[n].op = None /\ F[n].streams = Inherited
                       /\ F[n].args = SubSeq(args, 1, n)
           T == {n \in Nat : n <= N => Plain(n)}
<1>2. N \in Nat /\ DOMAIN args = 1 .. N /\ \A n \in 1 .. N : args[n] \in Words
  OBVIOUS
<1>3. 0 \in T
  <2>1. F[0] = Start /\ SubSeq(args, 1, 0) = <<>>
    BY <1>1 DEF Reads
  <2>2. Plain(0)
    BY <2>1 DEF Start
  <2> HIDE DEF Plain
  <2> QED  BY <2>2
<1>4. ASSUME NEW n \in Nat, n \in T
      PROVE  n + 1 \in T
  <2> SUFFICES ASSUME n + 1 <= N PROVE Plain(n + 1)
    OBVIOUS
  <2>1. /\ F[n] \in Readings /\ F[n].op = None /\ F[n].streams = Inherited
        /\ F[n].args = SubSeq(args, 1, n)
        /\ F[n + 1] = Take(F[n], args[n + 1], cwd)
        /\ args[n + 1] \in Words /\ ~IsOperator(args[n + 1])
    BY <1>1, <1>2, <1>4 DEF Reads
  <2>2. Passes(F[n], args[n + 1], F[n + 1])
    BY <2>1, TakeCases DEF Opens, Awaits, Errs, TakesFile
  <2>3. Append(SubSeq(args, 1, n), args[n + 1]) = SubSeq(args, 1, n + 1)
    BY <1>2
  <2> QED  BY <2>1, <2>2, <2>3 DEF Passes
<1> HIDE DEF T
<1>5. N \in T
  BY <1>2, <1>3, <1>4, Closed
<1>6. Plain(N)
  BY <1>2, <1>5 DEF T
<1>7. SubSeq(args, 1, N) = args
  BY <1>2
<1> QED  BY <1>1, <1>6, <1>7 DEF Reads

(* Two lines that differ in the path of the program only are read alike,   *)
(* but for relative file names in different directories.                   *)
SameStream(x, y, same) == same \/ x = Parents \/ x.absolute => x = y
Alike(r, q, v, w, same) ==
  /\ r.op = q.op
  /\ \E rest \in Seq(Words) : r.args = <<v>> \o rest /\ q.args = <<w>> \o rest
  /\ \A st \in StreamNames : SameStream(r.streams[st], q.streams[st], same)

(* One word keeps two readings alike.                                      *)
LEMMA AlikeTake ==
  ASSUME NEW r \in Readings, NEW q \in Readings, NEW c \in Dirs, NEW d \in Dirs,
         NEW v \in Words, NEW w \in Words, NEW u \in Words,
         Alike(r, q, v, w, c = d)
  PROVE  Alike(Take(r, u, c), Take(q, u, d), v, w, c = d)
<1> DEFINE rt == Take(r, u, c)
           qt == Take(q, u, d)
<1>1. PICK rest \in Seq(Words) : r.args = <<v>> \o rest /\ q.args = <<w>> \o rest
  BY DEF Alike
<1>2. /\ rt \in Readings /\ qt \in Readings
      /\ Opens(r, u, c, rt) \/ Awaits(r, u, rt) \/ Errs(r, u, c, rt) \/ Passes(r, u, rt)
      /\ Opens(q, u, d, qt) \/ Awaits(q, u, qt) \/ Errs(q, u, d, qt) \/ Passes(q, u, qt)
  BY TakeCases
<1>3. /\ r.streams \in [StreamNames -> Files \cup {Parents}]
      /\ q.streams \in [StreamNames -> Files \cup {Parents}]
      /\ r.op = q.op
      /\ \A st \in StreamNames : SameStream(r.streams[st], q.streams[st], c = d)
  BY DEF Readings, Alike
<1> HIDE DEF rt, qt
<1>4. ASSUME NEW x \in Words
      PROVE  SameStream(File(x, c), File(x, d), c = d)
  <2>1. File(x, c) # Parents
    <3>1. "dir" \in DOMAIN File(x, c)
      BY DEF File
    <3>2. DOMAIN Parents = {}
      BY DEF Parents
    <3> QED  BY <3>1, <3>2
  <2> QED  BY <2>1 DEF SameStream, File
<1>5. CASE Opens(r, u, c, rt)
  <2>1. Opens(q, u, d, qt)
    BY <1>2, <1>3, <1>5 DEF Opens, Awaits, Errs, Passes
  <2>2. \A st \in StreamNames : SameStream(rt.streams[st], qt.streams[st], c = d)
    BY <1>3, <1>4, <1>5, <2>1 DEF Opens
  <2> QED  BY <1>1, <1>5, <2>1, <2>2 DEF Opens, Alike, rt, qt
<1>6. CASE Awaits(r, u, rt)
  <2>1. Awaits(q, u, qt)
    BY <1>2, <1>3, <1>6 DEF Opens, Awaits, Errs, Passes, TakesFile
  <2> QED  BY <1>1, <1>3, <1>6, <2>1 DEF Awaits, Alike, rt, qt
<1>7. CASE Errs(r, u, c, rt)
  <2>1. Errs(q, u, d, qt)
    BY <1>2, <1>3, <1>7 DEF Opens, Awaits, Errs, Passes
  <2>2. SameStream(ErrTarget(r, u, c), ErrTarget(q, u, d), c = d)
    <3>1. [u EXCEPT !.op = None] \in Words
      BY DEF Words, Operators
    <3> QED  BY <1>3, <1>4, <3>1 DEF ErrTarget, StreamNames
  <2>3. \A st \in StreamNames : SameStream(rt.streams[st], qt.streams[st], c = d)
    BY <1>3, <1>7, <2>1, <2>2 DEF Errs
  <2> QED  BY <1>1, <1>7, <2>1, <2>3 DEF Errs, Alike, rt, qt
<1>8. CASE Passes(r, u, rt)
  <2>1. Passes(q, u, qt)
    BY <1>2, <1>3, <1>8 DEF Opens, Awaits, Errs, Passes, TakesFile
  <2>2. /\ Append(rest, u) \in Seq(Words)
        /\ Append(<<v>> \o rest, u) = <<v>> \o Append(rest, u)
        /\ Append(<<w>> \o rest, u) = <<w>> \o Append(rest, u)
    OBVIOUS
  <2> QED  BY <1>1, <1>3, <1>8, <2>1, <2>2 DEF Passes, Alike, rt, qt
<1> QED  BY <1>2, <1>5, <1>6, <1>7, <1>8

(* Induction along the line, from its first word, which is the program.    *)
LEMMA ReadAlike ==
  ASSUME NEW a \in Seq(Words), NEW b \in Seq(Words), NEW c \in Dirs, NEW d \in Dirs,
         a # <<>>, Len(a) = Len(b), \A k \in 2 .. Len(a) : a[k] = b[k],
         ~IsOperator(a[1]), ~IsOperator(b[1])
  PROVE  LET r == handle_redirection(a, c)
             q == handle_redirection(b, d)
         IN  /\ r \in Readings /\ q \in Readings
             /\ Alike(r, q, a[1], b[1], c = d)
<1>1. PICK F : Reads(a, c, F)
  BY WordByWord
<1>2. PICK G : Reads(b, d, G)
  BY WordByWord
<1> DEFINE N == Len(a)
           Like(n) == Alike(F[n], G[n], a[1], b[1], c = d)
           T == {n \in Nat : n \in 1 .. N => Like(n)}
<1>3. /\ N \in Nat /\ N # 0 /\ Len(b) = N
      /\ \A n \in 1 .. N : a[n] \in Words /\ b[n] \in Words
  OBVIOUS
<1>4. /\ \A n \in 0 .. N : F[n] \in Readings /\ G[n] \in Readings
      /\ \A n \in 1 .. N : /\ F[n] = Take(F[n - 1], a[n], c)
                           /\ G[n] = Take(G[n - 1], b[n], d)
      /\ F[0] = Start /\ G[0] = Start
  BY <1>1, <1>2, <1>3 DEF Reads
<1> HIDE DEF Like, N
<1>5. Like(1)
  <2>1. F[1] = Take(Start, a[1], c) /\ G[1] = Take(Start, b[1], d) /\ Start \in Readings
    BY <1>3, <1>4
  <2>2. Passes(Start, a[1], F[1]) /\ Passes(Start, b[1], G[1])
    <3>1. Start.op = None /\ a[1] \in Words /\ b[1] \in Words
      BY <1>3 DEF Start
    <3>2. \/ Opens(Start, a[1], c, F[1]) \/ Awaits(Start, a[1], F[1])
          \/ Errs(Start, a[1], c, F[1]) \/ Passes(Start, a[1], F[1])
      BY <2>1, <3>1, TakeCases
    <3>3. \/ Opens(Start, b[1], d, G[1]) \/ Awaits(Start, b[1], G[1])
          \/ Errs(Start, b[1], d, G[1]) \/ Passes(Start, b[1], G[1])
      BY <2>1, <3>1, TakeCases
    <3> QED  BY <3>1, <3>2, <3>3 DEF Opens, Awaits, Errs, TakesFile
  <2>3. /\ <<>> \in Seq(Words) /\ Append(<<>>, a[1]) = <<a[1]>> \o <<>>
        /\ Append(<<>>, b[1]) = <<b[1]>> \o <<>>
    BY <1>3
  <2> QED  BY <2>2, <2>3 DEF Passes, Like, Alike, SameStream, Start
<1>6. ASSUME NEW n \in Nat, n \in T
      PROVE  n + 1 \in T
  <2> SUFFICES ASSUME n + 1 \in 1 .. N PROVE Like(n + 1)
    OBVIOUS
  <2>1. CASE n = 0
    BY <1>5, <2>1
  <2>2. CASE n # 0
    <3>1. /\ Like(n) /\ n + 1 \in 2 .. N /\ n \in 0 .. N /\ (n + 1) - 1 = n
      BY <1>3, <1>6, <2>2
    <3>2. /\ F[n + 1] = Take(F[n], a[n + 1], c) /\ G[n + 1] = Take(G[n], a[n + 1], d)
          /\ F[n] \in Readings /\ G[n] \in Readings /\ a[n + 1] \in Words
      BY <1>3, <1>4, <3>1 DEF N
    <3> QED  BY <1>3, <3>1, <3>2, AlikeTake DEF Like
  <2> QED  BY <2>1, <2>2
<1> HIDE DEF T
<1>7. N \in T
  <2>1. 0 \in T
    BY DEF T
  <2> QED  BY <1>3, <1>6, <2>1, Closed
<1>8. Like(N)
  BY <1>3, <1>7 DEF T
<1>9. F[N] = handle_redirection(a, c) /\ G[N] = handle_redirection(b, d)
  BY <1>1, <1>2, <1>3 DEF Reads, N
<1> QED  BY <1>3, <1>4, <1>8, <1>9 DEF Like

-----------------------------------------------------------------------------
(* sh's words for a line, each standing for none or one of the line.       *)
LEMMA ShWordTyped ==
  ASSUME NEW w \in Words, NEW env \in Environments
  PROVE  /\ ShWord(w, env) \in Seq(Words)
         /\ ~IsVariable(w) => ShWord(w, env) = <<w>>
         /\ ~IsOperator(w) =>
              \A k \in DOMAIN ShWord(w, env) : ~IsOperator(ShWord(w, env)[k])
<1>1. CASE w.quoted \/ ~IsVariable(w)
  <2>1. ShWord(w, env) = <<w>>
    BY <1>1 DEF ShWord
  <2> QED  BY <2>1
<1>2. CASE ~(w.quoted \/ ~IsVariable(w)) /\ env.V = Unset
  <2>1. ShWord(w, env) = <<>>
    BY <1>2 DEF ShWord
  <2> QED  BY <1>2, <2>1
<1>3. CASE ~(w.quoted \/ ~IsVariable(w)) /\ env.V # Unset
  <2> DEFINE v == [env.V EXCEPT !.quoted = TRUE]
  <2>1. v \in Words /\ v.quoted
    BY <1>3, LaunchAssumption DEF Environments, Words
  <2>2. ShWord(w, env) = <<v>>
    BY <1>3 DEF ShWord
  <2> HIDE DEF v
  <2> QED  BY <1>3, <2>1, <2>2 DEF IsOperator
<1> QED  BY <1>1, <1>2, <1>3

(* The program comes first, unless it is a variable, and no operator is    *)
(* made where there was none.                                              *)
LEMMA ShWordsTyped ==
  ASSUME NEW line \in Seq(Words), NEW env \in Environments
  PROVE  LET words == ShWords(line, env)
         IN  /\ words \in Seq(Words)
             /\ line # <<>> /\ ~IsVariable(line[1]) =>
                  words # <<>> /\ words[1] = line[1]
             /\ (\A k \in DOMAIN line : ~IsOperator(line[k])) =>
                  \A k \in DOMAIN words : ~IsOperator(words[k])
<1> DEFINE N == Len(line)
           h == [x \in Seq(Words) \X (1 .. N) |-> x[1] \o ShWord(line[x[2]], env)]
<1>1. N \in Nat /\ DOMAIN line = 1 .. N /\ \A n \in 1 .. N : line[n] \in Words
  OBVIOUS
<1>2. <<>> \in Seq(Words)
  OBVIOUS
<1>3. ASSUME NEW r \in Seq(Words), NEW n \in 1 .. N
      PROVE  /\ h[<<r, n>>] = r \o ShWord(line[n], env)
             /\ h[<<r, n>>] \in Seq(Words)
  BY <1>1, ShWordTyped, ConcatProperties
<1>4. h \in [Seq(Words) \X (1 .. N) -> Seq(Words)]
  BY <1>3
<1> HIDE DEF h, N
<1>5. PICK g0 \in [SUBSET (1 .. N) -> Seq(Words)] : Folds(N, <<>>, h, g0)
  BY <1>1, <1>2, <1>4, FoldExists
<1> DEFINE Step(g) ==
             [s \in SUBSET (1 .. N) |->
                IF s = {} THEN <<>>
                ELSE g[s \ {Max(s)}] \o ShWord(line[Max(s)], env)]
           iter == CHOOSE g : g = Step(g)
<1>6. ShWords(line, env) = iter[1 .. N]
  BY <1>1 DEF ShWords, FoldLeft, MapThenFoldSet
<1>7. g0 = Step(g0)
  <2>1. ASSUME NEW s \in SUBSET (1 .. N), s # {}
        PROVE  g0[s] = g0[s \ {Max(s)}] \o ShWord(line[Max(s)], env)
    <3>1. Max(s) \in 1 .. N /\ s \ {Max(s)} \in SUBSET (1 .. N)
      BY <1>1, <2>1, MaxIn
    <3>2. g0[s \ {Max(s)}] \in Seq(Words)
      BY <1>5, <3>1
    <3> QED  BY <1>3, <1>5, <2>1, <3>1, <3>2 DEF Folds
  <2>2. g0[{}] = <<>>
    BY <1>5 DEF Folds
  <2> QED  BY <1>5, <2>1, <2>2
<1>8. iter = Step(iter)
  BY <1>7
<1> HIDE DEF iter
<1> DEFINE F(n) == iter[1 .. n]
<1>9. F(0) = <<>>
  BY <1>1, <1>8, InitialSegments
<1>10. ASSUME NEW n \in 1 .. N
       PROVE  F(n) = F(n - 1) \o ShWord(line[n], env)
  <2>1. /\ 1 .. n \in SUBSET (1 .. N) /\ 1 .. n # {} /\ Max(1 .. n) = n
        /\ (1 .. n) \ {n} = 1 .. n - 1
    BY <1>1, InitialSegments
  <2> QED  BY <1>8, <2>1
<1> HIDE DEF F
<1> DEFINE NoOps(words) == \A k \in DOMAIN words : ~IsOperator(words[k])
           Good(n) ==
             /\ F(n) \in Seq(Words)
             /\ n # 0 /\ ~IsVariable(line[1]) => F(n) # <<>> /\ F(n)[1] = line[1]
             /\ NoOps(line) => NoOps(F(n))
           T == {n \in Nat : n <= N => Good(n)}
<1>11. 0 \in T
  <2>1. DOMAIN F(0) = {}
    BY <1>9
  <2>2. Good(0)
    BY <1>2, <1>9, <2>1
  <2> HIDE DEF Good
  <2> QED  BY <2>2
<1>12. ASSUME NEW n \in Nat, n \in T
       PROVE  n + 1 \in T
  <2> HIDE DEF Good
  <2> SUFFICES ASSUME n + 1 <= N PROVE Good(n + 1)
    OBVIOUS
  <2>1. Good(n)
    BY <1>1, <1>12
  <2> DEFINE w == ShWord(line[n + 1], env)
  <2>2. F(n) \in Seq(Words) /\ w \in Seq(Words) /\ F(n + 1) = F(n) \o w
    <3>1. n + 1 \in 1 .. N /\ (n + 1) - 1 = n
      BY <1>1
    <3>2. line[n + 1] \in Words /\ F(n + 1) = F(n) \o w
      BY <1>1, <1>10, <3>1
    <3> QED  BY <2>1, <3>2, ShWordTyped DEF Good
  <2>3. ASSUME ~IsVariable(line[1])
        PROVE  F(n + 1) # <<>> /\ F(n + 1)[1] = line[1]
    <3>1. CASE n = 0
      <4>1. w = <<line[1]>>
        BY <1>1, <2>3, <3>1, ShWordTyped
      <4> HIDE DEF w
      <4> QED  BY <1>9, <2>2, <3>1, <4>1
    <3>2. CASE n # 0
      <4>1. F(n) # <<>> /\ F(n)[1] = line[1]
        BY <2>1, <2>3, <3>2 DEF Good
      <4> HIDE DEF w
      <4> QED  BY <2>2, <4>1
    <3> QED  BY <3>1, <3>2
  <2>4. ASSUME NoOps(line)
        PROVE  NoOps(F(n + 1))
    <3>1. NoOps(F(n))
      BY <2>1, <2>4 DEF Good
    <3>2. NoOps(w)
      <4>1. line[n + 1] \in Words /\ ~IsOperator(line[n + 1])
        BY <1>1, <2>4
      <4> QED  BY <4>1, ShWordTyped
    <3> HIDE DEF w
    <3> DEFINE f == F(n)
               m == Len(f)
    <3>3. /\ f \in Seq(Words) /\ m \in Nat /\ DOMAIN f = 1 .. m
          /\ Len(w) \in Nat /\ DOMAIN w = 1 .. Len(w)
          /\ DOMAIN F(n + 1) = 1 .. m + Len(w)
          /\ \A k \in 1 .. m + Len(w) :
               F(n + 1)[k] = IF k <= m THEN f[k] ELSE w[k - m]
      BY <2>2, ConcatProperties
    <3> HIDE DEF f, m
    <3> SUFFICES ASSUME NEW k \in 1 .. m + Len(w)
                 PROVE  ~IsOperator(F(n + 1)[k])
      BY <3>3
    <3>4. CASE k <= m
      BY <3>1, <3>3, <3>4 DEF f
    <3>5. CASE ~(k <= m)
      <4>1. k - m \in DOMAIN w
        BY <3>3, <3>5
      <4> QED  BY <3>2, <3>3, <3>5, <4>1
    <3> QED  BY <3>4, <3>5
  <2>5. F(n + 1) \in Seq(Words)
    BY <2>2, ConcatProperties
  <2> QED  BY <2>3, <2>4, <2>5 DEF Good
<1> HIDE DEF T, Good
<1>13. Good(N)
  <2>1. N \in T
    BY <1>1, <1>11, <1>12, Closed
  <2> QED  BY <1>1, <2>1 DEF T
<1>14. line # <<>> => N # 0
  BY <1>1 DEF N
<1> QED  BY <1>6, <1>13, <1>14 DEF Good, F

-----------------------------------------------------------------------------
(* The words that the table holds.                                         *)
Contexts == [cwd : Dirs, env : Environments]

(* The quotes are all that argv loses of a word.                           *)
LEMMA UnquotedTyped ==
  ASSUME NEW w \in Words
  PROVE  /\ Unquoted(w) \in Words
         /\ Unquoted(w).op = w.op /\ Unquoted(w).name = w.name
         /\ Unquoted(w).at = w.at /\ ~Unquoted(w).quoted
BY DEF Unquoted, Words

(* The arguments the table holds, word by word.                            *)
LEMMA ArgvTyped ==
  ASSUME NEW words \in Seq(Words)
  PROVE  /\ Argv(words) \in Seq(Words) /\ Len(Argv(words)) = Len(words)
         /\ \A k \in 1 .. Len(words) : Argv(words)[k] = Unquoted(words[k])
<1>1. DOMAIN words = 1 .. Len(words) /\ Len(words) \in Nat
  OBVIOUS
<1>2. \A k \in 1 .. Len(words) : Unquoted(words[k]) \in Words
  BY <1>1, UnquotedTyped
<1>3. Argv(words) = [k \in 1 .. Len(words) |-> Unquoted(words[k])]
  BY <1>1 DEF Argv
<1> QED  BY <1>1, <1>2, <1>3

(* argv without its first word.                                            *)
LEMMA ArgvTail ==
  ASSUME NEW words \in Seq(Words), words # <<>>
  PROVE  Argv(Tail(words)) = Tail(Argv(words))
<1> DEFINE t == Tail(words)
           a == Argv(words)
           n == Len(words)
<1>1. /\ n \in Nat /\ n # 0 /\ t \in Seq(Words) /\ Len(t) = n - 1
      /\ \A k \in 1 .. n - 1 : t[k] = words[k + 1]
  OBVIOUS
<1>2. a \in Seq(Words) /\ Len(a) = n
      /\ \A k \in 1 .. n : a[k] = Unquoted(words[k])
  BY ArgvTyped
<1>3. Argv(t) \in Seq(Words) /\ Len(Argv(t)) = n - 1
      /\ \A k \in 1 .. n - 1 : Argv(t)[k] = Unquoted(t[k])
  BY <1>1, ArgvTyped
<1> HIDE DEF t, a, n
<1>4. Tail(a) \in Seq(Words) /\ Len(Tail(a)) = n - 1
      /\ \A k \in 1 .. n - 1 : Tail(a)[k] = a[k + 1]
  BY <1>1, <1>2
<1>5. ASSUME NEW k \in 1 .. n - 1
      PROVE  Argv(t)[k] = Tail(a)[k]
  <2>1. k + 1 \in 1 .. n
    BY <1>1
  <2> QED  BY <1>1, <1>2, <1>3, <1>4, <2>1
<1> QED  BY <1>3, <1>4, <1>5, SeqEqual DEF t, a

(* add_service changes the directory of a word, and nothing else of it.    *)
LEMMA ResolvedTyped ==
  ASSUME NEW w \in Words, NEW cwd \in Dirs
  PROVE  /\ Resolved(w, cwd) \in Words
         /\ Resolved(w, cwd).op = w.op /\ Resolved(w, cwd).name = w.name
         /\ Resolved(w, cwd).quoted = w.quoted
         /\ Resolved(w, cwd).at = IF w.at = "rel" THEN cwd ELSE w.at
BY DEF Resolved, Words

(* The entry: the resolved program, then the other words as they were.     *)
LEMMA StoredTyped ==
  ASSUME NEW words \in Seq(Words), words # <<>>, NEW cwd \in Dirs
  PROVE  LET a == Stored(words, cwd)
         IN  /\ a \in Seq(Words) /\ a # <<>> /\ Len(a) = Len(words)
             /\ a[1] = Resolved(words[1], cwd) /\ Tail(a) = Tail(words)
             /\ \A k \in 2 .. Len(a) : words[k] = a[k]
<1> DEFINE v == Resolved(words[1], cwd)
           t == Tail(words)
<1>1. v \in Words /\ t \in Seq(Words) /\ Len(t) = Len(words) - 1
  BY ResolvedTyped
<1>2. \A k \in 1 .. Len(t) : t[k] = words[k + 1]
  OBVIOUS
<1> HIDE DEF v, t
<1>3. /\ <<v>> \o t \in Seq(Words) /\ Len(<<v>> \o t) = Len(t) + 1
      /\ (<<v>> \o t)[1] = v /\ <<v>> \o t # <<>>
      /\ \A k \in 2 .. Len(t) + 1 : (<<v>> \o t)[k] = t[k - 1]
      /\ Tail(<<v>> \o t) = t
  BY <1>1
<1>4. Len(words) \in Nat
  OBVIOUS
<1>5. Stored(words, cwd) = <<v>> \o t
  BY DEF Stored, v, t
<1> HIDE DEF Stored
<1> QED  BY <1>1, <1>2, <1>3, <1>4, <1>5 DEF v, t

(* expand_variables keeps the number of words, and those that are no set   *)
(* variable.                                                               *)
LEMMA ExpandTyped ==
  ASSUME NEW args \in Seq(Words), NEW env \in Environments
  PROVE  LET x == expand_variables(args, env)
         IN  /\ x \in Seq(Words) /\ Len(x) = Len(args)
             /\ \A k \in 1 .. Len(args) :
                  ~(IsVariable(args[k]) /\ env.V # Unset) => x[k] = args[k]
<1>1. DOMAIN args = 1 .. Len(args) /\ Len(args) \in Nat
  OBVIOUS
<1> DEFINE e(k) == IF IsVariable(args[k]) /\ env.V # Unset THEN env.V ELSE args[k]
<1>2. \A k \in 1 .. Len(args) : e(k) \in Words
  BY <1>1, LaunchAssumption DEF Environments
<1>3. expand_variables(args, env) = [k \in 1 .. Len(args) |-> e(k)]
  BY <1>1 DEF expand_variables
<1> HIDE DEF e
<1>4. expand_variables(args, env) \in Seq(Words)
      /\ Len(expand_variables(args, env)) = Len(args)
  BY <1>1, <1>2, <1>3
<1> QED  BY <1>1, <1>3, <1>4 DEF e

-----------------------------------------------------------------------------
(* A process that comes to be.                                             *)
LEMMA ProcessMade ==
  ASSUME NEW args, NEW cwd, NEW path, NEW env,
         NEW p, p = Process(args, cwd, path, env), p # Failed
  PROVE  LET r == handle_redirection(args, cwd)
         IN  /\ r.op = None /\ p.file = Program(r.args[1], cwd, path)
             /\ p.args = Tail(r.args) /\ p.streams = r.streams
             /\ p.env = env /\ p.cwd = cwd
             /\ p = [file |-> p.file, args |-> p.args, streams |-> p.streams,
                     env |-> p.env, cwd |-> p.cwd]
BY DEF Process

(* And one of the script, whose arguments usagi-reg reports.               *)
LEMMA ReportMade ==
  ASSUME NEW args, NEW cwd, NEW path, NEW env,
         NEW q, q = Process(args, cwd, path, env),
         NEW p, p = Started(q), p # Failed
  PROVE  LET r == handle_redirection(args, cwd)
         IN  /\ r.op = None /\ p.file = Program(r.args[1], cwd, path)
             /\ p.args = Argv(Tail(r.args)) /\ p.streams = r.streams
             /\ p.env = env /\ p.cwd = cwd
<1>1. q # Failed
  <2> SUFFICES ASSUME q = Failed PROVE FALSE
    OBVIOUS
  <2>1. p = [Failed EXCEPT !.args = Argv(@)]
    BY DEF Started
  <2> QED  BY <2>1 DEF Failed
<1>2. LET r == handle_redirection(args, cwd)
      IN  /\ r.op = None /\ q.file = Program(r.args[1], cwd, path)
          /\ q.args = Tail(r.args) /\ q.streams = r.streams
          /\ q.env = env /\ q.cwd = cwd
          /\ q = [file |-> q.file, args |-> q.args, streams |-> q.streams,
                  env |-> q.env, cwd |-> q.cwd]
  BY <1>1, ProcessMade
<1>3. /\ p.file = q.file /\ p.args = Argv(q.args) /\ p.streams = q.streams
      /\ p.env = q.env /\ p.cwd = q.cwd
  BY <1>2 DEF Started
<1> QED  BY <1>2, <1>3

(* What stays true of an entry.  Its program is that of its line; in a     *)
(* script its other words are the arguments that were reported; in the     *)
(* fallback shell it is read as it was for the launch.                     *)
NoOperator(words) == \A k \in DOMAIN words : ~IsOperator(words[k])
SameProgram(a, p, line, at) ==
  /\ p.cwd \in Dirs /\ p.env.PATH \in Seq(Dirs)
  /\ a[1].op = None /\ a[1].name = line[1].name
  /\ a[1].at = IF line[1].at = "rel" THEN at ELSE line[1].at
  /\ p.file = Program(line[1], p.cwd, p.env.PATH)
AsReported(a, p, line) ==
  /\ Tail(a) = p.args
  /\ NoOperator(line) => p.streams = Inherited
AsTyped(a, p) ==
  LET r == handle_redirection(a, p.cwd)
  IN  r.op = None /\ Tail(r.args) = p.args /\ r.streams = p.streams

(* Quotes do not matter to execvp.                                         *)
LEMMA ProgramUnquoted ==
  ASSUME NEW w \in Words, NEW cwd, NEW path
  PROVE  Program(Unquoted(w), cwd, path) = Program(w, cwd, path)
BY UnquotedTyped DEF Program

(* A line starts with a program.                                           *)
LEMMA LineFirst ==
  ASSUME NEW line \in Lines
  PROVE  /\ line \in Seq(Words) /\ line # <<>> /\ line[1] \in Words
         /\ ~IsVariable(line[1]) /\ ~IsOperator(line[1]) /\ line[1].op = None
<1>1. line \in Seq(Words) /\ line # <<>> /\ line[1].op = None /\ line[1].name # "$V"
  BY LaunchAssumption
<1>2. line[1] \in Words
  BY <1>1
<1> QED  BY <1>1, <1>2 DEF IsVariable, IsOperator

(* A background line of a script.                                          *)
LEMMA ReportedEntry ==
  ASSUME NEW line \in Lines, NEW c \in Contexts, NEW at \in Dirs,
         NEW words, words = ShWords(line, c.env),
         NEW a, a = Stored(Argv(handle_redirection(words, c.cwd).args), at),
         NEW q, q = Process(words, c.cwd, c.env.PATH, c.env),
         NEW p, p = Started(q)
  PROVE  /\ a \in Seq(Words) /\ a # <<>>
         /\ p # Failed => /\ SameProgram(a, p, line, at) /\ p.env = c.env
                          /\ AsReported(a, p, line)
<1> DEFINE r == handle_redirection(words, c.cwd)
<1>1. c.cwd \in Dirs /\ c.env \in Environments /\ c.env.PATH \in Seq(Dirs)
  BY DEF Contexts, Environments
<1>2. /\ words \in Seq(Words) /\ words # <<>> /\ words[1] = line[1]
      /\ NoOperator(line) => NoOperator(words)
  BY <1>1, LineFirst, ShWordsTyped DEF NoOperator
<1>3. r \in Readings /\ Alike(r, r, words[1], words[1], TRUE)
  BY <1>1, <1>2, LineFirst, ReadAlike
<1>4. PICK rest \in Seq(Words) : r.args = <<line[1]>> \o rest
  BY <1>2, <1>3 DEF Alike
<1>5. /\ r.args \in Seq(Words) /\ r.args # <<>> /\ r.args[1] = line[1]
  BY <1>4, LineFirst
<1> HIDE DEF r
<1> DEFINE g == Argv(r.args)
<1>6. /\ g \in Seq(Words) /\ g # <<>> /\ g[1] = Unquoted(line[1])
      /\ g[1] \in Words /\ Argv(Tail(r.args)) = Tail(g)
  <2>1. g \in Seq(Words) /\ Len(g) = Len(r.args)
        /\ \A k \in 1 .. Len(r.args) : g[k] = Unquoted(r.args[k])
    BY <1>5, ArgvTyped
  <2>2. Argv(Tail(r.args)) = Tail(g)
    BY <1>5, ArgvTail
  <2>3. Len(r.args) \in Nat \ {0}
    BY <1>5
  <2> HIDE DEF g
  <2>4. g[1] = Unquoted(line[1]) /\ g # <<>>
    BY ONLY <1>5, <2>1, <2>3
  <2>5. g[1] \in Words
    BY ONLY <2>1, <2>3
  <2> QED  BY ONLY <2>1, <2>2, <2>4, <2>5
<1> HIDE DEF g
<1>7. /\ a \in Seq(Words) /\ a # <<>> /\ a[1] = Resolved(g[1], at)
      /\ Tail(a) = Tail(g)
  BY <1>6, StoredTyped DEF g, r
<1>8. ASSUME p # Failed
      PROVE  SameProgram(a, p, line, at) /\ AsReported(a, p, line) /\ p.env = c.env
  <2>1. /\ r.op = None /\ p.file = Program(r.args[1], c.cwd, c.env.PATH)
        /\ p.args = Argv(Tail(r.args)) /\ p.streams = r.streams
        /\ p.env = c.env /\ p.cwd = c.cwd
    BY <1>8, ReportMade DEF r
  <2>2. /\ g[1].op = None /\ g[1].name = line[1].name /\ g[1].at = line[1].at
    <3>1. line[1] \in Words /\ line[1].op = None
      BY LineFirst
    <3> QED  BY ONLY <1>6, <3>1, UnquotedTyped
  <2>3. /\ a[1].op = g[1].op /\ a[1].name = g[1].name
        /\ a[1].at = IF g[1].at = "rel" THEN at ELSE g[1].at
    <3>1. LET w == g[1]
          IN  /\ Resolved(w, at).op = w.op /\ Resolved(w, at).name = w.name
              /\ Resolved(w, at).at = IF w.at = "rel" THEN at ELSE w.at
      BY <1>6, ResolvedTyped
    <3> QED  BY ONLY <1>7, <3>1
  <2>4. NoOperator(line) => r.streams = Inherited
    BY <1>1, <1>2, PlainReading DEF NoOperator, r
  <2> QED  BY <1>1, <1>5, <1>6, <1>7, <2>1, <2>2, <2>3, <2>4 DEF SameProgram, AsReported
<1> QED  BY <1>7, <1>8

(* A background command of the fallback shell.                             *)
LEMMA TypedEntry ==
  ASSUME NEW line \in Lines, NEW c \in Contexts,
         NEW args, args = expand_variables(Argv(line), c.env),
         NEW a, a = Stored(args, c.cwd),
         NEW p, p = Process(args, c.cwd, c.env.PATH, c.env)
  PROVE  /\ a \in Seq(Words) /\ a # <<>>
         /\ p # Failed => SameProgram(a, p, line, p.cwd) /\ AsTyped(a, p)
<1> DEFINE r == handle_redirection(args, c.cwd)
           q == handle_redirection(a, c.cwd)
<1>1. c.cwd \in Dirs /\ c.env \in Environments /\ c.env.PATH \in Seq(Dirs)
  BY DEF Contexts, Environments
<1> DEFINE g == Argv(line)
<1>2. /\ g \in Seq(Words) /\ Len(g) = Len(line) /\ Len(line) \in Nat \ {0}
      /\ g[1] = Unquoted(line[1])
  <2>1. line \in Seq(Words) /\ line # <<>>
    BY LineFirst
  <2>2. g \in Seq(Words) /\ Len(g) = Len(line)
        /\ \A k \in 1 .. Len(line) : g[k] = Unquoted(line[k])
    BY <2>1, ArgvTyped
  <2>3. Len(line) \in Nat \ {0}
    BY <2>1
  <2> HIDE DEF g
  <2> QED  BY <2>2, <2>3
<1> HIDE DEF g
<1>3. /\ g[1] \in Words /\ ~IsVariable(g[1]) /\ ~IsOperator(g[1])
      /\ g[1].op = None /\ g[1].name = line[1].name /\ g[1].at = line[1].at
  BY <1>2, LineFirst, UnquotedTyped DEF IsVariable, IsOperator
<1>4. args \in Seq(Words) /\ args # <<>> /\ args[1] = g[1]
  <2>1. args \in Seq(Words) /\ Len(args) = Len(g)
        /\ \A k \in 1 .. Len(g) :
             ~(IsVariable(g[k]) /\ c.env.V # Unset) => args[k] = g[k]
    BY <1>1, <1>2, ExpandTyped DEF g
  <2> QED  BY <1>2, <1>3, <2>1
<1>5. /\ a \in Seq(Words) /\ a # <<>> /\ Len(args) = Len(a)
      /\ a[1] = Resolved(g[1], c.cwd) /\ \A k \in 2 .. Len(args) : args[k] = a[k]
  BY <1>1, <1>4, StoredTyped
<1>6. /\ a[1] \in Words /\ a[1].op = None /\ a[1].name = g[1].name
      /\ a[1].at = IF g[1].at = "rel" THEN c.cwd ELSE g[1].at
      /\ ~IsOperator(a[1])
  BY <1>1, <1>3, <1>5, ResolvedTyped DEF IsOperator
<1>7. ASSUME p # Failed
      PROVE  SameProgram(a, p, line, p.cwd) /\ AsTyped(a, p)
  <2>1. /\ r.op = None /\ p.file = Program(r.args[1], c.cwd, c.env.PATH)
        /\ p.args = Tail(r.args) /\ p.streams = r.streams
        /\ p.env = c.env /\ p.cwd = c.cwd
    BY <1>7, ProcessMade
  <2>2. r \in Readings /\ q \in Readings /\ Alike(r, q, args[1], a[1], TRUE)
    <3>1. /\ c.cwd \in Dirs /\ args \in Seq(Words) /\ a \in Seq(Words)
          /\ args # <<>> /\ Len(args) = Len(a)
          /\ \A k \in 2 .. Len(args) : args[k] = a[k]
          /\ ~IsOperator(args[1]) /\ ~IsOperator(a[1])
      BY <1>1, <1>3, <1>4, <1>5, <1>6
    <3> QED  BY ONLY <3>1, ReadAlike
  <2> HIDE DEF r, q
  <2>3. PICK rest \in Seq(Words) :
          r.args = <<args[1]>> \o rest /\ q.args = <<a[1]>> \o rest
    BY <2>2 DEF Alike
  <2>4. Tail(q.args) = Tail(r.args) /\ r.args[1] = g[1]
    BY <1>3, <1>4, <1>6, <2>3
  <2>5. q.streams = r.streams
    <3>1. \A st \in StreamNames : q.streams[st] = r.streams[st]
      BY <2>2 DEF Alike, SameStream
    <3> QED  BY <2>2, <3>1 DEF Readings
  <2>6. q.op = None
    BY <2>1, <2>2 DEF Alike
  <2>7. Program(g[1], c.cwd, c.env.PATH) = Program(line[1], c.cwd, c.env.PATH)
    BY <1>2, LineFirst, ProgramUnquoted
  <2> QED
    BY <1>1, <1>3, <1>6, <2>1, <2>4, <2>5, <2>6, <2>7 DEF SameProgram, AsTyped, q
<1> QED  BY <1>5, <1>7

(* UsagiInit's directory and environment, and sh's, are that.              *)
ContextOK ==
  /\ own \in Contexts /\ sh \in Contexts
  /\ mode \in {"script", "interactive"}

-----------------------------------------------------------------------------
(* Directories are only ever put in front of PATH or behind it.            *)
LEMMA PathsTyped ==
  ASSUME NEW path \in Seq(Dirs), NEW d \in Dirs
  PROVE  /\ <<d>> \in Seq(Dirs) /\ <<d>> \o path \in Seq(Dirs)
         /\ Append(path, d) \in Seq(Dirs)
<1>1. <<d>> \in Seq(Dirs)
  OBVIOUS
<1> QED  BY <1>1, ConcatProperties, AppendProperties

(* They are at the start.                                                  *)
LEMMA ContextInit == Init => ContextOK
<1> SUFFICES ASSUME Init PROVE ContextOK
  OBVIOUS
<1>1. Home \in Dirs /\ <<Home>> \in Seq(Dirs)
  BY LaunchAssumption
<1> QED  BY <1>1 DEF Init, ContextOK, Contexts, Environments

(* A command of a shell is done in that shell's context.                   *)
LEMMA CommandKeeps ==
  ASSUME ContextOK, NEW new \in Contexts, Command(new)
  PROVE  ContextOK'
BY DEF ContextOK, Command, ShellIs

(* Every step keeps them so.                                               *)
LEMMA ContextStep == ContextOK /\ [Next]_vars => ContextOK'
<1> SUFFICES ASSUME ContextOK, [Next]_vars PROVE ContextOK'
  OBVIOUS
<1>1. own \in Contexts /\ sh \in Contexts /\ sh.env.PATH \in Seq(Dirs)
        /\ own.env.PATH \in Seq(Dirs)
  BY DEF ContextOK, Contexts, Environments
<1>2. CASE Boot
  <2>1. <<Self>> \o own.env.PATH \in Seq(Dirs)
    BY <1>1, PathsTyped, LaunchAssumption
  <2>2. own' \in Contexts
    BY <1>1, <1>2, <2>1 DEF Boot, prepend_self_to_path, Contexts, Environments
  <2> QED  BY <1>2, <2>2 DEF Boot, ContextOK
<1>3. ASSUME NEW d \in Dirs, Cd(d)
      PROVE  ContextOK'
  <2>1. [sh EXCEPT !.cwd = d] \in Contexts
    BY <1>1 DEF Contexts, Environments
  <2> QED  BY <1>3, <2>1, CommandKeeps DEF Cd
<1>4. ASSUME NEW d \in Dirs, ExportPath(d)
      PROVE  ContextOK'
  <2>1. PICK path \in {<<d>>, <<d>> \o sh.env.PATH, Append(sh.env.PATH, d)} :
          Command([sh EXCEPT !.env.PATH = path])
    BY <1>4 DEF ExportPath
  <2>2. path \in Seq(Dirs)
    BY <1>1, PathsTyped
  <2>3. [sh EXCEPT !.env.PATH = path] \in Contexts
    BY <1>1, <2>2 DEF Contexts, Environments
  <2> QED  BY <2>1, <2>3, CommandKeeps
<1>5. ASSUME NEW v \in Values, ExportV(v)
      PROVE  ContextOK'
  <2>1. [sh EXCEPT !.env.V = v] \in Contexts
    BY <1>1 DEF Contexts, Environments
  <2> QED  BY <1>5, <2>1, CommandKeeps DEF ExportV
<1>6. ASSUME UNCHANGED <<mode, own, sh>>
      PROVE  ContextOK'
  BY <1>6 DEF ContextOK
<1>7. CASE \/ EndShell \/ Reinitialize \/ Finished \/ UNCHANGED vars
           \/ \E line \in Lines : Launch(line) \/ RunInBackground(line)
           \/ \E i \in DOMAIN services : do_restart(i)
  <2>1. UNCHANGED <<mode, own, sh>>
    BY <1>7 DEF EndShell, Reinitialize, Finished, Launch, RunInBackground,
                do_restart, vars
  <2> QED  BY <1>6, <2>1
<1> QED  BY <1>2, <1>3, <1>4, <1>5, <1>7 DEF Next

-----------------------------------------------------------------------------
(* The table and its history are sequences of the same length.             *)
IsSomeSeq(s) == \E E : s \in Seq(E)
Aligned ==
  /\ IsSomeSeq(services) /\ IsSomeSeq(launched) /\ IsSomeSeq(restarted)
  /\ Len(launched) = Len(services) /\ Len(restarted) = Len(services)

(* An entry against its launch, in UsagiInit's directory `at'.  The        *)
(* properties speak of the last restart only; the next one is made from    *)
(* the entry, and the entry does not change.                               *)
EntryOf(e, l, at) ==
  /\ l.line \in Lines /\ e.args \in Seq(Words) /\ e.args # <<>>
  /\ mode = "script" => e.env # Inherit
  /\ l.process # Failed =>
       IF mode = "script"
       THEN /\ SameProgram(e.args, l.process, l.line, at)
            /\ AsReported(e.args, l.process, l.line)
            /\ e.env = l.process.env
       ELSE /\ SameProgram(e.args, l.process, l.line, l.process.cwd)
            /\ AsTyped(e.args, l.process)
RestartOf(e, p) ==
  p # Failed =>
    /\ phase = "guardian"
    /\ p = Process(expand_variables(e.args, own.env), own.cwd, own.env.PATH,
                   Environment(e.env))
KeptInv ==
  /\ ContextOK /\ Aligned
  /\ phase = "boot" => services = <<>>
  /\ \A i \in DOMAIN services :
       EntryOf(services[i], launched[i], own.cwd) /\ RestartOf(services[i], restarted[i])

(* A new entry stands behind the others.                                   *)
LEMMA AppendAny ==
  ASSUME NEW s, IsSomeSeq(s), NEW e
  PROVE  LET t == Append(s, e)
         IN  /\ IsSomeSeq(t) /\ Len(s) \in Nat /\ Len(t) = Len(s) + 1
             /\ DOMAIN s = 1 .. Len(s) /\ DOMAIN t = 1 .. Len(s) + 1
             /\ \A i \in DOMAIN s : t[i] = s[i]
             /\ t[Len(s) + 1] = e
<1>1. PICK E : s \in Seq(E)
  BY DEF IsSomeSeq
<1> DEFINE F == E \cup {e}
<1>2. s \in Seq(F) /\ e \in F
  BY <1>1
<1> HIDE DEF F
<1>3. Append(s, e) \in Seq(F)
  BY <1>2, AppendProperties
<1> QED  BY <1>2, <1>3, AppendProperties DEF IsSomeSeq

(* Before the first boot there is no entry.                                *)
LEMMA KeptInit == Init => KeptInv
<1> SUFFICES ASSUME Init PROVE KeptInv
  OBVIOUS
<1>1. /\ services = <<>> /\ launched = <<>> /\ restarted = <<>>
      /\ <<>> \in Seq({}) /\ DOMAIN services = {}
  BY DEF Init
<1>2. Aligned
  BY <1>1 DEF Aligned, IsSomeSeq
<1> QED  BY <1>1, <1>2, ContextInit DEF KeptInv

(* A new entry joins the others, which stay as they are.                   *)
LEMMA AddKeeps ==
  ASSUME KeptInv, ContextOK', UNCHANGED <<mode, phase, own>>, phase = "shell",
         NEW e, NEW l, EntryOf(e, l, own.cwd),
         services' = Append(services, e), launched' = Append(launched, l),
         restarted' = Append(restarted, Failed)
  PROVE  KeptInv'
<1> DEFINE n == Len(services)
<1>1. /\ n \in Nat /\ DOMAIN services = 1 .. n /\ DOMAIN services' = 1 .. n + 1
      /\ \A i \in 1 .. n : /\ services'[i] = services[i]
                           /\ launched'[i] = launched[i]
                           /\ restarted'[i] = restarted[i]
      /\ services'[n + 1] = e /\ launched'[n + 1] = l
      /\ restarted'[n + 1] = Failed
      /\ Aligned'
  BY AppendAny DEF KeptInv, Aligned
<1> HIDE DEF n
<1>2. ASSUME NEW i \in 1 .. n + 1
      PROVE  /\ EntryOf(services[i], launched[i], own.cwd)'
             /\ RestartOf(services[i], restarted[i])'
  <2>1. CASE i \in 1 .. n
    <3>1. /\ EntryOf(services[i], launched[i], own.cwd)
          /\ RestartOf(services[i], restarted[i])
      BY <1>1, <2>1 DEF KeptInv
    <3> QED  BY <1>1, <2>1, <3>1 DEF EntryOf, RestartOf
  <2>2. CASE i = n + 1
    BY <1>1, <2>2 DEF EntryOf, RestartOf
  <2>3. i \in 1 .. n \/ i = n + 1
    BY <1>1
  <2> QED  BY <2>1, <2>2, <2>3
<1> QED  BY <1>1, <1>2 DEF KeptInv

(* A background line of a script adds such an entry, if it adds one.       *)
LEMMA LaunchKeeps ==
  ASSUME KeptInv, ContextOK', NEW line \in Lines, Launch(line)
  PROVE  KeptInv'
<1>1. UNCHANGED <<mode, phase, own>> /\ mode = "script" /\ phase = "shell"
  BY DEF Launch
<1>2. CASE UNCHANGED entries
  BY <1>1, <1>2 DEF entries, KeptInv, Aligned, EntryOf, RestartOf, Environment
<1>3. CASE ~UNCHANGED entries
  <2> DEFINE words == ShWords(line, sh.env)
             r == handle_redirection(words, sh.cwd)
             q == Process(words, sh.cwd, sh.env.PATH, sh.env)
             process == Started(q)
             a == Stored(Argv(r.args), own.cwd)
             e == [args |-> a, env |-> sh.env]
             l == [process |-> process, line |-> line]
  <2>1. /\ services' = Append(services, e) /\ launched' = Append(launched, l)
        /\ restarted' = Append(restarted, Failed)
    BY <1>3 DEF Launch, AddService
  <2>2. /\ sh \in Contexts /\ own.cwd \in Dirs
        /\ sh.env \in Environments /\ sh.env # Inherit
    BY LaunchAssumption DEF KeptInv, ContextOK, Contexts
  <2>3. /\ a \in Seq(Words) /\ a # <<>>
        /\ process # Failed => /\ SameProgram(a, process, line, own.cwd)
                               /\ process.env = sh.env
                               /\ AsReported(a, process, line)
    BY <2>2, ReportedEntry
  <2> HIDE DEF a, process
  <2>4. e.args = a /\ e.env = sh.env /\ l.process = process /\ l.line = line
    OBVIOUS
  <2> HIDE DEF e, l
  <2>5. EntryOf(e, l, own.cwd)
    BY <1>1, <2>2, <2>3, <2>4 DEF EntryOf
  <2> QED  BY <1>1, <2>1, <2>5, AddKeeps
<1> QED  BY <1>2, <1>3

(* So does a background command of the fallback shell.                     *)
LEMMA RunKeeps ==
  ASSUME KeptInv, ContextOK', NEW line \in Lines, RunInBackground(line)
  PROVE  KeptInv'
<1>1. UNCHANGED <<mode, phase, own>> /\ mode # "script" /\ phase = "shell"
  BY DEF RunInBackground
<1> DEFINE args == expand_variables(Argv(line), own.env)
           process == Process(args, own.cwd, own.env.PATH, own.env)
           a == Stored(args, own.cwd)
           e == [args |-> a, env |-> Inherit]
           l == [process |-> process, line |-> line]
<1>2. /\ services' = Append(services, e) /\ launched' = Append(launched, l)
      /\ restarted' = Append(restarted, Failed)
  BY DEF RunInBackground, AddService
<1>3. own \in Contexts
  BY DEF KeptInv, ContextOK
<1>4. /\ a \in Seq(Words) /\ a # <<>>
      /\ process # Failed => /\ SameProgram(a, process, line, process.cwd)
                             /\ AsTyped(a, process)
  BY <1>3, TypedEntry
<1> HIDE DEF a, process
<1>5. e.args = a /\ l.process = process /\ l.line = line
  OBVIOUS
<1> HIDE DEF e, l
<1>6. EntryOf(e, l, own.cwd)
  BY <1>1, <1>4, <1>5 DEF EntryOf
<1> QED  BY <1>1, <1>2, <1>6, AddKeeps

(* A restart is made from the entry.                                       *)
LEMMA RestartKeeps ==
  ASSUME KeptInv, ContextOK', NEW i \in DOMAIN services, do_restart(i)
  PROVE  KeptInv'
<1> DEFINE p == Process(expand_variables(services[i].args, own.env), own.cwd,
                        own.env.PATH, Environment(services[i].env))
<1>1. /\ UNCHANGED <<mode, phase, own, services, launched>> /\ phase = "guardian"
      /\ restarted' = [restarted EXCEPT ![i] = p]
  BY DEF do_restart
<1>2. RestartOf(services[i], p)
  BY <1>1 DEF RestartOf
<1> HIDE DEF p
<1>3. /\ DOMAIN restarted = DOMAIN services /\ DOMAIN restarted' = DOMAIN restarted
      /\ \A j \in DOMAIN services :
           restarted'[j] = IF j = i THEN p ELSE restarted[j]
      /\ IsSomeSeq(restarted') /\ Len(restarted') = Len(restarted)
  <2>1. PICK E : restarted \in Seq(E)
    BY DEF KeptInv, Aligned, IsSomeSeq
  <2> DEFINE F == E \cup {p}
  <2>2. restarted \in Seq(F) /\ p \in F
    BY <2>1
  <2> HIDE DEF F
  <2>3. PICK G : services \in Seq(G)
    BY DEF KeptInv, Aligned, IsSomeSeq
  <2>4. DOMAIN restarted = DOMAIN services
    BY <2>2, <2>3 DEF KeptInv, Aligned
  <2> QED  BY <1>1, <2>2, <2>4, ExceptSeq DEF IsSomeSeq
<1>4. ASSUME NEW j \in DOMAIN services
      PROVE  /\ EntryOf(services[j], launched[j], own.cwd)'
             /\ RestartOf(services[j], restarted[j])'
  <2>1. EntryOf(services[j], launched[j], own.cwd) /\ RestartOf(services[j], restarted[j])
    BY DEF KeptInv
  <2> QED  BY <1>1, <1>2, <1>3, <2>1 DEF EntryOf, RestartOf, Environment
<1> QED  BY <1>1, <1>3, <1>4 DEF KeptInv, Aligned

(* Commands of a script leave UsagiInit alone, those of the fallback shell *)
(* come before any restart.                                                *)
LEMMA CommandKeepsEntries ==
  ASSUME KeptInv, ContextOK', NEW new, Command(new)
  PROVE  KeptInv'
<1>1. /\ UNCHANGED <<mode, phase, services, launched, restarted>> /\ phase = "shell"
      /\ mode = "script" => own' = own
  BY DEF Command, ShellIs, entries
<1>2. ASSUME NEW i \in DOMAIN services
      PROVE  /\ EntryOf(services[i], launched[i], own.cwd)'
             /\ RestartOf(services[i], restarted[i])'
  <2>1. EntryOf(services[i], launched[i], own.cwd) /\ RestartOf(services[i], restarted[i])
    BY DEF KeptInv
  <2> QED  BY <1>1, <2>1 DEF EntryOf, RestartOf
<1> QED  BY <1>1, <1>2 DEF KeptInv, Aligned

(* Every step keeps the entries true to their launches.                    *)
LEMMA KeptStep == KeptInv /\ [Next]_vars => KeptInv'
<1> SUFFICES ASSUME KeptInv, [Next]_vars PROVE KeptInv'
  OBVIOUS
<1>1. ContextOK'
  BY ContextStep DEF KeptInv
<1>2. ASSUME NEW line \in Lines, Launch(line) \/ RunInBackground(line)
      PROVE  KeptInv'
  BY <1>1, <1>2, LaunchKeeps, RunKeeps
<1>3. ASSUME NEW i \in DOMAIN services, do_restart(i)
      PROVE  KeptInv'
  BY <1>1, <1>3, RestartKeeps
<1>4. CASE Boot
  <2>1. UNCHANGED <<services, launched, restarted>> /\ services = <<>>
        /\ phase' = "shell" /\ DOMAIN services = {}
    BY <1>4 DEF Boot, entries, KeptInv
  <2> QED  BY <1>1, <2>1 DEF KeptInv, Aligned
<1>5. CASE Reinitialize
  <2>1. /\ services' = <<>> /\ launched' = <<>> /\ restarted' = <<>>
        /\ <<>> \in Seq({}) /\ DOMAIN services' = {}
    BY <1>5 DEF Reinitialize
  <2>2. Aligned'
    BY <2>1 DEF Aligned, IsSomeSeq
  <2> QED  BY <1>1, <2>1, <2>2 DEF KeptInv
<1>6. ASSUME NEW new, Command(new)
      PROVE  KeptInv'
  BY <1>1, <1>6, CommandKeepsEntries
<1>7. CASE \/ \E d \in Dirs : Cd(d) \/ ExportPath(d)
           \/ \E v \in Values : ExportV(v)
  BY <1>6, <1>7 DEF Cd, ExportPath, ExportV
<1>8. CASE EndShell \/ Finished \/ UNCHANGED vars
  <2>1. /\ UNCHANGED <<mode, own, services, launched, restarted>>
        /\ \/ phase' = phase
           \/ phase = "shell" /\ phase' = "guardian"
    BY <1>8 DEF EndShell, Finished, vars, entries
  <2>2. ASSUME NEW i \in DOMAIN services
        PROVE  /\ EntryOf(services[i], launched[i], own.cwd)'
               /\ RestartOf(services[i], restarted[i])'
    <3>1. EntryOf(services[i], launched[i], own.cwd) /\ RestartOf(services[i], restarted[i])
      BY DEF KeptInv
    <3> QED  BY <2>1, <3>1 DEF EntryOf, RestartOf, Environment
  <2> QED  BY <1>1, <2>1, <2>2 DEF KeptInv, Aligned
<1> QED  BY <1>2, <1>3, <1>4, <1>5, <1>7, <1>8 DEF Next

(* Whatever the script exports after a background line, and however often  *)
(* UsagiInit re-executes itself: each restart of a script's service has    *)
(* the environment that sh had at its line.                                *)
THEOREM EnvironmentKeptAlways == Spec => []EnvironmentKept
<1>1. KeptInv => EnvironmentKept
  <2> SUFFICES ASSUME KeptInv, NEW i \in DOMAIN services, mode = "script",
                      Restarted(i)
               PROVE  restarted[i].env = launched[i].process.env
    BY DEF EnvironmentKept
  <2>1. EntryOf(services[i], launched[i], own.cwd) /\ RestartOf(services[i], restarted[i])
    BY DEF KeptInv
  <2>2. services[i].env # Inherit /\ services[i].env = launched[i].process.env
    BY <2>1 DEF EntryOf, Restarted
  <2>3. restarted[i].env = Environment(services[i].env)
    BY <2>1, ProcessMade DEF RestartOf, Restarted
  <2> QED  BY <2>2, <2>3 DEF Environment
<1> QED  BY KeptInit, KeptStep, <1>1, PTL DEF Spec

(* do_restart takes the words of the entry as they are, if none of them is *)
(* read once more.                                                         *)
LEMMA RestartReads ==
  ASSUME KeptInv, NEW i \in DOMAIN services, Restarted(i), ~ReadAgain(i)
  PROVE  LET a == services[i].args
             r == handle_redirection(a, own.cwd)
             p == restarted[i]
         IN  /\ p.file = Program(r.args[1], own.cwd, own.env.PATH)
             /\ p.args = Tail(r.args) /\ p.streams = r.streams
             /\ r.args[1] = a[1]
             /\ mode = "script" => r.args = a /\ r.streams = Inherited
<1> DEFINE a == services[i].args
           p == restarted[i]
           x == expand_variables(a, own.env)
<1>1. /\ EntryOf(services[i], launched[i], own.cwd) /\ p # Failed
      /\ launched[i].process # Failed
      /\ p = Process(x, own.cwd, own.env.PATH, Environment(services[i].env))
  BY DEF KeptInv, RestartOf, Restarted
<1>2. /\ a \in Seq(Words) /\ a # <<>> /\ a[1] \in Words /\ a[1].op = None
      /\ own.cwd \in Dirs /\ own.env \in Environments
  BY <1>1 DEF EntryOf, SameProgram, KeptInv, ContextOK, Contexts
<1>3. /\ \A k \in DOMAIN a : ~(IsVariable(a[k]) /\ own.env.V # Unset)
      /\ mode = "script" => \A k \in DOMAIN a : ~IsOperator(a[k])
  BY DEF ReadAgain
<1> HIDE DEF a, p
<1>4. x = a
  <2>1. /\ x \in Seq(Words) /\ Len(x) = Len(a)
        /\ \A k \in 1 .. Len(a) :
             ~(IsVariable(a[k]) /\ own.env.V # Unset) => x[k] = a[k]
    BY <1>2, ExpandTyped
  <2>2. \A k \in 1 .. Len(a) : x[k] = a[k]
    BY <1>2, <1>3, <2>1
  <2> HIDE DEF x
  <2> QED  BY <1>2, <2>1, <2>2, SeqEqual
<1> HIDE DEF x
<1> DEFINE r == handle_redirection(a, own.cwd)
<1>5. /\ p.file = Program(r.args[1], own.cwd, own.env.PATH)
      /\ p.args = Tail(r.args) /\ p.streams = r.streams
  BY <1>1, <1>4, ProcessMade
<1>6. r.args[1] = a[1]
  <2>1. ~IsOperator(a[1])
    BY <1>2 DEF IsOperator
  <2>2. Alike(r, r, a[1], a[1], TRUE)
    BY <1>2, <2>1, ReadAlike
  <2> HIDE DEF r
  <2> QED  BY <1>2, <2>2 DEF Alike
<1>7. mode = "script" => r.args = a /\ r.streams = Inherited
  BY <1>2, <1>3, PlainReading
<1> QED  BY <1>5, <1>6, <1>7 DEF a, p

(* execvp finds the same program along a longer PATH, if it is found at    *)
(* all on the shorter one.                                                 *)
LEMMA FoundAlong ==
  ASSUME NEW path \in Seq(Dirs), NEW longer \in Seq(Dirs), IsPrefix(path, longer),
         NEW name, Lookup(path, name) # Missing
  PROVE  Lookup(longer, name) = Lookup(path, name)
<1> DEFINE hits == {i \in DOMAIN path : <<path[i], name>> \in Installed}
           more == {i \in DOMAIN longer : <<longer[i], name>> \in Installed}
<1>1. /\ Len(path) \in Nat /\ Len(longer) \in Nat /\ Len(path) <= Len(longer)
      /\ DOMAIN path = 1 .. Len(path) /\ DOMAIN longer = 1 .. Len(longer)
      /\ SubSeq(path, 1, Len(path)) = SubSeq(longer, 1, Len(path))
  BY DEF IsPrefix
<1>2. \A i \in 1 .. Len(path) : longer[i] = path[i]
  <2> SUFFICES ASSUME NEW i \in 1 .. Len(path) PROVE longer[i] = path[i]
    OBVIOUS
  <2>1. SubSeq(path, 1, Len(path))[i] = path[i]
    BY <1>1
  <2>2. SubSeq(longer, 1, Len(path))[i] = longer[i]
    BY <1>1
  <2> QED  BY <1>1, <2>1, <2>2
<1>3. /\ hits # {} /\ hits \subseteq more /\ more \subseteq Nat
      /\ \A i \in more : (\A j \in more : i <= j) => i \in hits
  <2>1. hits # {}
    BY DEF Lookup
  <2>2. hits \subseteq more /\ more \subseteq Nat
    BY <1>1, <1>2
  <2>3. ASSUME NEW i \in more, \A j \in more : i <= j
        PROVE  i \in hits
    <3>1. PICK j \in hits : TRUE
      BY <2>1
    <3>2. i <= j
      BY <2>2, <2>3, <3>1
    <3>3. j \in 1 .. Len(path)
      BY <1>1, <3>1
    <3>4. i \in 1 .. Len(longer)
      BY <1>1
    <3>5. i \in 1 .. Len(path)
      BY <1>1, <3>2, <3>3, <3>4
    <3> QED  BY <1>1, <1>2, <3>5
  <2> HIDE DEF hits, more
  <2> QED  BY <2>1, <2>2, <2>3
<1> HIDE DEF hits, more
<1> DEFINE m == CHOOSE i \in hits : \A j \in hits : i <= j
           k == CHOOSE i \in more : \A j \in more : i <= j
<1>4. m \in hits /\ \A j \in hits : m <= j
  BY <1>3, Least
<1>5. k \in more /\ \A j \in more : k <= j
  BY <1>3, Least
<1> HIDE DEF m, k
<1>6. m = k /\ m \in hits
  BY <1>3, <1>4, <1>5
<1>7. Lookup(path, name) = <<path[m], name>>
  BY <1>3 DEF Lookup, hits, m
<1>8. Lookup(longer, name) = <<longer[k], name>>
  BY <1>3 DEF Lookup, more, k
<1>9. longer[m] = path[m]
  BY <1>1, <1>2, <1>6 DEF hits
<1> QED  BY <1>6, <1>7, <1>8, <1>9

(* A restart runs the program that was launched, from an absolute path, or *)
(* the path that add_service resolved, or along the PATH of UsagiInit.     *)
THEOREM ProgramKeptAlways == Spec => []ProgramKept
<1>1. KeptInv => ProgramKept
  <2> SUFFICES ASSUME KeptInv, NEW i \in DOMAIN services, Restarted(i), ~ReadAgain(i),
                      LET w == launched[i].line[1]
                      IN  CASE w.at \in Dirs -> TRUE
                            [] w.at = "rel" -> mode = "interactive" \/ SameDirectory(i)
                            [] OTHER ->
                                 /\ IsPrefix(own.env.PATH, launched[i].process.env.PATH)
                                 /\ Lookup(own.env.PATH, w.name) # Missing
               PROVE  restarted[i].file = launched[i].process.file
    BY DEF ProgramKept
  <2> DEFINE v == services[i].args[1]
             w == launched[i].line[1]
             p == launched[i].process
  <2>1. /\ EntryOf(services[i], launched[i], own.cwd)
        /\ own.env.PATH \in Seq(Dirs) /\ own.cwd \in Dirs
        /\ mode = "script" \/ mode = "interactive"
    BY DEF KeptInv, ContextOK, Contexts, Environments
  <2>2. SameProgram(services[i].args, p, launched[i].line,
                    IF mode = "script" THEN own.cwd ELSE p.cwd)
    BY <2>1 DEF EntryOf, Restarted
  <2>3. w \in Words
    BY <2>1, LineFirst DEF EntryOf
  <2>4. restarted[i].file = Program(v, own.cwd, own.env.PATH)
    BY RestartReads
  <2>5. /\ p.cwd \in Dirs /\ p.env.PATH \in Seq(Dirs) /\ v.name = w.name
        /\ v.at = IF w.at = "rel" THEN IF mode = "script" THEN own.cwd ELSE p.cwd
                  ELSE w.at
        /\ p.file = Program(w, p.cwd, p.env.PATH)
    BY <2>2 DEF SameProgram
  <2>6. SameDirectory(i) => p.cwd = own.cwd
    BY DEF SameDirectory
  <2> HIDE DEF v, w, p
  <2>7. {"rel", None} \cap Dirs = {} /\ "rel" # None
    BY LaunchAssumption DEF None
  <2>8. CASE w.at \in Dirs
    BY <2>4, <2>5, <2>7, <2>8 DEF Program, p
  <2>9. CASE w.at = "rel"
    <3>1. v.at = p.cwd
      BY <2>1, <2>5, <2>6, <2>7, <2>9 DEF w
    <3> QED  BY <2>4, <2>5, <2>7, <2>9, <3>1 DEF Program, p
  <2>10. CASE w.at = None
    <3>1. IsPrefix(own.env.PATH, p.env.PATH) /\ Lookup(own.env.PATH, w.name) # Missing
      BY <2>7, <2>10 DEF w, p
    <3>2. Lookup(p.env.PATH, w.name) = Lookup(own.env.PATH, w.name)
      BY <2>1, <2>5, <3>1, FoundAlong
    <3> QED  BY <2>4, <2>5, <2>7, <2>10, <3>2 DEF Program, p
  <2> QED  BY <2>3, <2>8, <2>9, <2>10 DEF Words
<1> QED  BY KeptInit, KeptStep, <1>1, PTL DEF Spec

(* With the arguments it had.                                              *)
THEOREM ArgumentsKeptAlways == Spec => []ArgumentsKept
<1>1. KeptInv => ArgumentsKept
  <2> SUFFICES ASSUME KeptInv, NEW i \in DOMAIN services, Restarted(i), ~ReadAgain(i)
               PROVE  restarted[i].args = launched[i].process.args
    BY DEF ArgumentsKept
  <2>1. EntryOf(services[i], launched[i], own.cwd) /\ launched[i].process # Failed
    BY DEF KeptInv, Restarted
  <2>2. CASE mode = "script"
    BY <2>1, <2>2, RestartReads DEF EntryOf, AsReported
  <2>3. CASE mode # "script"
    <3> DEFINE a == services[i].args
               p == launched[i].process
               r == handle_redirection(a, p.cwd)
               q == handle_redirection(a, own.cwd)
    <3>1. /\ a \in Seq(Words) /\ a # <<>> /\ a[1].op = None
          /\ p.cwd \in Dirs /\ own.cwd \in Dirs /\ Tail(r.args) = p.args
      BY <2>1, <2>3 DEF EntryOf, SameProgram, AsTyped, KeptInv, ContextOK, Contexts
    <3>2. restarted[i].args = Tail(q.args)
      BY RestartReads
    <3> HIDE DEF a, p
    <3>3. Alike(r, q, a[1], a[1], p.cwd = own.cwd)
      BY <3>1, ReadAlike DEF IsOperator
    <3> HIDE DEF r, q
    <3>4. r.args = q.args
      BY <3>3 DEF Alike
    <3> QED  BY <3>1, <3>2, <3>4 DEF p
  <2> QED  BY <2>2, <2>3
<1> QED  BY KeptInit, KeptStep, <1>1, PTL DEF Spec

(* And its streams where they went, if the files are named alike.          *)
THEOREM StreamsKeptAlways == Spec => []StreamsKept
<1>1. KeptInv => StreamsKept
  <2> SUFFICES ASSUME KeptInv, NEW i \in DOMAIN services, NEW st \in StreamNames,
                      Restarted(i), ~ReadAgain(i),
                      LET line == launched[i].line
                          was == launched[i].process.streams[st]
                      IN  IF mode = "script" THEN \A k \in DOMAIN line : ~IsOperator(line[k])
                          ELSE SameDirectory(i) \/ was = Parents \/ was.absolute
               PROVE  restarted[i].streams[st] = launched[i].process.streams[st]
    BY DEF StreamsKept, StreamNames
  <2>1. EntryOf(services[i], launched[i], own.cwd) /\ launched[i].process # Failed
    BY DEF KeptInv, Restarted
  <2>2. CASE mode = "script"
    BY <2>1, <2>2, RestartReads DEF EntryOf, AsReported, NoOperator
  <2>3. CASE mode # "script"
    <3> DEFINE a == services[i].args
               p == launched[i].process
               r == handle_redirection(a, p.cwd)
               q == handle_redirection(a, own.cwd)
    <3>1. /\ a \in Seq(Words) /\ a # <<>> /\ a[1].op = None
          /\ p.cwd \in Dirs /\ own.cwd \in Dirs /\ r.streams = p.streams
      BY <2>1, <2>3 DEF EntryOf, SameProgram, AsTyped, KeptInv, ContextOK, Contexts
    <3>2. restarted[i].streams = q.streams
      BY RestartReads
    <3>3. p.cwd = own.cwd \/ p.streams[st] = Parents \/ p.streams[st].absolute
      BY <2>3 DEF SameDirectory
    <3> HIDE DEF a, p
    <3>4. Alike(r, q, a[1], a[1], p.cwd = own.cwd)
      BY <3>1, ReadAlike DEF IsOperator
    <3> HIDE DEF r, q
    <3>5. r.streams[st] = q.streams[st]
      BY <3>1, <3>3, <3>4 DEF Alike, SameStream
    <3> QED  BY <3>1, <3>2, <3>5 DEF p
  <2> QED  BY <2>2, <2>3
<1> QED  BY KeptInit, KeptStep, <1>1, PTL DEF Spec

-----------------------------------------------------------------------------
(* From the boot on, UsagiInit's own directory is the first of its PATH.   *)
OwnFirst ==
  mode = "script" /\ phase # "boot" =>
    own.env.PATH # <<>> /\ own.env.PATH[1] = Self
PathInv == ContextOK /\ OwnFirst

(* UsagiInit begins before its boot.                                       *)
LEMMA PathInit == Init => PathInv
BY ContextInit DEF Init, PathInv, OwnFirst

(* Only main changes the PATH of a UsagiInit that runs a script.           *)
LEMMA PathStep == PathInv /\ [Next]_vars => PathInv'
<1> SUFFICES ASSUME PathInv, [Next]_vars PROVE PathInv'
  OBVIOUS
<1>1. ContextOK'
  BY ContextStep DEF PathInv
<1>2. CASE Boot
  <2>1. own.env.PATH \in Seq(Dirs) /\ own \in Contexts
    BY DEF PathInv, ContextOK, Contexts, Environments
  <2>2. LET path == <<Self>> \o own.env.PATH IN path # <<>> /\ path[1] = Self
    BY <2>1
  <2>3. mode = "script" => own'.env.PATH = <<Self>> \o own.env.PATH
    BY <1>2, <2>1 DEF Boot, prepend_self_to_path, Contexts, Environments
  <2> QED  BY <1>1, <1>2, <2>2, <2>3 DEF Boot, PathInv, OwnFirst
<1>3. CASE Reinitialize
  BY <1>1, <1>3 DEF Reinitialize, PathInv, OwnFirst
<1>4. CASE \/ EndShell \/ Finished \/ UNCHANGED vars
           \/ \E line \in Lines : Launch(line) \/ RunInBackground(line)
           \/ \E i \in DOMAIN services : do_restart(i)
  <2>1. UNCHANGED <<mode, own>> /\ (phase' = phase \/ phase = "shell")
    BY <1>4 DEF EndShell, Finished, Launch, RunInBackground, do_restart, vars
  <2> QED  BY <1>1, <2>1 DEF PathInv, OwnFirst
<1>5. CASE \/ \E d \in Dirs : Cd(d) \/ ExportPath(d)
           \/ \E v \in Values : ExportV(v)
  <2>1. UNCHANGED <<mode, phase>> /\ (mode = "script" => own' = own)
    BY <1>5 DEF Cd, ExportPath, ExportV, Command, ShellIs
  <2> QED  BY <1>1, <2>1 DEF PathInv, OwnFirst
<1> QED  BY <1>2, <1>3, <1>4, <1>5 DEF Next

(* execvp finds in the first directory of PATH what is installed there.    *)
LEMMA FoundFirst ==
  ASSUME NEW path \in Seq(Dirs), path # <<>>, NEW name,
         <<path[1], name>> \in Installed
  PROVE  Lookup(path, name) = <<path[1], name>>
<1> DEFINE hits == {i \in DOMAIN path : <<path[i], name>> \in Installed}
<1>1. 1 \in hits /\ hits \subseteq Nat /\ \A i \in hits : 1 <= i
  OBVIOUS
<1> HIDE DEF hits
<1> DEFINE m == CHOOSE i \in hits : \A j \in hits : i <= j
<1>2. m \in hits /\ \A j \in hits : m <= j
  BY <1>1
<1> HIDE DEF m
<1>3. m = 1
  BY <1>1, <1>2
<1> QED  BY <1>1, <1>3 DEF Lookup, hits, m

(* The helper that sh finds is the one installed beside UsagiInit, in      *)
(* every boot, if the script only appends to the PATH it was given.        *)
THEOREM HelperFoundAlways == Spec => HelperFound
<1>1. PathInv /\ [Next]_vars =>
        [~missed /\ missed' => ~IsPrefix(own.env.PATH, sh.env.PATH)]_vars
  <2> SUFFICES ASSUME PathInv, Next, ~missed, missed',
                      IsPrefix(own.env.PATH, sh.env.PATH)
               PROVE  FALSE
    OBVIOUS
  <2>1. \E line \in Lines : Launch(line)
    BY DEF Next, Boot, EndShell, Reinitialize, Finished, Cd, ExportPath, ExportV,
           Command, RunInBackground, do_restart, vars
  <2>2. /\ phase = "shell" /\ mode = "script"
        /\ Lookup(sh.env.PATH, "usagi-reg") # <<Self, "usagi-reg">>
    BY <2>1 DEF Launch
  <2> DEFINE op == own.env.PATH
             sp == sh.env.PATH
  <2>3. /\ op \in Seq(Dirs) /\ sp \in Seq(Dirs) /\ op # <<>> /\ op[1] = Self
        /\ Len(op) <= Len(sp) /\ SubSeq(op, 1, Len(op)) = SubSeq(sp, 1, Len(op))
    BY <2>2 DEF PathInv, ContextOK, Contexts, Environments, OwnFirst, IsPrefix
  <2> HIDE DEF op, sp
  <2>4. sp # <<>> /\ sp[1] = op[1]
    BY <2>3
  <2> QED
    BY <2>2, <2>3, <2>4, FoundFirst, LaunchAssumption DEF sp
<1> QED  BY PathInit, PathStep, <1>1, PTL DEF Spec, HelperFound
=============================================================================
