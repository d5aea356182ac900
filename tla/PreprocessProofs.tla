--------------------------- MODULE PreprocessProofs ---------------------------
(***************************************************************************)
(* Theorems about module Preprocess, for every script and every size of the*)
(* buffer: what preprocess joins and what transform_line turns into a      *)
(* service.  The scans are recursive functions on the positions of a line; *)
(* an induction along the line (Closed, Along) says what they return.      *)
(***************************************************************************)
EXTENDS Preprocess, FiniteSetTheorems, SequenceTheorems, WellFoundedInduction,
        TLAPS

(* A set of numbers has a least one.                                       *)
LEMMA Least ==
  ASSUME NEW S, S \subseteq Nat, S # {}
  PROVE  \E m \in S : \A k \in S : m <= k
<1>1. PICK m \in S : \A k \in S : ~(<<k, m>> \in OpToRel(<, Nat))
  BY WFMin, NatLessThanWellFounded
<1>2. ASSUME NEW k \in S
      PROVE  m <= k
  <2> DEFINE p == <<k, m>>
  <2>1. p \in Nat \X Nat
    OBVIOUS
  <2>2. ~(p[1] < p[2])
    BY <1>1, <2>1 DEF OpToRel
  <2> QED  BY <2>2
<1> QED  BY <1>2

(* Induction: a set of numbers that is closed under successor has them     *)
(* all, since the least one outside it would have a predecessor.           *)
LEMMA Closed ==
  ASSUME NEW T, 0 \in T, \A m \in Nat : m \in T => m + 1 \in T
  PROVE  Nat \subseteq T
<1>1. SUFFICES ASSUME Nat \ T # {} PROVE FALSE
  OBVIOUS
<1>2. PICK m \in Nat \ T : \A k \in Nat \ T : m <= k
  BY <1>1, Least
<1>3. m # 0 /\ m - 1 \in Nat /\ ~(m <= m - 1)
  OBVIOUS
<1>4. m - 1 \in T
  BY <1>2, <1>3
<1> QED  BY <1>3, <1>4

(* From a to b: the form in which the loops over a line need it.           *)
LEMMA Along ==
  ASSUME NEW a \in Nat, NEW b \in Nat, NEW T, a \in T,
         \A m \in a .. b - 1 : m \in T => m + 1 \in T
  PROVE  a .. b \subseteq T
<1> DEFINE U == {m \in Nat : a + m <= b => a + m \in T}
<1>1. 0 \in U
  OBVIOUS
<1>2. ASSUME NEW m \in Nat, m \in U
      PROVE  m + 1 \in U
  <2> SUFFICES ASSUME a + (m + 1) <= b PROVE a + (m + 1) \in T
    OBVIOUS
  <2>1. a + m \in a .. b - 1 /\ a + m \in T /\ (a + m) + 1 = a + (m + 1)
    BY <1>2
  <2> QED  BY <2>1
<1> HIDE DEF U
<1>3. Nat \subseteq U
  BY <1>1, <1>2, Closed
<1>4. ASSUME NEW k \in a .. b
      PROVE  k \in T
  <2>1. k - a \in U /\ a + (k - a) = k /\ k <= b
    BY <1>3
  <2> QED  BY <2>1 DEF U
<1> QED  BY <1>4

(* A loop that makes each of its states from the one before has a run.     *)
Runs(g, N, base, h) == g[0] = base /\ \A n \in 1 .. N : g[n] = h[<<g[n - 1], n>>]

(* Such a run exists, for as many turns as there are characters.           *)
LEMMA Loop ==
  ASSUME NEW N \in Nat, NEW R, NEW base \in R, NEW h \in [R \X (1 .. N) -> R]
  PROVE  \E g \in [0 .. N -> R] : Runs(g, N, base, h)
<1> DEFINE Run(g, n) == Runs(g, n, base, h)
           T == {n \in Nat : n <= N => \E g \in [0 .. n -> R] : Run(g, n)}
<1>1. 0 \in T
  <2> DEFINE g == [i \in 0 .. 0 |-> base]
  <2>1. g \in [0 .. 0 -> R] /\ Run(g, 0)
    BY DEF Runs
  <2> HIDE DEF g, Run
  <2> QED  BY <2>1
<1>2. ASSUME NEW m \in Nat, m \in T
      PROVE  m + 1 \in T
  <2> SUFFICES ASSUME m + 1 <= N PROVE \E g \in [0 .. m + 1 -> R] : Run(g, m + 1)
    OBVIOUS
  <2>1. PICK f \in [0 .. m -> R] : Run(f, m)
    BY <1>2
  <2> DEFINE g == [i \in 0 .. m + 1 |-> IF i <= m THEN f[i] ELSE h[<<f[m], m + 1>>]]
  <2>2. h[<<f[m], m + 1>>] \in R
    <3>1. f[m] \in R /\ m + 1 \in 1 .. N
      OBVIOUS
    <3> QED  BY <3>1
  <2>3. g \in [0 .. m + 1 -> R]
    BY <2>2
  <2>4. g[0] = base
    BY <2>1 DEF Runs
  <2>5. ASSUME NEW i \in 1 .. m + 1
        PROVE  g[i] = h[<<g[i - 1], i>>]
    <3>1. CASE i <= m
      <4>1. i \in 1 .. m /\ g[i] = f[i] /\ g[i - 1] = f[i - 1]
        BY <3>1
      <4> HIDE DEF g
      <4> QED  BY <2>1, <4>1 DEF Runs
    <3>2. CASE i = m + 1
      <4>1. g[i - 1] = f[m] /\ g[i] = h[<<f[m], m + 1>>]
        BY <3>2
      <4> HIDE DEF g
      <4> QED  BY <3>2, <4>1
    <3> QED  BY <3>1, <3>2
  <2> HIDE DEF g
  <2>6. Run(g, m + 1)
    BY <2>4, <2>5 DEF Runs
  <2> QED  BY <2>3, <2>6
<1> HIDE DEF T
<1>3. N \in T
  BY <1>1, <1>2, Closed
<1> QED  BY <1>3 DEF T

(* The last position at which something holds.                             *)
LEMMA LargestIs ==
  ASSUME NEW n \in Nat, NEW S \in SUBSET (1 .. n)
  PROVE  /\ Largest(S) \in 0 .. n
         /\ S = {} => Largest(S) = 0
         /\ S # {} => Largest(S) \in S
         /\ \A i \in S : i <= Largest(S)
<1>1. S \subseteq Nat /\ \A i \in S : i \in Nat /\ n - i \in Nat /\ i <= n
  OBVIOUS
<1>2. CASE S = {}
  BY <1>2 DEF Largest
<1>3. CASE S # {}
  <2> DEFINE D == {n - i : i \in S}
  <2>1. D # {} /\ D \subseteq Nat
    BY <1>1, <1>3
  <2> HIDE DEF D
  <2>2. PICK d \in D : \A e \in D : d <= e
    BY <2>1, Least
  <2>3. PICK i \in S : d = n - i
    BY DEF D
  <2>4. ASSUME NEW j \in S PROVE j <= i
    <3>1. n - j \in D
      BY DEF D
    <3>2. n - i <= n - j
      BY <2>2, <2>3, <3>1
    <3> QED  BY <1>1, <3>2
  <2>5. Largest(S) \in S /\ \A j \in S : j <= Largest(S)
    BY <1>3, <2>4 DEF Largest
  <2> DEFINE l == Largest(S)
  <2> HIDE DEF l
  <2>6. l \in 0 .. n
    <3>1. l \in S
      BY <2>5 DEF l
    <3> QED  BY <1>1, <3>1
  <2> QED  BY <1>3, <2>5, <2>6 DEF l
<1> QED  BY <1>2, <1>3

-----------------------------------------------------------------------------
(* The scanning loops, one character after the other.                      *)
Quotes == {None, "'", "quote", "#"}
Modes == [quote : Quotes, escaped : BOOLEAN]
ShModes == [quote : Quotes, escaped : BOOLEAN, inword : BOOLEAN]

(* A scan stays among its modes, whatever the character.                   *)
LEMMA AfterTyped ==
  ASSUME NEW m \in Modes, NEW c \in Characters, NEW e \in BOOLEAN, NEW k \in BOOLEAN
  PROVE  After(m, c, e, k) \in Modes
BY DEF After, Modes, Quotes, Plain, Characters

(* And so does sh's.                                                       *)
LEMMA ShAfterTyped ==
  ASSUME NEW m \in ShModes, NEW c \in Characters
  PROVE  ShAfter(m, c) \in ShModes
BY DEF ShAfter, ShModes, Quotes, ShPlain, Characters

(* The loop of preprocess.c's three scans: every state but the first is    *)
(* made from the one before and the character there.                       *)
LEMMA ScanRuns ==
  ASSUME NEW line \in Seq(Characters), NEW e \in BOOLEAN, NEW k \in BOOLEAN
  PROVE  LET m == Scan(line, e, k)
         IN  /\ m \in [1 .. Len(line) + 1 -> Modes] /\ m[1] = Plain
             /\ \A i \in 1 .. Len(line) : m[i + 1] = After(m[i], line[i], e, k)
<1> DEFINE N == Len(line)
           h == [x \in Modes \X (1 .. N) |-> After(x[1], line[x[2]], e, k)]
<1>1. N \in Nat /\ \A i \in 1 .. N : line[i] \in Characters
  OBVIOUS
<1>2. Plain \in Modes
  BY DEF Plain, Modes, Quotes
<1>3. h \in [Modes \X (1 .. N) -> Modes]
  BY <1>1, AfterTyped
<1>4. \A m \in Modes, i \in 1 .. N : h[<<m, i>>] = After(m, line[i], e, k)
  OBVIOUS
<1> HIDE DEF h, N
<1>5. PICK g \in [0 .. N -> Modes] : Runs(g, N, Plain, h)
  BY <1>1, <1>2, <1>3, Loop
<1> DEFINE Step(f) == [i \in 1 .. N + 1 |->
                         IF i = 1 THEN Plain ELSE After(f[i - 1], line[i - 1], e, k)]
           scan == CHOOSE f : f = Step(f)
           f0 == [i \in 1 .. N + 1 |-> g[i - 1]]
<1>6. Scan(line, e, k) = scan
  BY DEF Scan, N
<1>7. f0 = Step(f0)
  <2>1. ASSUME NEW i \in 1 .. N + 1
        PROVE  f0[i] = IF i = 1 THEN Plain ELSE After(f0[i - 1], line[i - 1], e, k)
    <3>1. CASE i = 1
      BY <1>1, <1>5, <3>1 DEF Runs
    <3>2. CASE i # 1
      <4>1. i - 1 \in 1 .. N /\ i - 1 \in 1 .. N + 1 /\ (i - 1) - 1 \in 0 .. N
        BY <1>1, <3>2
      <4>2. g[i - 1] = After(g[(i - 1) - 1], line[i - 1], e, k)
        <5>1. (i - 1) - 1 \in 0 .. N /\ g[(i - 1) - 1] \in Modes
          BY <4>1
        <5> QED  BY <1>4, <1>5, <4>1, <5>1 DEF Runs
      <4> QED  BY <3>2, <4>1, <4>2
    <3> QED  BY <3>1, <3>2
  <2> QED  BY <2>1
<1> HIDE DEF f0
<1>8. scan = Step(scan)
  BY <1>7
<1> HIDE DEF scan
<1> DEFINE T == {i \in Nat : i \in 1 .. N + 1 => scan[i] \in Modes}
<1>9. scan[1] = Plain /\ \A i \in 1 .. N : scan[i + 1] = After(scan[i], line[i], e, k)
  <2>1. scan[1] = Plain
    BY <1>1, <1>8
  <2>2. ASSUME NEW i \in 1 .. N
        PROVE  scan[i + 1] = After(scan[i], line[i], e, k)
    <3>1. i + 1 \in 1 .. N + 1 /\ i + 1 # 1 /\ (i + 1) - 1 = i
      BY <1>1
    <3>2. scan[i + 1] = Step(scan)[i + 1]
      BY <1>8
    <3> QED  BY <3>1, <3>2
  <2> QED  BY <2>1, <2>2
<1>10. 1 .. N + 1 \subseteq T
  <2>1. 1 \in T
    BY <1>2, <1>9
  <2>2. ASSUME NEW i \in 1 .. (N + 1) - 1, i \in T
        PROVE  i + 1 \in T
    <3>1. i \in 1 .. N /\ i \in 1 .. N + 1
      BY <1>1
    <3>2. scan[i] \in Modes /\ line[i] \in Characters
      BY <1>1, <2>2, <3>1
    <3>3. scan[i + 1] \in Modes
      BY <1>9, <3>1, <3>2, AfterTyped
    <3> QED  BY <1>1, <3>1, <3>3
  <2> HIDE DEF T
  <2>3. N + 1 \in Nat
    BY <1>1
  <2> QED  BY <2>1, <2>2, <2>3, Along
<1>11. scan \in [1 .. N + 1 -> Modes]
  <2>1. scan = [i \in 1 .. N + 1 |-> scan[i]]
    BY <1>8
  <2> QED  BY <1>10, <2>1
<1> QED  BY <1>6, <1>9, <1>11 DEF N

(* The same of sh's reading.                                               *)
LEMMA ShScanRuns ==
  ASSUME NEW line \in Seq(Characters)
  PROVE  LET m == ShScan(line)
         IN  /\ m \in [1 .. Len(line) + 1 -> ShModes] /\ m[1] = ShPlain
             /\ \A i \in 1 .. Len(line) : m[i + 1] = ShAfter(m[i], line[i])
<1> DEFINE N == Len(line)
           h == [x \in ShModes \X (1 .. N) |-> ShAfter(x[1], line[x[2]])]
<1>1. N \in Nat /\ \A i \in 1 .. N : line[i] \in Characters
  OBVIOUS
<1>2. ShPlain \in ShModes
  BY DEF ShPlain, ShModes, Quotes
<1>3. h \in [ShModes \X (1 .. N) -> ShModes]
  BY <1>1, ShAfterTyped
<1>4. \A m \in ShModes, i \in 1 .. N : h[<<m, i>>] = ShAfter(m, line[i])
  OBVIOUS
<1> HIDE DEF h, N
<1>5. PICK g \in [0 .. N -> ShModes] : Runs(g, N, ShPlain, h)
  BY <1>1, <1>2, <1>3, Loop
<1> DEFINE Step(f) == [i \in 1 .. N + 1 |->
                         IF i = 1 THEN ShPlain ELSE ShAfter(f[i - 1], line[i - 1])]
           scan == CHOOSE f : f = Step(f)
           f0 == [i \in 1 .. N + 1 |-> g[i - 1]]
<1>6. ShScan(line) = scan
  BY DEF ShScan, N
<1>7. f0 = Step(f0)
  <2>1. ASSUME NEW i \in 1 .. N + 1
        PROVE  f0[i] = IF i = 1 THEN ShPlain ELSE ShAfter(f0[i - 1], line[i - 1])
    <3>1. CASE i = 1
      BY <1>1, <1>5, <3>1 DEF Runs
    <3>2. CASE i # 1
      <4>1. i - 1 \in 1 .. N /\ i - 1 \in 1 .. N + 1 /\ (i - 1) - 1 \in 0 .. N
        BY <1>1, <3>2
      <4>2. g[i - 1] = ShAfter(g[(i - 1) - 1], line[i - 1])
        <5>1. (i - 1) - 1 \in 0 .. N /\ g[(i - 1) - 1] \in ShModes
          BY <4>1
        <5> QED  BY <1>4, <1>5, <4>1, <5>1 DEF Runs
      <4> QED  BY <3>2, <4>1, <4>2
    <3> QED  BY <3>1, <3>2
  <2> QED  BY <2>1
<1> HIDE DEF f0
<1>8. scan = Step(scan)
  BY <1>7
<1> HIDE DEF scan
<1> DEFINE T == {i \in Nat : i \in 1 .. N + 1 => scan[i] \in ShModes}
<1>9. scan[1] = ShPlain /\ \A i \in 1 .. N : scan[i + 1] = ShAfter(scan[i], line[i])
  <2>1. scan[1] = ShPlain
    BY <1>1, <1>8
  <2>2. ASSUME NEW i \in 1 .. N
        PROVE  scan[i + 1] = ShAfter(scan[i], line[i])
    <3>1. i + 1 \in 1 .. N + 1 /\ i + 1 # 1 /\ (i + 1) - 1 = i
      BY <1>1
    <3>2. scan[i + 1] = Step(scan)[i + 1]
      BY <1>8
    <3> QED  BY <3>1, <3>2
  <2> QED  BY <2>1, <2>2
<1>10. 1 .. N + 1 \subseteq T
  <2>1. 1 \in T
    BY <1>2, <1>9
  <2>2. ASSUME NEW i \in 1 .. (N + 1) - 1, i \in T
        PROVE  i + 1 \in T
    <3>1. i \in 1 .. N /\ i \in 1 .. N + 1
      BY <1>1
    <3>2. scan[i] \in ShModes /\ line[i] \in Characters
      BY <1>1, <2>2, <3>1
    <3>3. scan[i + 1] \in ShModes
      BY <1>9, <3>1, <3>2, ShAfterTyped
    <3> QED  BY <1>1, <3>1, <3>3
  <2> HIDE DEF T
  <2>3. N + 1 \in Nat
    BY <1>1
  <2> QED  BY <2>1, <2>2, <2>3, Along
<1>11. scan \in [1 .. N + 1 -> ShModes]
  <2>1. scan = [i \in 1 .. N + 1 |-> scan[i]]
    BY <1>8
  <2> QED  BY <1>10, <2>1
<1> QED  BY <1>6, <1>9, <1>11 DEF N

-----------------------------------------------------------------------------
(* Where sh and the preprocessor read alike they stand in the same quote.  *)
Same(m, s) == /\ m.quote = s.quote /\ m.escaped = s.escaped
              /\ m.escaped => m.quote = "quote"

(* The next character keeps it so, unless only one of the two reads it as  *)
(* something special.                                                      *)
LEMMA SameAfter ==
  ASSUME NEW m \in Modes, NEW s \in ShModes, NEW c \in Characters, Same(m, s),
         c # "\n", s.quote = None => c # "\\" /\ (c = "#" => ~s.inword)
  PROVE  Same(After(m, c, FALSE, TRUE), ShAfter(s, c))
BY DEF Same, After, ShAfter, Modes, ShModes, Quotes, Characters, Plain, None

OneLine(line) == \A i \in 1 .. Len(line) - 1 : line[i] # "\n"

(* So they stand in the same quote all along a line that is read alike.    *)
LEMMA SameModes ==
  ASSUME NEW line \in Seq(Characters), OneLine(line), ReadAlike(line),
         NEW i \in 1 .. Len(line) + 1, i > 1 => line[i - 1] # "\n"
  PROVE  Same(Scan(line, FALSE, TRUE)[i], ShScan(line)[i])
<1> DEFINE N == Len(line)
           m == Scan(line, FALSE, TRUE)
           s == ShScan(line)
           T == {j \in Nat : (j > 1 => line[j - 1] # "\n") => Same(m[j], s[j])}
<1>1. N \in Nat /\ \A j \in 1 .. N : line[j] \in Characters
  OBVIOUS
<1>2. /\ \A j \in 1 .. N + 1 : m[j] \in Modes
      /\ \A j \in 1 .. N : m[j + 1] = After(m[j], line[j], FALSE, TRUE)
      /\ m[1] = Plain
  BY ScanRuns
<1>3. /\ \A j \in 1 .. N + 1 : s[j] \in ShModes
      /\ \A j \in 1 .. N : s[j + 1] = ShAfter(s[j], line[j])
      /\ s[1] = ShPlain
  BY ShScanRuns
<1>4. \A j \in 1 .. N : s[j].quote = None =>
        line[j] # "\\" /\ (line[j] = "#" => ~s[j].inword)
  BY DEF ReadAlike
<1>5. \A j \in 1 .. N - 1 : line[j] # "\n"
  BY DEF OneLine
<1> HIDE DEF m, s, N
<1>6. 1 \in T
  <2>1. Same(m[1], s[1])
    BY <1>2, <1>3 DEF Same, Plain, ShPlain
  <2> QED  BY <2>1
<1>7. ASSUME NEW j \in 1 .. (N + 1) - 1, j \in T
      PROVE  j + 1 \in T
  <2> SUFFICES ASSUME line[(j + 1) - 1] # "\n" PROVE Same(m[j + 1], s[j + 1])
    OBVIOUS
  <2>1. j \in 1 .. N /\ j \in 1 .. N + 1 /\ (j + 1) - 1 = j
    BY <1>1
  <2>2. j > 1 => line[j - 1] # "\n"
    BY <1>1, <1>5, <2>1
  <2>3. Same(m[j], s[j])
    BY <1>7, <2>2
  <2>4. /\ m[j] \in Modes /\ s[j] \in ShModes /\ line[j] \in Characters
        /\ line[j] # "\n"
        /\ s[j].quote = None => line[j] # "\\" /\ (line[j] = "#" => ~s[j].inword)
        /\ m[j + 1] = After(m[j], line[j], FALSE, TRUE)
        /\ s[j + 1] = ShAfter(s[j], line[j])
    BY <1>1, <1>2, <1>3, <1>4, <2>1
  <2> QED  BY <2>3, <2>4, SameAfter
<1> HIDE DEF T
<1>8. i \in T
  <2>1. N + 1 \in Nat /\ i \in 1 .. N + 1
    BY <1>1 DEF N
  <2> QED  BY <1>6, <1>7, <2>1, Along
<1> QED  BY <1>8 DEF T, m, s

(* A comment lasts to the end of the line.                                 *)
LEMMA CommentStays ==
  ASSUME NEW line \in Seq(Characters), NEW e \in BOOLEAN, NEW k \in BOOLEAN,
         NEW i \in 1 .. Len(line) + 1, NEW j \in i .. Len(line) + 1,
         Scan(line, e, k)[i].quote = "#"
  PROVE  Scan(line, e, k)[j].quote = "#"
<1> DEFINE N == Len(line)
           m == Scan(line, e, k)
           T == {n \in Nat : n \in 1 .. N + 1 => m[n].quote = "#"}
<1>0. N \in Nat /\ \A n \in 1 .. N : line[n] \in Characters
  OBVIOUS
<1>1. /\ \A n \in 1 .. N + 1 : m[n] \in Modes
      /\ \A n \in 1 .. N : m[n + 1] = After(m[n], line[n], e, k)
  BY ScanRuns
<1> HIDE DEF m, N
<1>2. i \in T
  BY DEF m, T
<1>3. ASSUME NEW n \in i .. (N + 1) - 1, n \in T
      PROVE  n + 1 \in T
  <2>1. n \in 1 .. N /\ n \in 1 .. N + 1
    BY <1>0
  <2>2. /\ m[n] \in Modes /\ m[n].quote = "#" /\ line[n] \in Characters
        /\ m[n + 1] = After(m[n], line[n], e, k)
    BY <1>0, <1>1, <1>3, <2>1
  <2>3. m[n + 1].quote = "#"
    BY <2>2 DEF After, Modes, Characters, None
  <2> QED  BY <2>1, <2>3
<1> HIDE DEF T
<1>4. j \in T
  <2>1. i \in Nat /\ N + 1 \in Nat /\ j \in i .. N + 1
    BY <1>0 DEF N
  <2> QED  BY <1>2, <1>3, <2>1, Along
<1> QED  BY <1>4 DEF T, m, N

(* What find_content_end looks for.                                        *)
Content(line, i) ==
  LET m == Scan(line, FALSE, TRUE)
  IN  /\ m[i].quote # "#"
      /\ m[i].quote = None => line[i] \notin {"blank", "\n", "#"}

(* find_content_end returns the last such position, or 0 if there is none. *)
LEMMA ContentEnd ==
  ASSUME NEW line \in Seq(Characters)
  PROVE  LET last == find_content_end(line)
         IN  /\ last \in 0 .. Len(line)
             /\ last > 0 => Content(line, last)
             /\ \A i \in 1 .. Len(line) : Content(line, i) => i <= last
<1> DEFINE N == Len(line)
           S == {i \in 1 .. N : Content(line, i)}
           last == find_content_end(line)
<1>1. N \in Nat /\ DOMAIN line = 1 .. N
  OBVIOUS
<1>2. last = Largest(S)
  BY <1>1 DEF find_content_end, Content
<1>3. S \in SUBSET (1 .. N)
  OBVIOUS
<1> HIDE DEF last, N
<1>4. /\ last \in 0 .. N
      /\ S = {} => last = 0
      /\ S # {} => last \in S
      /\ \A i \in S : i <= last
  BY <1>1, <1>2, <1>3, LargestIs
<1>5. last > 0 => Content(line, last)
  BY <1>4
<1>6. \A i \in 1 .. N : Content(line, i) => i <= last
  BY <1>4
<1> QED  BY <1>4, <1>5, <1>6 DEF last, N

(* The command before the operator at `last'.                              *)
Ink(line, last) == {i \in 1 .. last - 1 : line[i] # "blank"}

(* The command that transform_line copies ends in a character that is not  *)
(* blank.                                                                  *)
LEMMA CommandEnd ==
  ASSUME NEW line \in Seq(Characters), NEW last \in 1 .. Len(line)
  PROVE  LET k == Largest(Ink(line, last))
         IN  /\ k \in 0 .. last - 1
             /\ k > 0 => line[k] # "blank"
             /\ \A i \in k + 1 .. last - 1 : line[i] = "blank"
             /\ (\E i \in 1 .. last - 1 : line[i] # "blank") => k > 0
<1> DEFINE S == Ink(line, last)
           k == Largest(S)
<1>1. last - 1 \in Nat /\ S \in SUBSET (1 .. last - 1)
  BY DEF Ink
<1> HIDE DEF S, k
<1>2. /\ k \in 0 .. last - 1
      /\ S = {} => k = 0
      /\ S # {} => k \in S
      /\ \A i \in S : i <= k
  BY <1>1, LargestIs DEF k
<1>3. k > 0 => line[k] # "blank"
  BY <1>2 DEF S, Ink
<1>4. ASSUME NEW i \in k + 1 .. last - 1
      PROVE  line[i] = "blank"
  <2>1. i \in 1 .. last - 1 /\ ~(i <= k)
    BY <1>1, <1>2
  <2> QED  BY <1>2, <2>1 DEF S, Ink
<1>5. ASSUME NEW i \in 1 .. last - 1, line[i] # "blank"
      PROVE  k > 0
  <2>1. i \in S
    BY <1>5 DEF S, Ink
  <2> QED  BY <1>2, <2>1
<1> QED  BY <1>2, <1>3, <1>4, <1>5 DEF S, k

(* What transform_line makes of a line.                                    *)
IsService(line, last) ==
  /\ last > 0 /\ line[last] = "&"
  /\ last = 1 \/ line[last - 1] # "&"
  /\ \A i \in 1 .. last - 1 :
       Scan(line, FALSE, TRUE)[i].quote = None /\ line[i] = "&" =>
         i + 1 < last /\ line[i + 1] = "0"

(* How much of the line transform_line copies behind usagi-reg.            *)
LEMMA Transformed ==
  ASSUME NEW line \in Seq(Characters)
  PROVE  LET last == find_content_end(line)
         IN  /\ transform_line(line).line = line
             /\ transform_line(line).command =
                  IF IsService(line, last) THEN Largest(Ink(line, last)) ELSE 0
<1>1. \A last : (~has_amp_before(line, last)) <=>
        \A i \in 1 .. last - 1 :
          Scan(line, FALSE, TRUE)[i].quote = None /\ line[i] = "&" =>
            i + 1 < last /\ line[i + 1] = "0"
  BY DEF has_amp_before
<1>2. LET last == find_content_end(line)
      IN  IsService(line, last) <=>
            /\ last > 0 /\ line[last] = "&"
            /\ last = 1 \/ line[last - 1] # "&"
            /\ ~has_amp_before(line, last)
  BY <1>1 DEF IsService
<1>3. LET last == find_content_end(line)
      IN  Ink(line, last) = {i \in 1 .. last - 1 : line[i] # "blank"}
  BY DEF Ink
<1> QED  BY <1>2, <1>3 DEF transform_line

(* Where both read alike, what is no content is blank for sh, and the      *)
(* operators are the & of plain text.                                      *)
Plainly(line) == \A i \in 1 .. Len(line) :
  /\ ~Content(line, i) => IsBlank(line, i)
  /\ Content(line, i) /\ Scan(line, FALSE, TRUE)[i].quote = None => ~IsBlank(line, i)
  /\ i \in Amps(line) <=> /\ line[i] = "&" /\ Scan(line, FALSE, TRUE)[i].quote = None
                          /\ i = Len(line) \/ line[i + 1] # "0"

(* A line read alike is read plainly.                                      *)
LEMMA ReadPlainly ==
  ASSUME NEW line \in Seq(Characters), OneLine(line), ReadAlike(line)
  PROVE  Plainly(line)
<1> DEFINE N == Len(line)
           m == Scan(line, FALSE, TRUE)
           s == ShScan(line)
<1>1. N \in Nat /\ DOMAIN line = 1 .. N /\ \A j \in 1 .. N : line[j] \in Characters
  OBVIOUS
<1>2. \A j \in 1 .. N + 1 : m[j] \in Modes
  BY ScanRuns
<1>3. /\ \A j \in 1 .. N + 1 : s[j] \in ShModes
      /\ \A j \in 1 .. N : s[j + 1] = ShAfter(s[j], line[j])
  BY ShScanRuns
<1> SUFFICES ASSUME NEW i \in 1 .. N
             PROVE  /\ ~Content(line, i) => IsBlank(line, i)
                    /\ Content(line, i) /\ m[i].quote = None => ~IsBlank(line, i)
                    /\ i \in Amps(line) <=>
                         /\ line[i] = "&" /\ m[i].quote = None
                         /\ i = N \/ line[i + 1] # "0"
  BY DEF Plainly
<1>4. Same(m[i], s[i])
  <2>1. i \in 1 .. N + 1 /\ (i > 1 => line[i - 1] # "\n")
    BY <1>1 DEF OneLine
  <2> QED  BY <2>1, SameModes
<1>5. s[i].quote = None => line[i] # "\\" /\ (line[i] = "#" => ~s[i].inword)
  BY <1>1 DEF ReadAlike
<1>6. i \in Amps(line) <=> /\ line[i] = "&" /\ s[i].quote = None /\ ~s[i].escaped
                           /\ ~(i > 1 /\ line[i - 1] = ">" /\ ~s[i - 1].escaped)
  BY <1>1 DEF Amps, Operators, Redirects
<1>7. line[i] = "&" /\ s[i].quote = None /\ ~s[i].escaped =>
         (i > 1 /\ line[i - 1] = ">" /\ ~s[i - 1].escaped <=> i < N /\ line[i + 1] = "0")
  BY <1>1 DEF ReadAlike, Operators, Redirects
<1>8. i \in Amps(line) <=> /\ line[i] = "&" /\ s[i].quote = None /\ ~s[i].escaped
                           /\ i = N \/ line[i + 1] # "0"
  <2> HIDE DEF m, s, N
  <2> QED  BY <1>1, <1>6, <1>7
<1>9. /\ Content(line, i) <=>
           m[i].quote # "#" /\ (m[i].quote = None => line[i] \notin {"blank", "\n", "#"})
      /\ IsBlank(line, i) <=> line[i] \in {"blank", "\n"} \/ s[i + 1].quote = "#"
      /\ i \in Amps(line) <=> /\ line[i] = "&" /\ s[i].quote = None /\ ~s[i].escaped
                              /\ i = N \/ line[i + 1] # "0"
  BY <1>1, <1>8 DEF Content, IsBlank
<1>10. /\ m[i] \in Modes /\ s[i] \in ShModes /\ s[i + 1] = ShAfter(s[i], line[i])
       /\ line[i] \in Characters
  <2> HIDE DEF m, s, N
  <2>1. i \in 1 .. N /\ i \in 1 .. N + 1
    BY <1>1
  <2> QED  BY <1>1, <1>2, <1>3, <2>1
<1> HIDE DEF m, s, N
<1>11. ~s[i].escaped \/ s[i].quote = "quote"
  BY <1>4 DEF Same
<1>12. s[i].quote = "#" => line[i] = "\n" \/ s[i + 1].quote = "#"
  BY <1>10, <1>11 DEF ShAfter, ShModes, None
<1>13. s[i].quote = None /\ line[i] = "#" => s[i + 1].quote = "#"
  BY <1>5, <1>10, <1>11 DEF ShAfter, ShModes, None
<1>14. s[i].quote = None /\ line[i] # "#" => s[i + 1].quote # "#"
  BY <1>10, <1>11 DEF ShAfter, ShModes, None, Characters
<1> QED  BY <1>4, <1>9, <1>11, <1>12, <1>13, <1>14 DEF Same, None

(* The scan of a line from one character to the next.                      *)
LEMMA AmpKeepsQuote ==
  ASSUME NEW line \in Seq(Characters), NEW i \in 1 .. Len(line), line[i] = "&"
  PROVE  LET m == Scan(line, FALSE, TRUE) IN m[i + 1].quote = m[i].quote
<1> DEFINE m == Scan(line, FALSE, TRUE)
<1>1. Len(line) \in Nat /\ i \in 1 .. Len(line) + 1
  OBVIOUS
<1>2. m[i] \in Modes /\ m[i + 1] = After(m[i], line[i], FALSE, TRUE)
  BY <1>1, ScanRuns
<1> HIDE DEF m
<1>3. m[i + 1].quote = m[i].quote
  BY <1>2 DEF After, Modes, Plain, Quotes, None
<1> QED  BY <1>3 DEF m

(* A line that becomes a service: it has one operator, at its end.         *)
LEMMA ServiceEndsInAmp ==
  ASSUME NEW line \in Seq(Characters), OneLine(line), ReadAlike(line),
         NEW last, last = find_content_end(line), IsService(line, last),
         NEW k, k = Largest(Ink(line, last)), k > 0
  PROVE  /\ EndsInAmp(line)
         /\ ~IsBlank(line, k)
         /\ \A i \in k + 1 .. Len(line) : IsBlank(line, i) \/ Amps(line) = {i}
<1> DEFINE N == Len(line)
           m == Scan(line, FALSE, TRUE)
<1>1. N \in Nat /\ DOMAIN line = 1 .. N
  OBVIOUS
<1>2. /\ last \in 1 .. N /\ Content(line, last) /\ line[last] = "&"
      /\ \A i \in 1 .. N : Content(line, i) => i <= last
  BY <1>1, ContentEnd DEF IsService
<1>3. /\ k \in 0 .. last - 1 /\ line[k] # "blank"
      /\ \A i \in k + 1 .. last - 1 : line[i] = "blank"
  BY <1>2, CommandEnd
<1>4. Plainly(line)
  BY ReadPlainly
<1>5. \A i \in 1 .. N : Content(line, i) <=>
        m[i].quote # "#" /\ (m[i].quote = None => line[i] \notin {"blank", "\n", "#"})
  BY DEF Content
<1> HIDE DEF m, N
<1>6. m[last].quote = None
  <2> SUFFICES ASSUME m[last].quote # None PROVE FALSE
    OBVIOUS
  <2>1. m[last + 1].quote = m[last].quote /\ m[last].quote # "#"
    BY <1>2, <1>5, AmpKeepsQuote DEF m, N
  <2>2. CASE last < N
    <3>1. last + 1 \in 1 .. N /\ ~(last + 1 <= last)
      BY <1>1, <1>2, <2>2
    <3>2. Content(line, last + 1)
      BY <1>5, <2>1, <3>1
    <3> QED  BY <1>2, <3>1, <3>2
  <2>3. CASE last = N
    <3>1. N + 1 \in 1 .. Len(line) + 1 /\ line[(N + 1) - 1] # "\n"
      BY <1>1, <1>2, <2>3 DEF N
    <3>2. Same(m[N + 1], ShScan(line)[N + 1])
      BY <3>1, SameModes DEF m
    <3>3. ShScan(line)[N + 1].quote \in {None, "#"}
      BY DEF ReadAlike, N
    <3> QED  BY <2>1, <2>3, <3>2, <3>3 DEF Same
  <2> QED  BY <1>1, <1>2, <2>2, <2>3
<1>7. last = N \/ line[last + 1] # "0"
  <2> SUFFICES ASSUME last # N, line[last + 1] = "0" PROVE FALSE
    OBVIOUS
  <2>1. last + 1 \in 1 .. N /\ ~(last + 1 <= last)
    BY <1>1, <1>2
  <2>2. m[last + 1].quote = None
    BY <1>2, <1>6, AmpKeepsQuote DEF m, N
  <2>3. Content(line, last + 1)
    BY <1>5, <2>1, <2>2 DEF None
  <2> QED  BY <1>2, <2>1, <2>3
<1>8. Amps(line) = {last}
  <2>1. last \in Amps(line)
    BY <1>2, <1>4, <1>6, <1>7 DEF Plainly, m, N
  <2>2. ASSUME NEW j \in Amps(line) PROVE j = last
    <3>1. j \in 1 .. N
      BY <1>1 DEF Amps, Operators
    <3>2. /\ line[j] = "&" /\ m[j].quote = None
          /\ j = N \/ line[j + 1] # "0"
      BY <1>4, <2>2, <3>1 DEF Plainly, m, N
    <3>3. Content(line, j)
      BY <1>5, <3>1, <3>2 DEF None
    <3>4. j <= last
      BY <1>2, <3>1, <3>3
    <3>5. CASE j < last
      <4>1. j \in 1 .. last - 1 /\ j # N
        BY <1>1, <1>2, <3>1, <3>5
      <4>2. line[j + 1] = "0"
        BY <3>2, <4>1 DEF IsService, m
      <4> QED  BY <3>2, <4>1, <4>2
    <3> QED  BY <1>1, <1>2, <3>1, <3>4, <3>5
  <2> QED  BY <2>1, <2>2
<1>9. \A i \in last + 1 .. N : IsBlank(line, i)
  <2> SUFFICES ASSUME NEW i \in last + 1 .. N PROVE IsBlank(line, i)
    OBVIOUS
  <2>1. i \in 1 .. N /\ ~(i <= last)
    BY <1>1, <1>2
  <2> QED  BY <1>2, <1>4, <2>1 DEF Plainly, N
<1>10. k \in 1 .. N /\ ~IsBlank(line, k)
  <2>1. k \in 1 .. N /\ k + 1 \in 1 .. N + 1 /\ last \in k + 1 .. Len(line) + 1
    BY <1>1, <1>2, <1>3 DEF N
  <2>2. line[k] # "\n"
    BY <1>1, <1>2, <1>3 DEF OneLine, N
  <2>3. m[k + 1].quote # "#"
    <3>1. m[k + 1].quote = "#" => m[last].quote = "#"
      BY <2>1, CommentStays DEF m, N
    <3> QED  BY <1>6, <3>1 DEF None
  <2>4. Same(m[k + 1], ShScan(line)[k + 1])
    <3>1. k + 1 \in 1 .. Len(line) + 1 /\ line[(k + 1) - 1] # "\n"
      BY <1>3, <2>1, <2>2 DEF N
    <3> QED  BY <3>1, SameModes DEF m
  <2> QED  BY <1>3, <2>1, <2>2, <2>3, <2>4 DEF IsBlank, Same
<1>11. EndsInAmp(line)
  <2>1. k \in 1 .. last - 1
    BY <1>2, <1>3, <1>10
  <2> QED  BY <1>1, <1>2, <1>8, <1>9, <1>10, <2>1 DEF EndsInAmp, N
<1>12. ASSUME NEW i \in k + 1 .. N
       PROVE  IsBlank(line, i) \/ Amps(line) = {i}
  <2>1. CASE i < last
    <3>1. i \in k + 1 .. last - 1
      BY <1>1, <1>2, <1>3, <2>1
    <3> QED  BY <1>3, <3>1 DEF IsBlank
  <2>2. CASE i = last
    BY <1>8, <2>2
  <2>3. CASE i > last
    <3>1. i \in last + 1 .. N
      BY <1>1, <1>2, <1>3, <2>3
    <3> QED  BY <1>9, <3>1
  <2> QED  BY <1>1, <1>2, <1>3, <2>1, <2>2, <2>3
<1> QED  BY <1>10, <1>11, <1>12 DEF N

(* And a line with one operator, at its end, becomes one.                  *)
LEMMA EndsInAmpIsService ==
  ASSUME NEW line \in Seq(Characters), OneLine(line), ReadAlike(line),
         EndsInAmp(line), NEW last, last = find_content_end(line)
  PROVE  IsService(line, last) /\ Largest(Ink(line, last)) > 0
<1> DEFINE N == Len(line)
           m == Scan(line, FALSE, TRUE)
           s == ShScan(line)
<1>1. N \in Nat /\ DOMAIN line = 1 .. N
  OBVIOUS
<1>2. PICK b \in 1 .. N :
        /\ Amps(line) = {b}
        /\ \A i \in b + 1 .. N : IsBlank(line, i)
        /\ \E i \in 1 .. b - 1 : ~IsBlank(line, i)
  BY <1>1 DEF EndsInAmp
<1>3. Plainly(line)
  BY ReadPlainly
<1>4. \A i \in 1 .. N : Content(line, i) <=>
        m[i].quote # "#" /\ (m[i].quote = None => line[i] \notin {"blank", "\n", "#"})
  BY DEF Content
<1>5. /\ \A j \in 1 .. N + 1 : m[j] \in Modes
      /\ \A j \in 1 .. N : m[j + 1] = After(m[j], line[j], FALSE, TRUE)
  BY ScanRuns
<1>6. ASSUME NEW i \in 1 .. N
      PROVE  Same(m[i], s[i])
  <2>1. i \in 1 .. N + 1 /\ (i > 1 => line[i - 1] # "\n")
    BY <1>1, <1>6 DEF OneLine
  <2> QED  BY <2>1, SameModes
<1> HIDE DEF m, s, N
<1>7. /\ line[b] = "&" /\ m[b].quote = None /\ Content(line, b)
      /\ b = N \/ line[b + 1] # "0"
  <2>1. b \in Amps(line)
    BY <1>2
  <2>2. /\ line[b] = "&" /\ m[b].quote = None
        /\ b = N \/ line[b + 1] # "0"
    BY <1>2, <1>3, <2>1 DEF Plainly, m, N
  <2> QED  BY <1>2, <1>4, <2>2 DEF None
<1>8. ASSUME NEW j \in b + 1 .. N
      PROVE  m[j].quote \in {None, "#"}
  <2> DEFINE T == {n \in Nat : n \in 1 .. N => m[n].quote \in {None, "#"}}
  <2>1. b + 1 \in T
    <3>1. m[b + 1].quote = None
      BY <1>2, <1>7, AmpKeepsQuote DEF m, N
    <3>2. b + 1 \in Nat
      BY <1>2
    <3> QED  BY <3>1, <3>2
  <2>2. ASSUME NEW n \in b + 1 .. N - 1, n \in T
        PROVE  n + 1 \in T
    <3>1. n \in 1 .. N /\ n + 1 \in 1 .. N /\ n \in b + 1 .. N /\ n \in 1 .. N + 1
      BY <1>1, <1>2
    <3>2. m[n].quote \in {None, "#"} /\ m[n] \in Modes /\ ~m[n].escaped
      BY <1>5, <1>6, <2>2, <3>1 DEF Same, None
    <3>3. m[n + 1] = After(m[n], line[n], FALSE, TRUE)
      BY <1>5, <3>1
    <3>4. line[n] \in {"blank", "\n"} \/ s[n + 1].quote = "#"
      BY <1>2, <3>1 DEF IsBlank, s
    <3>5. CASE line[n] \in {"blank", "\n"}
      BY <3>2, <3>3, <3>5 DEF After, Plain, None
    <3>6. CASE s[n + 1].quote = "#"
      BY <1>6, <3>1, <3>6 DEF Same
    <3> QED  BY <3>4, <3>5, <3>6
  <2> HIDE DEF T
  <2>3. b + 1 \in Nat /\ N \in Nat
    BY <1>1, <1>2
  <2>4. j \in T
    BY <2>1, <2>2, <2>3, Along
  <2> QED  BY <1>1, <1>2, <2>4 DEF T
<1>9. ASSUME NEW j \in b + 1 .. N
      PROVE  ~Content(line, j)
  <2>1. j \in 1 .. N
    BY <1>1, <1>2
  <2>2. IsBlank(line, j) /\ m[j].quote \in {None, "#"}
    BY <1>2, <1>8
  <2> QED  BY <1>3, <1>4, <2>1, <2>2 DEF Plainly, m, N
<1>10. last = b
  <2>1. /\ last \in 0 .. N /\ last > 0 => Content(line, last)
    BY ContentEnd DEF N
  <2>2. b <= last
    BY <1>2, <1>7, ContentEnd DEF N
  <2>3. last > 0 => Content(line, last)
    BY ContentEnd
  <2>4. ~(last \in b + 1 .. N)
    BY <1>1, <1>2, <1>9, <2>2, <2>3
  <2>5. last \in 0 .. N
    BY ContentEnd DEF N
  <2> QED  BY <1>1, <1>2, <2>2, <2>4, <2>5
<1>11. ASSUME b # 1
       PROVE  line[b - 1] # "&"
  <2> SUFFICES ASSUME line[b - 1] = "&" PROVE FALSE
    OBVIOUS
  <2>1. b - 1 \in 1 .. N /\ (b - 1) + 1 = b /\ b - 1 # N
    BY <1>1, <1>2, <1>11
  <2>2. m[b - 1].quote = None
    BY <1>7, <2>1, AmpKeepsQuote DEF m, N
  <2>3. b - 1 \in Amps(line)
    BY <1>3, <1>7, <2>1, <2>2 DEF Plainly, m, N
  <2> QED  BY <1>2, <2>1, <2>3
<1>12. ASSUME NEW i \in 1 .. b - 1, m[i].quote = None, line[i] = "&"
       PROVE  i + 1 < b /\ line[i + 1] = "0"
  <2>1. i \in 1 .. N /\ i # N /\ i # b /\ (i + 1 < b \/ i + 1 = b)
    BY <1>1, <1>2
  <2>2. line[i + 1] = "0"
    <3>1. i \notin Amps(line)
      BY <1>2, <2>1
    <3> QED  BY <1>3, <1>12, <2>1, <3>1 DEF Plainly, m, N
  <2> QED  BY <1>7, <2>1, <2>2
<1>13. IsService(line, last)
  <2>1. b > 0 /\ line[b] = "&" /\ (b = 1 \/ line[b - 1] # "&")
    BY <1>2, <1>7, <1>11
  <2>2. \A i \in 1 .. b - 1 : m[i].quote = None /\ line[i] = "&" =>
          i + 1 < b /\ line[i + 1] = "0"
    BY <1>12
  <2> QED  BY <1>10, <2>1, <2>2 DEF IsService, m
<1>14. PICK i \in 1 .. b - 1 : ~IsBlank(line, i)
  BY <1>2
<1>15. line[i] # "blank"
  BY <1>14 DEF IsBlank
<1> QED  BY <1>2, <1>10, <1>13, <1>14, <1>15, CommandEnd DEF N

(* What transform_line does with a line that is read alike: it becomes a   *)
(* service exactly if its only operator stands at its end, and the words   *)
(* that are left are all that stands before it.                            *)
LEMMA TransformedAsSh ==
  ASSUME NEW line \in Seq(Characters), OneLine(line), ReadAlike(line)
  PROVE  LET k == transform_line(line).command
         IN  /\ k > 0 <=> EndsInAmp(line)
             /\ k > 0 => /\ ~IsBlank(line, k)
                         /\ \A i \in k + 1 .. Len(line) :
                              IsBlank(line, i) \/ Amps(line) = {i}
<1> DEFINE last == find_content_end(line)
           k == transform_line(line).command
<1>1. k = IF IsService(line, last) THEN Largest(Ink(line, last)) ELSE 0
  BY Transformed
<1> HIDE DEF last, k
<1>2. CASE k > 0
  <2>1. IsService(line, last) /\ k = Largest(Ink(line, last))
    BY <1>1, <1>2
  <2> QED  BY <1>2, <2>1, ServiceEndsInAmp DEF last, k
<1>3. CASE ~(k > 0)
  <2>1. ~EndsInAmp(line)
    BY <1>1, <1>3, EndsInAmpIsService DEF last
  <2> QED  BY <1>3, <2>1 DEF k
<1> QED  BY <1>2, <1>3

-----------------------------------------------------------------------------
(* What fgets reads: at least one character, and no newline but the last.  *)
LEMMA FgetsIs ==
  ASSUME NEW text \in Seq(Characters), text # <<>>
  PROVE  LET n == Fgets(text)
         IN  /\ n \in 1 .. Len(text)
             /\ \A j \in 1 .. n - 1 : text[j] # "\n" /\ j # LINE_CAP - 1
             /\ n = Len(text) \/ text[n] = "\n" \/ n = LINE_CAP - 1
<1> DEFINE ends == {i \in DOMAIN text : text[i] = "\n" \/ i = LINE_CAP - 1}
           n == Fgets(text)
           N == Len(text)
<1>1. N \in Nat /\ N >= 1 /\ DOMAIN text = 1 .. N
  OBVIOUS
<1>2. n = IF ends = {} THEN N ELSE CHOOSE i \in ends : \A j \in ends : i <= j
  BY DEF Fgets
<1>3. ends \subseteq Nat /\ ends \subseteq 1 .. N
  BY <1>1
<1>4. \A j \in 1 .. N : text[j] = "\n" \/ j = LINE_CAP - 1 <=> j \in ends
  BY <1>1
<1> HIDE DEF ends, n, N
<1>5. CASE ends = {}
  <2>1. n = N
    BY <1>2, <1>5
  <2> QED  BY <1>1, <1>4, <1>5, <2>1 DEF n, N
<1>6. CASE ends # {}
  <2>1. \E i \in ends : \A j \in ends : i <= j
    BY <1>3, <1>6, Least
  <2>2. n \in ends /\ \A j \in ends : n <= j
    BY <1>2, <1>6, <2>1
  <2>3. ASSUME NEW j \in 1 .. n - 1
        PROVE  text[j] # "\n" /\ j # LINE_CAP - 1
    <3>1. j \in 1 .. N /\ ~(n <= j)
      BY <1>1, <1>3, <2>2
    <3> QED  BY <1>4, <2>2, <3>1
  <2>4. n \in 1 .. N /\ (text[n] = "\n" \/ n = LINE_CAP - 1)
    BY <1>3, <1>4, <2>2
  <2> QED  BY <2>3, <2>4 DEF n, N
<1> QED  BY <1>5, <1>6

(* What is written of a line.                                              *)
Written == [line : Seq(Characters), command : Nat]

(* transform_line makes of every line something that can be written.       *)
LEMMA TransformTyped ==
  ASSUME NEW line \in Seq(Characters)
  PROVE  transform_line(line) \in Written
<1> DEFINE last == find_content_end(line)
<1>1. transform_line(line) =
        [line |-> line, command |-> transform_line(line).command]
  BY DEF transform_line
<1>2. transform_line(line).command =
        IF IsService(line, last) THEN Largest(Ink(line, last)) ELSE 0
  BY Transformed
<1>3. last \in 0 .. Len(line)
  BY ContentEnd
<1>4. ASSUME IsService(line, last)
      PROVE  Largest(Ink(line, last)) \in Nat
  <2> HIDE DEF last
  <2>1. last \in 1 .. Len(line)
    BY <1>3, <1>4 DEF IsService
  <2>2. Largest(Ink(line, last)) \in 0 .. last - 1
    BY <2>1, CommandEnd
  <2> QED  BY <2>2
<1>5. transform_line(line).command \in Nat
  BY <1>2, <1>4
<1> QED  BY <1>1, <1>5 DEF Written

(* The lines under way and written: one newline at most, at the end.       *)
NoNewline(line) == \A i \in 1 .. Len(line) : line[i] # "\n"
LinesInv ==
  /\ script \in Seq(Characters) /\ rest \in Seq(Characters) /\ buf \in Seq(Characters)
  /\ out \in Seq(Written) /\ NoNewline(buf)
  /\ \A n \in 1 .. Len(out) : OneLine(out[n].line) /\ out[n] = transform_line(out[n].line)

(* What fgets returns is the next part of the script, a line of at most    *)
(* LINE_CAP - 1 characters.                                                *)
LEMMA LineRead ==
  ASSUME LinesInv, rest # <<>>,
         NEW line, line = Upto(rest, Fgets(rest)),
         NEW text, text = WithoutNewline(line)
  PROVE  /\ line \in Seq(Characters) /\ Len(line) = Fgets(rest) /\ Len(line) \in 1 .. Len(rest)
         /\ \A i \in 1 .. Len(line) : line[i] = rest[i]
         /\ OneLine(line)
         /\ text \in Seq(Characters) /\ NoNewline(text)
         /\ Len(text) = IF line[Len(line)] = "\n" THEN Len(line) - 1 ELSE Len(line)
         /\ \A i \in 1 .. Len(text) : text[i] = line[i]
         /\ SubSeq(rest, Len(line) + 1, Len(rest)) \in Seq(Characters)
<1>1. Fgets(rest) \in 1 .. Len(rest) /\ \A j \in 1 .. Fgets(rest) - 1 : rest[j] # "\n"
  BY FgetsIs DEF LinesInv
<1> DEFINE n == Fgets(rest)
<1>2. rest \in Seq(Characters) /\ Len(rest) \in Nat
  BY DEF LinesInv
<1>3. line = SubSeq(rest, 1, n)
  BY DEF Upto
<1> HIDE DEF n
<1>4. n \in 1 .. Len(rest) /\ \A j \in 1 .. n - 1 : rest[j] # "\n"
  BY <1>1 DEF n
<1>5. /\ line \in Seq(Characters) /\ Len(line) = n
      /\ \A i \in 1 .. n : line[i] = rest[i]
  BY <1>2, <1>3, <1>4
<1>6. OneLine(line)
  BY <1>4, <1>5 DEF OneLine
<1>7. line # <<>>
  BY <1>4, <1>5
<1>8. text = IF line[n] = "\n" THEN SubSeq(line, 1, n - 1) ELSE line
  BY <1>5, <1>7 DEF WithoutNewline, Upto
<1>9. /\ text \in Seq(Characters)
      /\ Len(text) = IF line[n] = "\n" THEN n - 1 ELSE n
      /\ \A i \in 1 .. Len(text) : text[i] = line[i]
  BY <1>4, <1>5, <1>8
<1>10. NoNewline(text)
  BY <1>4, <1>5, <1>6, <1>9 DEF NoNewline, OneLine
<1>11. SubSeq(rest, n + 1, Len(rest)) \in Seq(Characters)
  BY <1>2, <1>4
<1> QED  BY <1>4, <1>5, <1>6, <1>9, <1>10, <1>11 DEF n

(* A joined line.                                                          *)
LEMMA Joined ==
  ASSUME NEW a \in Seq(Characters), NoNewline(a), NEW b \in Seq(Characters)
  PROVE  /\ a \o b \in Seq(Characters)
         /\ NoNewline(b) => NoNewline(a \o b)
         /\ OneLine(b) => OneLine(a \o b)
<1>1. /\ a \o b \in Seq(Characters) /\ Len(a \o b) = Len(a) + Len(b)
      /\ \A i \in 1 .. Len(a) + Len(b) :
           (a \o b)[i] = IF i <= Len(a) THEN a[i] ELSE b[i - Len(a)]
  OBVIOUS
<1> DEFINE c == a \o b
<1> HIDE DEF c
<1>2. Len(a) \in Nat /\ Len(b) \in Nat
  OBVIOUS
<1>3. ASSUME NEW i \in 1 .. Len(a) + Len(b)
      PROVE  \/ c[i] # "\n" 
             \/ i - Len(a) \in 1 .. Len(b) /\ c[i] = b[i - Len(a)]
  <2>1. CASE i <= Len(a)
    BY <1>1, <1>2, <2>1 DEF NoNewline, c
  <2>2. CASE ~(i <= Len(a))
    BY <1>1, <1>2, <2>2 DEF c
  <2> QED  BY <2>1, <2>2
<1>4. NoNewline(b) => NoNewline(c)
  BY <1>1, <1>3 DEF NoNewline, c
<1>5. ASSUME OneLine(b), NEW i \in 1 .. Len(c) - 1
      PROVE  c[i] # "\n"
  <2>1. i - Len(a) \in 1 .. Len(b) => i - Len(a) \in 1 .. Len(b) - 1
    BY <1>1, <1>2 DEF c
  <2>2. i \in 1 .. Len(a) + Len(b)
    BY <1>1, <1>2 DEF c
  <2> QED  BY <1>3, <1>5, <2>1, <2>2 DEF OneLine
<1> QED  BY <1>1, <1>4, <1>5 DEF OneLine, c

(* The lines are typed and whole in every state.                           *)
LEMMA LinesInvAlways == Spec => []LinesInv
<1>1. Init => LinesInv
  BY PreprocessAssumption DEF Init, LinesInv, NoNewline
<1>2. LinesInv /\ [Next]_vars => LinesInv'
  <2> SUFFICES ASSUME LinesInv, [Next]_vars PROVE LinesInv'
    OBVIOUS
  <2>1. ASSUME NEW line \in Seq(Characters), OneLine(line)
        PROVE  /\ Append(out, transform_line(line)) \in Seq(Written)
               /\ \A n \in 1 .. Len(out) + 1 :
                    LET o == Append(out, transform_line(line))
                    IN  OneLine(o[n].line) /\ o[n] = transform_line(o[n].line)
    <3> DEFINE t == transform_line(line)
    <3>1. t \in Written /\ t.line = line
      BY TransformTyped, Transformed
    <3>2. OneLine(t.line) /\ t = transform_line(t.line)
      BY <2>1, <3>1
    <3> HIDE DEF t
    <3>3. out \in Seq(Written) /\ Len(out) \in Nat /\
            \A n \in 1 .. Len(out) : OneLine(out[n].line) /\ out[n] = transform_line(out[n].line)
      BY DEF LinesInv
    <3>4. /\ Append(out, t) \in Seq(Written)
          /\ \A n \in 1 .. Len(out) + 1 :
               Append(out, t)[n] = IF n <= Len(out) THEN out[n] ELSE t
      BY <3>1, <3>3
    <3>5. ASSUME NEW n \in 1 .. Len(out) + 1
          PROVE  LET o == Append(out, t)
                 IN  OneLine(o[n].line) /\ o[n] = transform_line(o[n].line)
      <4>1. CASE n <= Len(out)
        BY <3>3, <3>4, <4>1
      <4>2. CASE ~(n <= Len(out))
        BY <3>2, <3>4, <4>2
      <4> QED  BY <4>1, <4>2
    <3> QED  BY <3>4, <3>5 DEF t
  <2>2. CASE ReadLine
    <3> DEFINE line == Upto(rest, Fgets(rest))
               text == WithoutNewline(line)
    <3>1. /\ rest # <<>> /\ script' = script
          /\ rest' = SubSeq(rest, Len(line) + 1, Len(rest))
          /\ \/ buf' = buf \o Upto(text, Len(text) - 1) /\ out' = out /\ ends_with_continuation(line)
             \/ buf' = <<>> /\ out' = Append(out, transform_line(buf \o line))
      BY <2>2 DEF ReadLine
    <3>2. /\ line \in Seq(Characters) /\ OneLine(line) /\ rest' \in Seq(Characters)
          /\ text \in Seq(Characters) /\ NoNewline(text)
      BY <3>1, LineRead
    <3> HIDE DEF line, text
    <3>3. CASE buf' = <<>> /\ out' = Append(out, transform_line(buf \o line))
      <4>1. buf \o line \in Seq(Characters) /\ OneLine(buf \o line)
        BY <3>2, Joined DEF LinesInv
      <4> DEFINE l == buf \o line
      <4> HIDE DEF l
      <4>2. Append(out, transform_line(l)) \in Seq(Written) /\
              \A n \in 1 .. Len(out) + 1 :
                LET o == Append(out, transform_line(l))
                IN  OneLine(o[n].line) /\ o[n] = transform_line(o[n].line)
        BY <2>1, <4>1 DEF l
      <4>3. out' = Append(out, transform_line(l))
        BY <3>3 DEF l
      <4>4. Len(out') = Len(out) + 1
        BY <4>3 DEF LinesInv
      <4>5. buf' \in Seq(Characters) /\ NoNewline(buf')
        BY <3>3 DEF NoNewline
      <4> QED  BY <3>1, <3>2, <4>2, <4>3, <4>4, <4>5 DEF LinesInv
    <3>4. CASE buf' = buf \o Upto(text, Len(text) - 1) /\ out' = out
      <4> DEFINE b == Upto(text, Len(text) - 1)
      <4>1. b \in Seq(Characters) /\ NoNewline(b)
        <5> DEFINE k == Len(text) - 1
        <5>1. CASE Len(text) = 0
          <6>1. b = <<>>
            BY <3>2, <5>1 DEF Upto
          <6> HIDE DEF b
          <6> QED  BY <6>1 DEF NoNewline
        <5>2. CASE Len(text) # 0
          <6>1. k \in Nat /\ k <= Len(text)
            BY <3>2, <5>2
          <6>2. b = SubSeq(text, 1, k)
            BY DEF Upto
          <6> HIDE DEF b, k
          <6>3. b \in Seq(Characters) /\ Len(b) = k /\ \A i \in 1 .. k : b[i] = text[i]
            BY <3>2, <6>1, <6>2
          <6> QED  BY <3>2, <6>1, <6>3 DEF NoNewline
        <5> QED  BY <5>1, <5>2
      <4> HIDE DEF b
      <4>2. buf' = buf \o b
        BY <3>4 DEF b
      <4>3. buf' \in Seq(Characters) /\ NoNewline(buf')
        BY <4>1, <4>2, Joined DEF LinesInv
      <4> QED  BY <3>1, <3>2, <3>4, <4>3 DEF LinesInv
    <3> QED  BY <3>1, <3>3, <3>4
  <2>3. CASE EndOfScript
    <3>1. script' = script /\ rest' = rest /\ buf' = buf
      BY <2>3 DEF EndOfScript
    <3>2. CASE out' = out
      BY <3>1, <3>2 DEF LinesInv, NoNewline
    <3>3. CASE out' = Append(out, transform_line(buf))
      <4>1. buf \in Seq(Characters) /\ OneLine(buf)
        BY DEF LinesInv, NoNewline, OneLine
      <4>2. Append(out, transform_line(buf)) \in Seq(Written) /\
              \A n \in 1 .. Len(out) + 1 :
                LET o == Append(out, transform_line(buf))
                IN  OneLine(o[n].line) /\ o[n] = transform_line(o[n].line)
        BY <2>1, <4>1
      <4>3. Len(out') = Len(out) + 1
        BY <3>3 DEF LinesInv
      <4> QED  BY <3>1, <3>3, <4>2, <4>3 DEF LinesInv
    <3> QED  BY <2>3, <3>2, <3>3 DEF EndOfScript
  <2>4. CASE UNCHANGED <<script, rest, buf, out>>
    BY <2>4 DEF LinesInv
  <2> QED  BY <2>2, <2>3, <2>4 DEF Next, GiveUp, Finished, vars
<1> QED  BY <1>1, <1>2, PTL DEF Spec

(* The simple commands that become services are those sh would run in the  *)
(* background, and usagi-reg gets all of a line but the operator           *)
(* (ServicesAsSh).                                                         *)
THEOREM ServicesAsShAlways == Spec => []ServicesAsSh
<1>1. LinesInv => ServicesAsSh
  <2> SUFFICES ASSUME LinesInv, NEW n \in 1 .. Len(out), ReadAlike(out[n].line)
               PROVE  LET line == out[n].line
                          k == out[n].command
                      IN  /\ IsSimple(line) => (k > 0 <=> IsBackground(line))
                          /\ k > 0 => /\ ~IsBlank(line, k)
                                      /\ \A i \in k + 1 .. Len(line) :
                                           IsBlank(line, i) \/ Amps(line) = {i}
    <3>1. LinesInv => DOMAIN out = 1 .. Len(out)
      BY DEF LinesInv
    <3> QED  BY <3>1 DEF ServicesAsSh
  <2> DEFINE line == out[n].line
  <2>1. line \in Seq(Characters) /\ OneLine(line) /\ out[n] = transform_line(line)
    <3>1. out \in Seq(Written) /\ out[n] \in Written
      BY DEF LinesInv
    <3> QED  BY <3>1 DEF LinesInv, Written
  <2> HIDE DEF line
  <2>2. ReadAlike(line)
    BY DEF line
  <2>3. IsSimple(line) => (IsBackground(line) <=> EndsInAmp(line))
    BY DEF IsBackground
  <2> QED  BY <2>1, <2>2, <2>3, TransformedAsSh DEF line
<1> QED  BY <1>1, LinesInvAlways, PTL

-----------------------------------------------------------------------------
(* How sh's lines grow by a character.                                     *)
Cuts == [done : Seq(Seq(Characters)), line : Seq(Characters)]
NoCut == [done |-> <<>>, line |-> <<>>]
CutAfter(l, m, c) ==
  CASE c = "\n" /\ m.escaped -> [l EXCEPT !.line = Upto(@, Len(@) - 1)]
    [] c = "\n" /\ m.quote \in {None, "#"} /\ ~m.escaped ->
         [done |-> Append(l.done, Append(l.line, "\n")), line |-> <<>>]
    [] OTHER -> [l EXCEPT !.line = Append(@, c)]

(* A sequence without its last element.                                    *)
LEMMA FrontTyped ==
  ASSUME NEW s \in Seq(Characters)
  PROVE  /\ Upto(s, Len(s) - 1) \in Seq(Characters)
         /\ s # <<>> => Len(Upto(s, Len(s) - 1)) = Len(s) - 1
         /\ \A i \in 1 .. Len(s) - 1 : Upto(s, Len(s) - 1)[i] = s[i]
<1> DEFINE k == Len(s) - 1
<1>1. Len(s) \in Nat /\ Len(s) = k + 1 /\ k \in Int
  OBVIOUS
<1>2. \A i \in 1 .. k : s[i] \in Characters
  BY <1>1
<1>3. Upto(s, k) = SubSeq(s, 1, k)
  BY DEF Upto
<1> HIDE DEF k
<1>4. /\ SubSeq(s, 1, k) \in Seq(Characters)
      /\ Len(SubSeq(s, 1, k)) = IF 1 <= k THEN k - 1 + 1 ELSE 0
      /\ \A i \in 1 .. k - 1 + 1 : SubSeq(s, 1, k)[i] = s[1 + i - 1]
  BY <1>1, <1>2, SubSeqProperties
<1>5. s # <<>> => k \in Nat
  BY <1>1 DEF k
<1>6. \A i \in 1 .. k : i \in 1 .. k - 1 + 1 /\ 1 + i - 1 = i
  BY <1>1
<1>7. s # <<>> => Len(SubSeq(s, 1, k)) = k
  BY <1>4, <1>5
<1>8. \A i \in 1 .. k : SubSeq(s, 1, k)[i] = s[i]
  BY <1>4, <1>6
<1> QED  BY <1>3, <1>4, <1>7, <1>8 DEF k

(* A character more leaves lines lines.                                    *)
LEMMA CutAfterTyped ==
  ASSUME NEW l \in Cuts, NEW m \in ShModes, NEW c \in Characters
  PROVE  CutAfter(l, m, c) \in Cuts
<1>1. l.done \in Seq(Seq(Characters)) /\ l.line \in Seq(Characters)
  BY DEF Cuts
<1>2. Upto(l.line, Len(l.line) - 1) \in Seq(Characters)
  BY <1>1, FrontTyped
<1>3. Append(l.line, c) \in Seq(Characters)
  BY <1>1
<1>4. "\n" \in Characters
  BY DEF Characters
<1>5. Append(l.line, "\n") \in Seq(Characters)
  BY <1>1, <1>4
<1>6. Append(l.done, Append(l.line, "\n")) \in Seq(Seq(Characters))
  BY <1>1, <1>5
<1> DEFINE u == Upto(l.line, Len(l.line) - 1)
           a == Append(l.line, c)
           d == Append(l.done, Append(l.line, "\n"))
<1>9. u \in Seq(Characters) /\ a \in Seq(Characters) /\ d \in Seq(Seq(Characters))
  BY <1>2, <1>3, <1>6
<1> HIDE DEF u, a, d
<1>10. \A s \in Seq(Characters) : [l EXCEPT !.line = s] \in Cuts
  BY DEF Cuts
<1>11. <<>> \in Seq(Characters)
  BY EmptySeq
<1>12. \A e \in Seq(Seq(Characters)), s \in Seq(Characters) : [done |-> e, line |-> s] \in Cuts
  BY DEF Cuts
<1>7. /\ [l EXCEPT !.line = u] \in Cuts /\ [l EXCEPT !.line = a] \in Cuts
      /\ [done |-> d, line |-> <<>>] \in Cuts
  BY <1>9, <1>10, <1>11, <1>12
<1>8. CutAfter(l, m, c) \in {[l EXCEPT !.line = u], [l EXCEPT !.line = a], [done |-> d, line |-> <<>>]}
  BY DEF CutAfter, u, a, d
<1> QED  BY <1>7, <1>8

(* The lines of a text, character by character.                            *)
LEMMA ShCutRuns ==
  ASSUME NEW text \in Seq(Characters)
  PROVE  LET c == ShCut(text)
             m == ShScan(text)
         IN  /\ c[0] = NoCut
             /\ \A i \in 0 .. Len(text) : c[i] \in Cuts
             /\ \A i \in 1 .. Len(text) : c[i] = CutAfter(c[i - 1], m[i], text[i])
<1> DEFINE N == Len(text)
           m == ShScan(text)
           h == [x \in Cuts \X (1 .. N) |-> CutAfter(x[1], m[x[2]], text[x[2]])]
<1>1. N \in Nat /\ \A i \in 1 .. N : text[i] \in Characters
  OBVIOUS
<1>2. \A i \in 1 .. N : m[i] \in ShModes
  <2>1. m \in [1 .. N + 1 -> ShModes]
    BY ShScanRuns
  <2> HIDE DEF m, N
  <2> QED  BY <1>1, <2>1
<1> HIDE DEF m, N
<1>3. NoCut \in Cuts
  BY DEF NoCut, Cuts
<1>4. h \in [Cuts \X (1 .. N) -> Cuts]
  BY <1>1, <1>2, CutAfterTyped
<1>5. \A l \in Cuts, i \in 1 .. N : h[<<l, i>>] = CutAfter(l, m[i], text[i])
  OBVIOUS
<1> HIDE DEF h
<1>6. PICK g \in [0 .. N -> Cuts] : Runs(g, N, NoCut, h)
  BY <1>1, <1>3, <1>4, Loop
<1> DEFINE Step(f) == [i \in 0 .. N |->
                         IF i = 0 THEN NoCut ELSE CutAfter(f[i - 1], m[i], text[i])]
           cut == CHOOSE f : f = Step(f)
<1>7. ShCut(text) = cut
  BY DEF ShCut, CutAfter, NoCut, m, N
<1>8. g = Step(g)
  <2>1. ASSUME NEW i \in 0 .. N
        PROVE  g[i] = IF i = 0 THEN NoCut ELSE CutAfter(g[i - 1], m[i], text[i])
    <3>1. CASE i = 0
      BY <1>6, <3>1 DEF Runs
    <3>2. CASE i # 0
      <4>1. i \in 1 .. N /\ i - 1 \in 0 .. N
        BY <1>1, <3>2
      <4>2. g[i - 1] \in Cuts /\ g[i] = h[<<g[i - 1], i>>]
        BY <1>6, <4>1 DEF Runs
      <4> QED  BY <1>5, <3>2, <4>1, <4>2
    <3> QED  BY <3>1, <3>2
  <2> QED  BY <2>1
<1>9. cut = Step(cut)
  BY <1>8
<1> HIDE DEF cut
<1>10. cut[0] = NoCut /\ \A i \in 1 .. N : cut[i] = CutAfter(cut[i - 1], m[i], text[i])
  <2>1. 0 \in 0 .. N /\ \A i \in 1 .. N : i \in 0 .. N /\ i # 0
    BY <1>1
  <2>2. \A i \in 0 .. N : cut[i] = IF i = 0 THEN NoCut ELSE CutAfter(cut[i - 1], m[i], text[i])
    BY <1>9
  <2> QED  BY <2>1, <2>2
<1> DEFINE T == {i \in Nat : i \in 0 .. N => cut[i] \in Cuts}
<1>11. 0 .. N \subseteq T
  <2>1. 0 \in T
    BY <1>3, <1>10
  <2>2. ASSUME NEW i \in 0 .. N - 1, i \in T
        PROVE  i + 1 \in T
    <3>1. i \in 0 .. N /\ i + 1 \in 1 .. N /\ (i + 1) - 1 = i
      BY <1>1
    <3>2. cut[i + 1] \in Cuts
      <4>1. cut[i] \in Cuts /\ m[i + 1] \in ShModes /\ text[i + 1] \in Characters
        BY <1>1, <1>2, <2>2, <3>1
      <4>2. cut[i + 1] = CutAfter(cut[i], m[i + 1], text[i + 1])
        BY <1>10, <3>1
      <4> QED  BY <4>1, <4>2, CutAfterTyped
    <3> QED  BY <3>2
  <2> HIDE DEF T
  <2> QED  BY <1>1, <2>1, <2>2, Along
<1> QED  BY <1>7, <1>10, <1>11 DEF m, N

(* To append to the second part is to append to the whole.                 *)
LEMMA AppendToConcat ==
  ASSUME NEW b \in Seq(Characters), NEW p \in Seq(Characters), NEW e \in Characters
  PROVE  Append(b \o p, e) = b \o (p \o <<e>>)
<1>1. <<e>> \in Seq(Characters) /\ b \o p \in Seq(Characters)
  OBVIOUS
<1>2. Append(b \o p, e) = (b \o p) \o <<e>>
  BY <1>1, AppendIsConcat
<1>3. (b \o p) \o <<e>> = b \o (p \o <<e>>)
  BY <1>1, ConcatAssociative
<1> QED  BY <1>2, <1>3

(* Along the text of a physical line the line under way takes it all.      *)
LEMMA CutAlong ==
  ASSUME NEW text \in Seq(Characters), NEW n \in 0 .. Len(text),
         NEW part \in Seq(Characters), n + Len(part) <= Len(text), NoNewline(part),
         \A i \in 1 .. Len(part) : part[i] = text[n + i]
  PROVE  ShCut(text)[n + Len(part)] =
           [done |-> ShCut(text)[n].done, line |-> ShCut(text)[n].line \o part]
<1> DEFINE N == Len(text)
           K == Len(part)
           c == ShCut(text)
           m == ShScan(text)
           d == c[n].done
           b == c[n].line
           T == {i \in Nat : i <= K => c[n + i] = [done |-> d, line |-> b \o SubSeq(part, 1, i)]}
<1>1. N \in Nat /\ K \in Nat /\ n \in Nat
  OBVIOUS
<1>2. /\ \A i \in 0 .. N : c[i] \in Cuts
      /\ \A i \in 1 .. N : c[i] = CutAfter(c[i - 1], m[i], text[i])
  BY ShCutRuns
<1>3. \A i \in 1 .. K : part[i] = text[n + i] /\ part[i] # "\n" /\ part[i] \in Characters
  BY DEF NoNewline
<1>4. n + K <= N
  OBVIOUS
<1>5. b \in Seq(Characters)
  <2>1. c[n] \in Cuts
    BY <1>2
  <2> HIDE DEF c
  <2> QED  BY <2>1 DEF Cuts
<1>6. SubSeq(part, 1, K) = part
  BY SubSeqFull
<1> HIDE DEF b
<1>7. b \o SubSeq(part, 1, 0) = b
  <2>1. SubSeq(part, 1, 0) = <<>>
    BY SubSeqEmpty
  <2> QED  BY <1>5, <2>1, ConcatEmptySeq
<1>8. \A i \in 0 .. K - 1 : Append(b \o SubSeq(part, 1, i), part[i + 1]) = b \o SubSeq(part, 1, i + 1)
  <2> SUFFICES ASSUME NEW i \in 0 .. K - 1
               PROVE  Append(b \o SubSeq(part, 1, i), part[i + 1]) = b \o SubSeq(part, 1, i + 1)
    OBVIOUS
  <2> DEFINE p == SubSeq(part, 1, i)
             e == part[i + 1]
  <2>1. i + 1 \in 1 .. K /\ (i + 1) - 1 = i /\ 1 \in 1 .. K
    BY <1>1
  <2>2. SubSeq(part, 1, i + 1) = p \o <<e>>
    BY <2>1, SubSeqRecursiveSecond
  <2>3. p \in Seq(Characters) /\ e \in Characters
    BY <1>3, <2>1
  <2> HIDE DEF p, e
  <2>4. Append(b \o p, e) = b \o (p \o <<e>>)
    BY <1>5, <2>3, AppendToConcat
  <2> QED  BY <2>2, <2>4 DEF p, e
<1> HIDE DEF N, K, c, m, d
<1>9. 0 \in T
  <2>1. n + 0 = n /\ n \in 0 .. N
    BY <1>1 DEF N
  <2>2. c[n] \in Cuts
    BY <1>2, <2>1
  <2>3. c[n] = [done |-> d, line |-> b]
    BY <2>2 DEF Cuts, d, b
  <2> QED  BY <1>7, <2>1, <2>3
<1>10. ASSUME NEW i \in 0 .. K - 1, i \in T
       PROVE  i + 1 \in T
  <2> DEFINE p == b \o SubSeq(part, 1, i)
             q == b \o SubSeq(part, 1, i + 1)
  <2>1. /\ i \in Nat /\ i <= K /\ i + 1 \in 1 .. K /\ n + (i + 1) \in 1 .. N
        /\ (n + (i + 1)) - 1 = n + i /\ n + i \in 0 .. N
    BY <1>1, <1>4
  <2>2. c[n + i] = [done |-> d, line |-> p]
    BY <1>10, <2>1
  <2>3. Append(p, part[i + 1]) = q
    BY <1>8
  <2> HIDE DEF p, q
  <2>4. c[n + (i + 1)] = CutAfter(c[n + i], m[n + (i + 1)], part[i + 1])
    BY <1>2, <1>3, <2>1
  <2>5. c[n + (i + 1)] = [done |-> d, line |-> q]
    <3>1. part[i + 1] # "\n"
      BY <1>3, <2>1
    <3> DEFINE e == Append(p, part[i + 1])
    <3>2. CutAfter(c[n + i], m[n + (i + 1)], part[i + 1]) = [c[n + i] EXCEPT !.line = e]
      BY <2>2, <3>1 DEF CutAfter
    <3>3. e = q
      BY <2>3
    <3> HIDE DEF e
    <3>4. [c[n + i] EXCEPT !.line = e] = [done |-> d, line |-> e]
      BY <2>2
    <3> QED  BY <2>4, <3>2, <3>3, <3>4
  <2> QED  BY <2>1, <2>5 DEF q
<1> HIDE DEF T
<1>11. K \in T
  <2>1. 0 \in Nat /\ K \in 0 .. K
    BY <1>1
  <2>2. 0 .. K \subseteq T
    BY <1>1, <1>9, <1>10, <2>1, Along
  <2> QED  BY <2>1, <2>2
<1>12. c[n + K] = [done |-> d, line |-> b \o SubSeq(part, 1, K)]
  BY <1>1, <1>11 DEF T
<1> QED  BY <1>6, <1>12 DEF K, c, d, b

-----------------------------------------------------------------------------
(* Odd and even alternate.                                                 *)
LEMMA Parity ==
  /\ 0 % 2 = 0
  /\ \A x \in Nat : (x + 1) % 2 = 1 <=> ~(x % 2 = 1)
OBVIOUS

(* The last character that is no backslash.                                *)
Others(text) == {i \in DOMAIN text : text[i] # "\\"}

(* Behind it there are backslashes only.                                   *)
LEMMA OthersEnd ==
  ASSUME NEW text \in Seq(Characters)
  PROVE  LET k == Largest(Others(text))
         IN  /\ k \in 0 .. Len(text) /\ (k > 0 => text[k] # "\\")
             /\ \A i \in k + 1 .. Len(text) : text[i] = "\\"
<1> DEFINE N == Len(text)
           S == Others(text)
           k == Largest(S)
<1>1. N \in Nat /\ S \in SUBSET (1 .. N) /\ S = {i \in 1 .. N : text[i] # "\\"}
  BY DEF Others
<1> HIDE DEF S, k, N
<1>2. /\ k \in 0 .. N
      /\ S = {} => k = 0
      /\ S # {} => k \in S
      /\ \A i \in S : i <= k
  BY <1>1, LargestIs DEF k
<1>3. k > 0 => text[k] # "\\"
  BY <1>1, <1>2
<1>4. ASSUME NEW i \in k + 1 .. N
      PROVE  text[i] = "\\"
  <2>1. i \in 1 .. N /\ ~(i <= k)
    BY <1>1, <1>2
  <2> QED  BY <1>1, <1>2, <2>1
<1> QED  BY <1>2, <1>3, <1>4 DEF S, k, N

(* An odd run of backslashes escapes what follows, outside of quotes.      *)
LEMMA OddRun ==
  ASSUME NEW text \in Seq(Characters), Scan(text, TRUE, FALSE)[Len(text) + 1].quote = None
  PROVE  (Len(text) - Largest(Others(text))) % 2 = 1
           <=> Scan(text, TRUE, FALSE)[Len(text) + 1].escaped
<1> DEFINE N == Len(text)
           k == Largest(Others(text))
           q == Scan(text, TRUE, FALSE)
           T == {j \in Nat : j \in 1 .. N + 1 =>
                   /\ q[j].quote = q[k + 1].quote
                   /\ q[k + 1].quote = None => (q[j].escaped <=> (j - (k + 1)) % 2 = 1)}
<1>1. N \in Nat /\ \A i \in 1 .. N : text[i] \in Characters
  OBVIOUS
<1>2. /\ k \in 0 .. N /\ (k > 0 => text[k] # "\\")
      /\ \A i \in k + 1 .. N : text[i] = "\\"
  BY OthersEnd
<1>3. /\ \A i \in 1 .. N + 1 : q[i] \in Modes
      /\ \A i \in 1 .. N : q[i + 1] = After(q[i], text[i], TRUE, FALSE)
      /\ q[1] = Plain
  BY ScanRuns
<1>4. q[N + 1].quote = None
  OBVIOUS
<1> HIDE DEF N, k, q
<1>5. ~q[k + 1].escaped
  <2>1. CASE k = 0
    BY <1>3, <2>1 DEF Plain
  <2>2. CASE k # 0
    <3>1. k \in 1 .. N /\ k \in 1 .. N + 1 /\ text[k] # "\\"
      BY <1>1, <1>2, <2>2
    <3>2. q[k] \in Modes /\ q[k + 1] = After(q[k], text[k], TRUE, FALSE)
      BY <1>3, <3>1
    <3> QED  BY <3>1, <3>2 DEF After, Modes, Plain
  <2> QED  BY <2>1, <2>2
<1>6. k + 1 \in T
  <2>1. (k + 1) - (k + 1) = 0 /\ k + 1 \in Nat
    BY <1>2
  <2> QED  BY <1>5, <2>1, Parity
<1>7. ASSUME NEW j \in k + 1 .. (N + 1) - 1, j \in T
      PROVE  j + 1 \in T
  <2>1. /\ j \in 1 .. N /\ j \in 1 .. N + 1 /\ j \in k + 1 .. N
        /\ j - (k + 1) \in Nat /\ (j + 1) - (k + 1) = (j - (k + 1)) + 1
    BY <1>1, <1>2
  <2> DEFINE x == j - (k + 1)
  <2>2. q[j] \in Modes /\ text[j] = "\\" /\ q[j + 1] = After(q[j], text[j], TRUE, FALSE)
    BY <1>2, <1>3, <2>1
  <2>3. /\ q[j].quote = q[k + 1].quote
        /\ q[k + 1].quote = None => (q[j].escaped <=> x % 2 = 1)
    BY <1>7, <2>1
  <2>4. x \in Nat /\ (j + 1) - (k + 1) = x + 1
    BY <2>1
  <2> HIDE DEF x
  <2>5. (x + 1) % 2 = 1 <=> ~(x % 2 = 1)
    BY <2>4, Parity
  <2>6. q[j + 1].quote = q[j].quote /\ (q[j].quote = None => (q[j + 1].escaped <=> ~q[j].escaped))
    BY <2>2 DEF After, Modes, Quotes, Plain, None
  <2>7. /\ q[j + 1].quote = q[k + 1].quote
        /\ q[k + 1].quote = None => (q[j + 1].escaped <=> (x + 1) % 2 = 1)
    BY <2>3, <2>5, <2>6
  <2> QED  BY <2>1, <2>4, <2>7
<1> HIDE DEF T
<1>8. N + 1 \in T
  <2>1. k + 1 \in Nat /\ N + 1 \in Nat /\ N + 1 \in k + 1 .. N + 1
    BY <1>1, <1>2
  <2>2. k + 1 .. N + 1 \subseteq T
    BY <1>6, <1>7, <2>1, Along
  <2> QED  BY <2>1, <2>2
<1>9. q[N + 1].escaped <=> ((N + 1) - (k + 1)) % 2 = 1
  <2>1. N + 1 \in 1 .. N + 1
    BY <1>1
  <2>2. /\ q[N + 1].quote = q[k + 1].quote
        /\ q[k + 1].quote = None => (q[N + 1].escaped <=> ((N + 1) - (k + 1)) % 2 = 1)
    BY <1>8, <2>1 DEF T
  <2>3. q[k + 1].quote = None
    BY <1>4, <2>2
  <2> QED  BY <2>2, <2>3, Zenon
<1>10. (N + 1) - (k + 1) = N - k
  BY <1>1, <1>2
<1> QED  BY <1>9, <1>10 DEF N, k, q

(* ends_with_continuation reads a physical line as sh does, up to a comment. *)
JoinSame(q, s) ==
  \/ s.quote = "#" /\ ~s.escaped
  \/ q.quote = s.quote /\ q.escaped = s.escaped /\ (q.escaped => q.quote \in {None, "quote"})

(* The next character of the line keeps it so.                             *)
LEMMA JoinSameAfter ==
  ASSUME NEW q \in Modes, NEW s \in ShModes, NEW c \in Characters, JoinSame(q, s), c # "\n"
  PROVE  JoinSame(After(q, c, TRUE, FALSE), ShAfter(s, c))
BY DEF JoinSame, After, ShAfter, Modes, ShModes, Quotes, Characters, Plain, None

(* A backslash begins no comment.                                          *)
LEMMA BackslashNoComment ==
  ASSUME NEW s \in ShModes, s.quote # "#"
  PROVE  ShAfter(s, "\\").quote # "#"
<1>1. s = [quote |-> s.quote, escaped |-> s.escaped, inword |-> s.inword] /\ s.escaped \in BOOLEAN
  BY DEF ShModes
<1>2. CASE s.escaped
  BY <1>1, <1>2 DEF ShAfter
<1>3. CASE ~s.escaped /\ s.quote = None
  BY <1>1, <1>3 DEF ShAfter, None
<1>4. CASE ~s.escaped /\ s.quote \in {"'", "quote"}
  BY <1>1, <1>4 DEF ShAfter, None
<1> QED  BY <1>1, <1>2, <1>3, <1>4 DEF ShModes, Quotes

Standing(s) == s.quote = None /\ ~s.escaped

(* Through a physical line that begins in no quote, the scan of            *)
(* ends_with_continuation keeps up with sh's.                              *)
LEMMA JoinModes ==
  ASSUME NEW text \in Seq(Characters), NEW n \in 0 .. Len(text),
         NEW part \in Seq(Characters), n + Len(part) <= Len(text), NoNewline(part),
         \A i \in 1 .. Len(part) : part[i] = text[n + i],
         Standing(ShScan(text)[n + 1])
  PROVE  JoinSame(Scan(part, TRUE, FALSE)[Len(part) + 1], ShScan(text)[n + (Len(part) + 1)])
<1> DEFINE N == Len(text)
           K == Len(part)
           q == Scan(part, TRUE, FALSE)
           s == ShScan(text)
           T == {i \in Nat : i \in 1 .. K + 1 => JoinSame(q[i], s[n + i])}
<1>1. N \in Nat /\ K \in Nat /\ n \in Nat /\ n + K <= N
  OBVIOUS
<1>2. /\ \A i \in 1 .. K + 1 : q[i] \in Modes
      /\ \A i \in 1 .. K : q[i + 1] = After(q[i], part[i], TRUE, FALSE)
      /\ q[1] = Plain
  BY ScanRuns
<1>3. /\ \A i \in 1 .. N + 1 : s[i] \in ShModes
      /\ \A i \in 1 .. N : s[i + 1] = ShAfter(s[i], text[i])
  BY ShScanRuns
<1>4. \A i \in 1 .. K : part[i] = text[n + i] /\ part[i] # "\n" /\ part[i] \in Characters
  BY DEF NoNewline
<1>5. Standing(s[n + 1])
  OBVIOUS
<1> HIDE DEF N, K, q, s
<1>6. 1 \in T
  <2>1. n + 1 \in 1 .. N + 1
    BY <1>1
  <2>2. s[n + 1] \in ShModes
    BY <1>3, <2>1
  <2>3. JoinSame(q[1], s[n + 1])
    <3>1. q[1].quote = None /\ q[1].escaped = FALSE
      BY <1>2 DEF Plain
    <3>2. s[n + 1].quote = None /\ s[n + 1].escaped = FALSE
      BY <1>5, <2>2 DEF Standing, ShModes
    <3> QED  BY <3>1, <3>2 DEF JoinSame
  <2> QED  BY <2>3
<1>7. ASSUME NEW i \in 1 .. (K + 1) - 1, i \in T
      PROVE  i + 1 \in T
  <2>1. /\ i \in 1 .. K /\ i \in 1 .. K + 1 /\ n + i \in 1 .. N /\ n + i \in 1 .. N + 1
        /\ (n + i) + 1 = n + (i + 1)
    BY <1>1
  <2>2. /\ q[i] \in Modes /\ s[n + i] \in ShModes /\ part[i] \in Characters /\ part[i] # "\n"
        /\ q[i + 1] = After(q[i], part[i], TRUE, FALSE)
        /\ s[n + (i + 1)] = ShAfter(s[n + i], part[i])
    BY <1>2, <1>3, <1>4, <2>1
  <2>3. JoinSame(q[i], s[n + i])
    BY <1>7, <2>1
  <2>4. JoinSame(q[i + 1], s[n + (i + 1)])
    BY <2>2, <2>3, JoinSameAfter
  <2> QED  BY <2>1, <2>4
<1> HIDE DEF T
<1>8. K + 1 \in T
  <2>1. 1 \in Nat /\ K + 1 \in Nat /\ K + 1 \in 1 .. K + 1
    BY <1>1
  <2>2. 1 .. K + 1 \subseteq T
    BY <1>6, <1>7, <2>1, Along
  <2> QED  BY <2>1, <2>2
<1>9. JoinSame(q[K + 1], s[n + (K + 1)])
  <2>1. K + 1 \in 1 .. K + 1
    BY <1>1
  <2> QED  BY <1>8, <2>1 DEF T
<1> QED  BY <1>9 DEF K, q, s

-----------------------------------------------------------------------------
(* A script whose lines the code reads as sh does.                         *)
Alike == LinesFit /\ QuotesClosed /\ NoStrayBackslash

(* One turn of the loop, in front of position n of the script: d are the   *)
(* lines sh has finished there.                                            *)
Turn(n, d, line, text) ==
  LET cut == ShCut(script)[n + Len(line)]
      next == ShScan(script)[n + Len(line) + 1]
  IN  \/ /\ ends_with_continuation(line)
         /\ cut = [done |-> d, line |-> buf \o Upto(text, Len(text) - 1)]
         /\ Standing(next)
      \/ /\ ~ends_with_continuation(line)
         /\ cut = [done |-> Append(d, buf \o line), line |-> <<>>]
         /\ Standing(next)
      \/ /\ ~ends_with_continuation(line)
         /\ n + Len(line) = Len(script)
         /\ cut = [done |-> d, line |-> buf \o line]
         /\ line # <<>>

(* The last line under way loses its backslash.                            *)
LEMMA FrontOfConcat ==
  ASSUME NEW a \in Seq(Characters), NEW b \in Seq(Characters), b # <<>>
  PROVE  Upto(a \o b, Len(a \o b) - 1) = a \o Upto(b, Len(b) - 1)
<1> DEFINE l == Upto(a \o b, Len(a \o b) - 1)
           r == a \o Upto(b, Len(b) - 1)
           M == Len(a) + (Len(b) - 1)
<1>1. /\ a \o b \in Seq(Characters) /\ Len(a \o b) = Len(a) + Len(b)
      /\ \A i \in 1 .. Len(a) + Len(b) :
           (a \o b)[i] = IF i <= Len(a) THEN a[i] ELSE b[i - Len(a)]
  BY ConcatProperties
<1>2. Len(a) \in Nat /\ Len(b) \in Nat /\ Len(b) - 1 \in Nat /\ (Len(a) + Len(b)) - 1 = M
  OBVIOUS
<1>3. a \o b # <<>>
  BY <1>1, <1>2
<1>4. l \in Seq(Characters) /\ Len(l) = M /\ \A i \in 1 .. M : l[i] = (a \o b)[i]
  <2> DEFINE x == a \o b
  <2>1. x \in Seq(Characters) /\ x # <<>> /\ Len(x) - 1 = M
    BY <1>1, <1>2, <1>3
  <2> HIDE DEF x, M
  <2>2. /\ Upto(x, Len(x) - 1) \in Seq(Characters)
        /\ Len(Upto(x, Len(x) - 1)) = Len(x) - 1
        /\ \A i \in 1 .. Len(x) - 1 : Upto(x, Len(x) - 1)[i] = x[i]
    BY <2>1, FrontTyped
  <2>3. /\ Upto(x, M) \in Seq(Characters) /\ Len(Upto(x, M)) = M
        /\ \A i \in 1 .. M : Upto(x, M)[i] = x[i]
    BY <2>1, <2>2
  <2>4. l = Upto(x, M)
    BY <2>1 DEF x
  <2> HIDE DEF l
  <2> QED  BY <2>3, <2>4 DEF x
<1> DEFINE f == Upto(b, Len(b) - 1)
<1>5. f \in Seq(Characters) /\ Len(f) = Len(b) - 1 /\ \A i \in 1 .. Len(b) - 1 : f[i] = b[i]
  BY FrontTyped
<1>6. r = a \o f
  OBVIOUS
<1> HIDE DEF f, l, r
<1>7. /\ r \in Seq(Characters) /\ Len(r) = M
      /\ \A i \in 1 .. M : r[i] = IF i <= Len(a) THEN a[i] ELSE f[i - Len(a)]
  <2>1. /\ r \in Seq(Characters) /\ Len(r) = Len(a) + Len(f)
        /\ \A i \in 1 .. Len(a) + Len(f) : r[i] = IF i <= Len(a) THEN a[i] ELSE f[i - Len(a)]
    BY <1>5, <1>6, ConcatProperties
  <2> QED  BY <1>5, <2>1
<1>8. ASSUME NEW i \in 1 .. M
      PROVE  l[i] = r[i]
  <2>1. i \in 1 .. Len(a) + Len(b) /\ (~(i <= Len(a)) => i - Len(a) \in 1 .. Len(b) - 1)
    BY <1>2
  <2> QED  BY <1>1, <1>4, <1>5, <1>7, <2>1
<1>9. l = r
  BY <1>4, <1>7, <1>8, SeqEqual
<1> QED  BY <1>9 DEF l, r

(* The newline of a physical line, or the end of the file.                 *)
LEMMA LineEnds ==
  ASSUME LinesInv, LinesFit, rest # <<>>,
         NEW n \in Nat, n + Len(rest) = Len(script),
         \A i \in 1 .. Len(rest) : rest[i] = script[n + i],
         NEW line, line = Upto(rest, Fgets(rest))
  PROVE  line[Len(line)] = "\n" \/ n + Len(line) = Len(script)
<1> DEFINE N == Len(script)
           R == Len(rest)
           L == Len(line)
<1>1. /\ L = Fgets(rest) /\ L \in 1 .. R
      /\ \A i \in 1 .. L : line[i] = rest[i]
      /\ OneLine(line)
  BY LineRead
<1>2. L = R \/ rest[L] = "\n" \/ L = LINE_CAP - 1
  BY <1>1, FgetsIs DEF LinesInv
<1>3. N \in Nat /\ R \in Nat /\ n + R = N /\ DOMAIN script = 1 .. N
  BY DEF LinesInv
<1>4. \A i \in 1 .. R : rest[i] = script[n + i]
  OBVIOUS
<1> HIDE DEF N, R, L
<1>5. CASE L = LINE_CAP - 1 /\ line[L] # "\n"
  <2>1. n + 1 \in DOMAIN script /\ LINE_CAP \in Nat /\ L \in Nat
    BY <1>1, <1>3, PreprocessAssumption
  <2>2. \A i \in 1 .. L : line[i] # "\n"
    BY <1>1, <1>5 DEF OneLine, L
  <2>3. ASSUME NEW j \in n + 1 .. n + 1 + LINE_CAP - 2
        PROVE  j \in DOMAIN script /\ script[j] # "\n"
    <3>1. j - n \in 1 .. L /\ j - n \in 1 .. R /\ n + (j - n) = j /\ j \in 1 .. N
      BY <1>1, <1>3, <1>5, <2>1
    <3>2. line[j - n] = script[j]
      BY <1>1, <1>4, <3>1
    <3> QED  BY <1>3, <2>2, <3>1, <3>2
  <2>4. n + 1 + LINE_CAP - 2 = Len(script)
    BY <2>1, <2>3 DEF LinesFit
  <2> QED  BY <1>5, <2>1, <2>4 DEF L, N
<1> QED  BY <1>1, <1>2, <1>3, <1>5 DEF L, N

(* One turn of the loop of preprocess, on a script that is read alike: sh  *)
(* has either joined the line to the next one, or finished it.             *)
LEMMA TurnAsSh ==
  ASSUME LinesInv, Alike, rest # <<>>,
         NEW n \in Nat, n + Len(rest) = Len(script),
         \A i \in 1 .. Len(rest) : rest[i] = script[n + i],
         NEW line, line = Upto(rest, Fgets(rest)),
         NEW text, text = WithoutNewline(line),
         NEW d, ShCut(script)[n] = [done |-> d, line |-> buf],
         Standing(ShScan(script)[n + 1])
  PROVE  Turn(n, d, line, text)
<1> DEFINE N == Len(script)
           L == Len(line)
           K == Len(text)
           p == n + L
           s == ShScan(script)
           c == ShCut(script)
           q == Scan(text, TRUE, FALSE)
<1>1. /\ line \in Seq(Characters) /\ L \in 1 .. Len(rest)
      /\ \A i \in 1 .. L : line[i] = rest[i]
      /\ text \in Seq(Characters) /\ NoNewline(text)
      /\ K = IF line[L] = "\n" THEN L - 1 ELSE L
      /\ \A i \in 1 .. K : text[i] = line[i]
  BY LineRead
<1>2. /\ script \in Seq(Characters) /\ N \in Nat /\ n \in 0 .. N /\ p \in 1 .. N /\ L \in Nat /\ K \in Nat
      /\ buf \in Seq(Characters)
  BY <1>1 DEF LinesInv
<1>3. \A i \in 1 .. L : line[i] = script[n + i]
  BY <1>1
<1>4. \A i \in 1 .. K : text[i] = script[n + i] /\ i \in 1 .. L
  BY <1>1, <1>3
<1>5. n + K <= N
  BY <1>1, <1>2
<1>6. line[L] = "\n" \/ p = N
  BY LineEnds DEF Alike
<1>7. c[n + K] = [done |-> d, line |-> buf \o text]
  <2>1. ShCut(script)[n].done = d /\ ShCut(script)[n].line = buf
    OBVIOUS
  <2>2. \A i \in 1 .. K : text[i] = script[n + i]
    BY <1>4
  <2>3. ShCut(script)[n + Len(text)] =
          [done |-> ShCut(script)[n].done, line |-> ShCut(script)[n].line \o text]
    BY <1>1, <1>2, <1>5, <2>2, CutAlong
  <2> QED  BY <2>1, <2>3
<1>8. JoinSame(q[K + 1], s[n + (K + 1)])
  BY <1>1, <1>2, <1>4, <1>5, JoinModes
<1>9. /\ \A i \in 1 .. N + 1 : s[i] \in ShModes
      /\ \A i \in 1 .. N : s[i + 1] = ShAfter(s[i], script[i])
  BY <1>2, ShScanRuns
<1>10. \A i \in 1 .. N : c[i] = CutAfter(c[i - 1], s[i], script[i])
  BY <1>2, ShCutRuns
<1>11. ends_with_continuation(line) <=>
         (K - Largest(Others(text))) % 2 = 1 /\ q[K + 1].quote # "'"
  BY DEF ends_with_continuation, Others
<1>12. q[K + 1].quote = None =>
         ((K - Largest(Others(text))) % 2 = 1 <=> q[K + 1].escaped)
  BY <1>1, OddRun
<1>13. text = <<>> \/ text[K] # "\\" => ~ends_with_continuation(line)
  <2> SUFFICES ASSUME text = <<>> \/ text[K] # "\\" PROVE ~ends_with_continuation(line)
    OBVIOUS
  <2> DEFINE k == Largest(Others(text))
  <2>1. k \in 0 .. K /\ \A i \in k + 1 .. K : text[i] = "\\"
    BY <1>1, OthersEnd
  <2> HIDE DEF k
  <2>2. text = <<>> => K = 0
    OBVIOUS
  <2> HIDE DEF K
  <2>3. k = K
    <3>1. CASE k < K
      <4>1. K \in k + 1 .. K /\ K # 0
        BY <1>2, <2>1, <3>1
      <4> QED  BY <2>1, <2>2, <4>1
    <3> QED  BY <1>2, <2>1, <3>1
  <2>4. K - k = 0
    BY <1>2, <2>3
  <2>5. ~((K - k) % 2 = 1)
    BY <2>4
  <2> QED  BY <1>11, <2>5 DEF k
<1>14. \A i \in 1 .. N : /\ script[i] = "\n" => s[i].quote \notin {"'", "quote"}
                         /\ script[i] = "\\" => i < N /\ s[i].quote # "#"
  <2>1. DOMAIN script = 1 .. N
    BY <1>2
  <2> QED  BY <2>1 DEF Alike, QuotesClosed, NoStrayBackslash
<1>15. K = 0 => text = <<>>
  BY <1>1
<1>16. Standing(s[n + 1])
  OBVIOUS
<1>17. line # <<>>
  BY <1>1
<1> DEFINE x == buf \o text
<1>18. x \in Seq(Characters)
  BY <1>1, <1>2
<1> HIDE DEF N, L, K, s, c, q, x, p
<1>19. CASE line[L] # "\n"
  <2>1. K = L /\ p = N /\ n + K = p
    BY <1>1, <1>6, <1>19 DEF p
  <2>2. text[K] # "\\"
    <3>1. K \in 1 .. K /\ n + K \in 1 .. N /\ ~(n + K < N)
      BY <1>1, <1>2, <2>1
    <3> QED  BY <1>4, <1>14, <3>1
  <2>3. text = line
    BY <1>19 DEF WithoutNewline, L
  <2>4. c[p] = [done |-> d, line |-> buf \o line]
    BY <1>7, <2>1, <2>3 DEF x
  <2> QED  BY <1>13, <1>17, <2>1, <2>2, <2>4 DEF Turn, L, N, p, c
<1>20. CASE line[L] = "\n"
  <2>1. /\ K = L - 1 /\ n + (K + 1) = p /\ n + K = p - 1 /\ K + 1 \in 1 .. L
        /\ p \in 1 .. N + 1 /\ p + 1 = n + L + 1
    BY <1>1, <1>2, <1>20 DEF p
  <2>2. script[p] = "\n" /\ s[p].quote \notin {"'", "quote"} /\ s[p] \in ShModes
    <3>1. script[p] = "\n"
      <4>1. L \in 1 .. L
        BY <1>1, <1>2
      <4>2. line[L] = script[n + L]
        BY <1>3, <4>1
      <4> QED  BY <1>20, <4>2 DEF p
    <3> QED  BY <1>2, <1>9, <1>14, <2>1, <3>1
  <2>3. s[p].quote \in {None, "#"}
    BY <2>2 DEF ShModes, Quotes
  <2>4. c[p] = CutAfter([done |-> d, line |-> x], s[p], "\n")
    BY <1>2, <1>7, <1>10, <2>1, <2>2 DEF x
  <2>5. s[p + 1] = ShAfter(s[p], "\n")
    BY <1>2, <1>9, <2>2
  <2>6. JoinSame(q[K + 1], s[p])
    BY <1>8, <2>1
  <2>7. ends_with_continuation(line) <=> s[p].escaped
    <3>1. CASE s[p].quote = "#"
      <4>1. ~s[p].escaped
        BY <2>6, <3>1 DEF JoinSame, None
      <4>2. ~(text # <<>> /\ text[K] = "\\")
        <5> SUFFICES ASSUME text # <<>>, text[K] = "\\" PROVE FALSE
          OBVIOUS
        <5>1. K \in 1 .. K /\ n + K \in 1 .. N /\ (n + K) + 1 = p
          BY <1>2, <1>5, <1>15, <2>1
        <5>2. script[n + K] = "\\" /\ s[n + K].quote # "#" /\ s[n + K] \in ShModes
          <6>1. script[n + K] = "\\" /\ n + K \in 1 .. N + 1
            BY <1>2, <1>4, <5>1
          <6> QED  BY <1>9, <1>14, <5>1, <6>1
        <5>3. s[p] = ShAfter(s[n + K], "\\")
          BY <1>9, <5>1, <5>2
        <5> QED  BY <3>1, <5>2, <5>3, BackslashNoComment
      <4> QED  BY <1>13, <4>1, <4>2
    <3>2. CASE s[p].quote = None
      <4>1. q[K + 1].quote = None /\ q[K + 1].escaped = s[p].escaped
        BY <2>6, <3>2 DEF JoinSame, None
      <4>2. q[K + 1].quote # "'"
        BY <4>1 DEF None
      <4> QED  BY <1>11, <1>12, <4>1, <4>2
    <3> QED  BY <2>3, <3>1, <3>2
  <2>8. CASE s[p].escaped
    <3>1. text # <<>>
      BY <1>13, <2>7, <2>8
    <3>2. c[p] = [done |-> d, line |-> Upto(x, Len(x) - 1)]
      <4> DEFINE l == [done |-> d, line |-> x]
                 u == Upto(l.line, Len(l.line) - 1)
      <4>1. CutAfter(l, s[p], "\n") = [l EXCEPT !.line = u]
        BY <2>8 DEF CutAfter
      <4>2. u = Upto(x, Len(x) - 1)
        OBVIOUS
      <4> HIDE DEF u
      <4>3. [l EXCEPT !.line = u] = [done |-> d, line |-> u]
        OBVIOUS
      <4> QED  BY <2>4, <4>1, <4>2, <4>3
    <3>3. Upto(x, Len(x) - 1) = buf \o Upto(text, Len(text) - 1)
      BY <1>1, <1>2, <3>1, FrontOfConcat DEF x
    <3>4. Standing(s[p + 1])
      <4>1. s[p].quote = None
        BY <2>3, <2>6, <2>8 DEF JoinSame
      <4> QED  BY <2>2, <2>5, <2>8, <4>1 DEF ShAfter, ShModes, Standing
    <3> QED  BY <2>1, <2>7, <2>8, <3>2, <3>3, <3>4 DEF Turn, p, L, c, s
  <2>9. CASE ~s[p].escaped
    <3>1. c[p] = [done |-> Append(d, Append(x, "\n")), line |-> <<>>]
      BY <2>3, <2>4, <2>9 DEF CutAfter
    <3>2. Append(x, "\n") = buf \o line
      <4>1. "\n" \in Characters
        BY DEF Characters
      <4>2. Append(x, "\n") = buf \o (text \o <<"\n">>)
        <5> DEFINE e == "\n"
        <5>1. e \in Characters
          BY <4>1
        <5> HIDE DEF e
        <5>2. Append(buf \o text, e) = buf \o (text \o <<e>>)
          BY <1>1, <1>2, <5>1, AppendToConcat
        <5> QED  BY <5>2 DEF e, x
      <4>3. line = text \o <<"\n">>
        <5>1. text = SubSeq(line, 1, L - 1)
          BY <1>17, <1>20 DEF WithoutNewline, Upto, L
        <5>2. line = SubSeq(line, 1, L)
          BY <1>1, SubSeqFull DEF L
        <5>3. SubSeq(line, 1, L) = SubSeq(line, 1, L - 1) \o <<line[L]>>
          <6>1. 1 \in 1 .. Len(line) /\ L \in 1 .. Len(line)
            BY <1>1, <1>2, <2>1 DEF L
          <6> QED  BY <1>1, <6>1, SubSeqRecursiveSecond
        <5> QED  BY <1>20, <5>1, <5>2, <5>3
      <4> QED  BY <4>2, <4>3
    <3>3. Standing(s[p + 1])
      BY <2>2, <2>3, <2>5, <2>9 DEF ShAfter, ShModes, ShPlain, Standing, None
    <3> QED  BY <2>1, <2>7, <2>9, <3>1, <3>2, <3>3 DEF Turn, p, L, c, s
  <2> QED  BY <2>8, <2>9
<1> QED  BY <1>19, <1>20

-----------------------------------------------------------------------------
(* Before each turn the lines written are those sh has finished there, and *)
(* the buffer is the line sh has begun; after a last line without a        *)
(* newline the buffer is empty, though, and that line is written.          *)
Lines(o) == [i \in DOMAIN o |-> o[i].line]
Reading(n, o, b) ==
  LET cut == ShCut(script)[n]
  IN  \/ /\ cut = [done |-> Lines(o), line |-> b]
         /\ n < Len(script) => Standing(ShScan(script)[n + 1])
      \/ /\ n = Len(script) /\ b = <<>>
         /\ cut.line # <<>> /\ Lines(o) = Append(cut.done, cut.line)
JoinInv ==
  /\ LinesInv
  /\ Len(rest) <= Len(script)
  /\ \A i \in 1 .. Len(rest) : rest[i] = script[(Len(script) - Len(rest)) + i]
  /\ Alike =>
       /\ pc = "reading" => Reading(Len(script) - Len(rest), out, buf)
       /\ pc = "done" => Lines(out) = ShLines(script)

(* A function on 1 .. n is a sequence.                                     *)
LEMMA FunctionIsSeq ==
  ASSUME NEW S, NEW n \in Nat, NEW f \in [1 .. n -> S]
  PROVE  f \in Seq(S) /\ Len(f) = n
OBVIOUS

(* To write a line is to add it to the lines written.                      *)
LEMMA LinesGrow ==
  ASSUME NEW o \in Seq(Written), NEW t \in Written
  PROVE  Lines(Append(o, t)) = Append(Lines(o), t.line)
<1> DEFINE a == Append(o, t)
           l == Lines(o)
<1>1. /\ DOMAIN o = 1 .. Len(o) /\ Len(o) \in Nat /\ \A i \in 1 .. Len(o) : o[i] \in Written
      /\ a \in Seq(Written) /\ DOMAIN a = 1 .. Len(o) + 1
      /\ \A i \in 1 .. Len(o) + 1 : a[i] = IF i <= Len(o) THEN o[i] ELSE t
  OBVIOUS
<1> HIDE DEF a
<1>2. l \in Seq(Seq(Characters)) /\ Len(l) = Len(o) /\ t.line \in Seq(Characters)
  <2>1. \A i \in 1 .. Len(o) : o[i].line \in Seq(Characters)
    BY <1>1 DEF Written
  <2>2. l = [i \in 1 .. Len(o) |-> o[i].line]
    BY <1>1 DEF Lines
  <2>3. l \in [1 .. Len(o) -> Seq(Characters)]
    BY <2>1, <2>2
  <2> HIDE DEF l
  <2>4. l \in Seq(Seq(Characters)) /\ Len(l) = Len(o)
    BY <1>1, <2>3, FunctionIsSeq
  <2> QED  BY <2>4 DEF Written
<1> DEFINE r == Append(l, t.line)
           s == Lines(a)
<1>3. /\ r \in Seq(Seq(Characters)) /\ Len(r) = Len(o) + 1
      /\ \A i \in 1 .. Len(o) + 1 : r[i] = IF i <= Len(o) THEN l[i] ELSE t.line
  <2> HIDE DEF l
  <2> QED  BY <1>2
<1>4. \A i \in 1 .. Len(o) : l[i] = o[i].line
  BY <1>1 DEF Lines
<1>5. s = [i \in 1 .. Len(o) + 1 |-> a[i].line]
  BY <1>1 DEF Lines
<1>6. r = [i \in 1 .. Len(o) + 1 |-> r[i]]
  <2> HIDE DEF r
  <2> QED  BY <1>1, <1>3
<1> HIDE DEF r, s, l
<1>7. ASSUME NEW i \in 1 .. Len(o) + 1
      PROVE  r[i] = a[i].line
  <2>1. CASE i <= Len(o)
    <3>1. i \in 1 .. Len(o)
      BY <1>1, <2>1
    <3> QED  BY <1>1, <1>3, <1>4, <2>1, <3>1
  <2>2. CASE ~(i <= Len(o))
    BY <1>1, <1>3, <2>2
  <2> QED  BY <2>1, <2>2
<1>8. s = r
  BY <1>5, <1>6, <1>7
<1> QED  BY <1>8 DEF r, s, a, l

(* Whether the script is read alike is a matter of the script.             *)
LEMMA AlikeStays ==
  ASSUME script' = script
  PROVE  Alike' <=> Alike
BY DEF Alike, LinesFit, QuotesClosed, NoStrayBackslash

(* A turn of the loop keeps the lines written those that sh has finished.  *)
LEMMA ReadLineJoins ==
  ASSUME JoinInv, LinesInv', ReadLine
  PROVE  JoinInv'
<1> DEFINE n == Len(script) - Len(rest)
           line == Upto(rest, Fgets(rest))
           text == WithoutNewline(line)
           L == Len(line)
<1>1. /\ pc = "reading" /\ pc' = pc /\ rest # <<>> /\ script' = script
      /\ rest' = SubSeq(rest, L + 1, Len(rest))
      /\ \/ /\ ends_with_continuation(line)
            /\ buf' = buf \o Upto(text, Len(text) - 1) /\ out' = out
         \/ /\ ~ends_with_continuation(line)
            /\ buf' = <<>> /\ out' = Append(out, transform_line(buf \o line))
  BY DEF ReadLine
<1>2. /\ LinesInv /\ script \in Seq(Characters) /\ rest \in Seq(Characters)
      /\ buf \in Seq(Characters) /\ out \in Seq(Written)
      /\ Len(script) \in Nat /\ Len(rest) \in Nat /\ n \in Nat
      /\ n + Len(rest) = Len(script)
      /\ \A i \in 1 .. Len(rest) : rest[i] = script[n + i]
  BY DEF JoinInv, LinesInv
<1>3. line \in Seq(Characters) /\ L \in 1 .. Len(rest)
  BY <1>1, <1>2, LineRead
<1> HIDE DEF n, line, text, L
<1>4. /\ Len(rest') = Len(rest) - L
      /\ \A i \in 1 .. Len(rest) - L : rest'[i] = rest[L + i]
  BY <1>1, <1>2, <1>3
<1>5. /\ Len(rest') <= Len(script') /\ Len(script') - Len(rest') = n + L
      /\ \A i \in 1 .. Len(rest') : rest'[i] = script'[(Len(script') - Len(rest')) + i]
  <2>1. Len(script) - (Len(rest) - L) = n + L /\ Len(rest) - L <= Len(script)
    <3>1. \A a, r, m \in Nat : \A l \in 1 .. r :
            m + r = a => a - (r - l) = m + l /\ r - l <= a
      OBVIOUS
    <3> QED  BY <1>2, <1>3, <3>1
  <2>2. ASSUME NEW i \in 1 .. Len(rest) - L
        PROVE  rest'[i] = script[(n + L) + i]
    <3>1. L + i \in 1 .. Len(rest) /\ n + (L + i) = (n + L) + i
      BY <1>2, <1>3
    <3> QED  BY <1>2, <1>4, <3>1
  <2> QED  BY <1>1, <1>4, <2>1, <2>2
<1>6. ASSUME Alike
      PROVE  Reading(n + L, out', buf')
  <2>1. Reading(n, out, buf) /\ n < Len(script)
    <3>1. Len(rest) # 0
      BY <1>1, <1>2
    <3>2. Reading(n, out, buf)
      BY <1>1, <1>6 DEF JoinInv, n
    <3> QED  BY <1>2, <3>1, <3>2
  <2>2. /\ ShCut(script)[n] = [done |-> Lines(out), line |-> buf]
        /\ Standing(ShScan(script)[n + 1])
    BY <1>2, <2>1 DEF Reading
  <2>3. Turn(n, Lines(out), line, text)
    BY <1>1, <1>2, <1>6, <2>2, TurnAsSh DEF line, text
  <2>4. CASE ends_with_continuation(line)
    BY <1>1, <2>3, <2>4 DEF Turn, Reading, L
  <2>5. CASE ~ends_with_continuation(line)
    <3> DEFINE x == buf \o line
    <3>1. x \in Seq(Characters) /\ x # <<>>
      <4>1. x \in Seq(Characters) /\ Len(x) = Len(buf) + Len(line)
        BY <1>2, <1>3, ConcatProperties
      <4>2. Len(buf) \in Nat /\ Len(line) \in Nat \ {0}
        BY <1>2, <1>3 DEF L
      <4> HIDE DEF x
      <4>3. Len(x) # 0
        BY <4>1, <4>2
      <4> QED  BY <4>1, <4>3, EmptySeq
    <3> HIDE DEF x
    <3>2. Lines(out') = Append(Lines(out), x) /\ buf' = <<>>
      <4>1. transform_line(x) \in Written /\ transform_line(x).line = x
        BY <3>1, TransformTyped, Transformed
      <4>2. out' = Append(out, transform_line(x)) /\ buf' = <<>>
        BY <1>1, <2>5 DEF x
      <4> QED  BY <1>2, <4>1, <4>2, LinesGrow
    <3>3. \/ /\ ShCut(script)[n + L] = [done |-> Append(Lines(out), x), line |-> <<>>]
             /\ Standing(ShScan(script)[n + L + 1])
          \/ /\ n + L = Len(script)
             /\ ShCut(script)[n + L] = [done |-> Lines(out), line |-> x]
      BY <2>3, <2>5 DEF Turn, L, x
    <3> QED  BY <3>1, <3>2, <3>3 DEF Reading
  <2> QED  BY <2>4, <2>5
<1>7. Reading(Len(script) - Len(rest), out, buf)' <=> Reading(n + L, out', buf')
  BY <1>1, <1>5 DEF Reading
<1>8. Alike' => Alike
  BY <1>1, AlikeStays
<1> QED  BY <1>1, <1>5, <1>6, <1>7, <1>8 DEF JoinInv

(* And so does the end of the script, where a line without a newline is    *)
(* written.                                                                *)
LEMMA EndOfScriptJoins ==
  ASSUME JoinInv, LinesInv', EndOfScript
  PROVE  JoinInv'
<1> DEFINE N == Len(script)
           e == ShCut(script)[N]
<1>1. /\ pc = "reading" /\ pc' = "done" /\ rest = <<>>
      /\ script' = script /\ rest' = rest /\ buf' = buf
      /\ out' = IF buf = <<>> THEN out ELSE Append(out, transform_line(buf))
  BY DEF EndOfScript
<1>2. LinesInv /\ out \in Seq(Written) /\ buf \in Seq(Characters) /\ N \in Nat /\ Len(rest) = 0
  BY <1>1 DEF JoinInv, LinesInv
<1>3. ShLines(script) = IF e.line = <<>> THEN e.done ELSE Append(e.done, e.line)
  BY DEF ShLines
<1>4. Lines(out') = IF buf = <<>> THEN Lines(out) ELSE Append(Lines(out), buf)
  <2>1. transform_line(buf) \in Written /\ transform_line(buf).line = buf
    BY <1>2, TransformTyped, Transformed
  <2> QED  BY <1>1, <1>2, <2>1, LinesGrow
<1>5. ASSUME Alike
      PROVE  Lines(out') = ShLines(script)
  <2>1. Reading(N, out, buf)
    <3>1. Reading(Len(script) - Len(rest), out, buf)
      BY <1>1, <1>5 DEF JoinInv
    <3> QED  BY <1>2, <3>1
  <2> HIDE DEF N
  <2>2. CASE e = [done |-> Lines(out), line |-> buf]
    <3> HIDE DEF e
    <3>1. e.done = Lines(out) /\ e.line = buf
      BY <2>2
    <3> QED  BY <1>3, <1>4, <3>1
  <2>3. CASE buf = <<>> /\ e.line # <<>> /\ Lines(out) = Append(e.done, e.line)
    <3> HIDE DEF e
    <3> QED  BY <1>3, <1>4, <2>3
  <2> QED  BY <2>1, <2>2, <2>3 DEF Reading
<1>6. Lines(out)' = Lines(out') /\ ShLines(script)' = ShLines(script)
  BY <1>1 DEF Lines
<1>7. Alike' => Alike
  BY <1>1, AlikeStays
<1> QED  BY <1>1, <1>5, <1>6, <1>7 DEF JoinInv

(* The lines written are sh's in every state.                              *)
LEMMA JoinInvAlways == Spec => []JoinInv
<1>1. Init /\ LinesInv => JoinInv
  <2> SUFFICES ASSUME Init, LinesInv PROVE JoinInv
    OBVIOUS
  <2>1. rest = script /\ out = <<>> /\ buf = <<>> /\ pc = "reading" /\ script \in Seq(Characters)
    BY DEF Init, LinesInv
  <2>2. Len(script) \in Nat /\ Len(script) - Len(rest) = 0
    BY <2>1
  <2>3. ShCut(script)[0] = NoCut /\ ShScan(script)[1] = ShPlain
    BY <2>1, ShCutRuns, ShScanRuns
  <2>4. Lines(out) = <<>>
    BY <2>1 DEF Lines
  <2>5. Reading(0, out, buf)
    <3>1. 0 + 1 = 1
      OBVIOUS
    <3> QED  BY <2>1, <2>3, <2>4, <3>1 DEF Reading, NoCut, Standing, ShPlain
  <2>6. \A i \in 1 .. Len(rest) : rest[i] = script[0 + i]
    BY <2>1
  <2> QED  BY <2>1, <2>2, <2>5, <2>6 DEF JoinInv
<1>2. JoinInv /\ LinesInv' /\ [Next]_vars => JoinInv'
  <2> SUFFICES ASSUME JoinInv, LinesInv', [Next]_vars PROVE JoinInv'
    OBVIOUS
  <2>1. ASSUME script' = script, rest' = rest, buf' = buf, out' = out,
               pc' = "failed" \/ pc' = pc
        PROVE  JoinInv'
    <3>1. Alike' => Alike
      BY <2>1, AlikeStays
    <3>2. /\ Reading(Len(script) - Len(rest), out, buf)' <=> Reading(Len(script) - Len(rest), out, buf)
          /\ (Lines(out) = ShLines(script))' <=> (Lines(out) = ShLines(script))
      BY <2>1 DEF Reading, Lines
    <3> QED  BY <2>1, <3>1, <3>2 DEF JoinInv
  <2>2. CASE GiveUp
    BY <2>1, <2>2 DEF GiveUp
  <2>3. CASE Finished \/ UNCHANGED vars
    BY <2>1, <2>3 DEF Finished, vars
  <2> QED  BY <2>2, <2>3, ReadLineJoins, EndOfScriptJoins DEF Next
<1> QED  BY <1>1, <1>2, LinesInvAlways, PTL DEF Spec

(* The lines the code cuts are the lines sh would read (JoinsAsSh).        *)
THEOREM JoinsAsShAlways == Spec => []JoinsAsSh
<1>1. JoinInv => JoinsAsSh
  BY DEF JoinInv, JoinsAsSh, Alike, Lines
<1> QED  BY <1>1, JoinInvAlways, PTL
===============================================================================
