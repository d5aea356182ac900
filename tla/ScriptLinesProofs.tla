-------------------------- MODULE ScriptLinesProofs ---------------------------
(***************************************************************************)
(* Theorems about the fallback shell's reading of a line, and about both   *)
(* readings of the same line, for every text and every size of the array of*)
(* arguments: parse_command takes the words of the line, in order, and the *)
(* two modes run the same simple lines in the background.                  *)
(***************************************************************************)
EXTENDS ScriptLines, PreprocessProofs

(* How many elements of a set of positions are in front of a position.     *)
Below(S, i) == Cardinality({j \in S : j < i})

(* They grow by one at each element, up to the size of the set.            *)
LEMMA BelowGrows ==
  ASSUME NEW n \in Nat, NEW S \in SUBSET (1 .. n)
  PROVE  /\ Below(S, 1) = 0
         /\ \A i \in 1 .. n + 1 : Below(S, i) \in Nat
         /\ \A i \in 1 .. n : Below(S, i + 1) = IF i \in S THEN Below(S, i) + 1 ELSE Below(S, i)
         /\ Below(S, n + 1) = Cardinality(S)
<1>1. \A i \in S : i \in Nat /\ i >= 1 /\ i <= n
  OBVIOUS
<1>2. Below(S, 1) = 0
  <2>1. {j \in S : j < 1} = {}
    <3>1. \A j \in S : ~(j < 1)
      BY <1>1
    <3> QED  BY <3>1
  <2> QED  BY <2>1, FS_EmptySet DEF Below
<1>3. ASSUME NEW i \in 1 .. n + 1
      PROVE  IsFiniteSet({j \in S : j < i}) /\ Below(S, i) \in Nat
  <2>1. IsFiniteSet(1 .. n)
    BY FS_Interval
  <2>2. {j \in S : j < i} \subseteq 1 .. n
    OBVIOUS
  <2>3. IsFiniteSet({j \in S : j < i})
    BY <2>1, <2>2, FS_Subset
  <2> QED  BY <2>3, FS_CardinalityType DEF Below
<1>4. ASSUME NEW i \in 1 .. n
      PROVE  Below(S, i + 1) = IF i \in S THEN Below(S, i) + 1 ELSE Below(S, i)
  <2> DEFINE A == {j \in S : j < i}
             B == {j \in S : j < i + 1}
  <2>1. IsFiniteSet(A)
    BY <1>3
  <2>2. \A j \in S : j < i + 1 <=> j < i \/ j = i
    BY <1>1
  <2>3. CASE i \in S
    <3>1. B = A \cup {i} /\ i \notin A
      <4>1. \A j : j \in B <=> j \in A \/ j = i
        BY <2>2, <2>3
      <4>2. ~(i < i)
        OBVIOUS
      <4>3. i \notin A
        BY <4>2
      <4> HIDE DEF A, B
      <4> QED  BY <4>1, <4>3
    <3> HIDE DEF A, B
    <3>2. Cardinality(B) = Cardinality(A) + 1
      BY <2>1, <3>1, FS_AddElement
    <3> QED  BY <2>3, <3>2 DEF A, B, Below
  <2>4. CASE i \notin S
    <3>1. B = A
      BY <2>2, <2>4
    <3> QED  BY <2>4, <3>1 DEF Below
  <2> QED  BY <2>3, <2>4
<1>5. Below(S, n + 1) = Cardinality(S)
  <2>1. {j \in S : j < n + 1} = S
    <3>1. \A j \in S : j < n + 1
      BY <1>1
    <3> QED  BY <3>1
  <2> QED  BY <2>1 DEF Below
<1> QED  BY <1>2, <1>3, <1>4, <1>5

(* Further on there are no fewer of them.                                  *)
LEMMA BelowRises ==
  ASSUME NEW n \in Nat, NEW S \in SUBSET (1 .. n),
         NEW i \in 1 .. n + 1, NEW k \in i .. n + 1
  PROVE  Below(S, i) <= Below(S, k)
<1> DEFINE T == {m \in Nat : m \in 1 .. n + 1 => Below(S, i) <= Below(S, m)}
<1>1. /\ \A m \in 1 .. n + 1 : Below(S, m) \in Nat
      /\ \A m \in 1 .. n : Below(S, m + 1) = IF m \in S THEN Below(S, m) + 1 ELSE Below(S, m)
  BY BelowGrows
<1>2. i \in T
  BY <1>1
<1>3. ASSUME NEW m \in i .. k - 1, m \in T
      PROVE  m + 1 \in T
  <2>1. m \in 1 .. n /\ m \in 1 .. n + 1 /\ m + 1 \in 1 .. n + 1 /\ i \in 1 .. n + 1
    OBVIOUS
  <2>2. Below(S, i) \in Nat /\ Below(S, m) \in Nat /\ Below(S, i) <= Below(S, m)
    BY <1>1, <1>3, <2>1
  <2>3. Below(S, m + 1) = Below(S, m) + 1 \/ Below(S, m + 1) = Below(S, m)
    BY <1>1, <2>1
  <2> QED  BY <2>1, <2>2, <2>3
<1> HIDE DEF T
<1>4. k \in T
  <2>1. i \in Nat /\ k \in Nat /\ k \in i .. k
    OBVIOUS
  <2>2. i .. k \subseteq T
    BY <1>2, <1>3, <2>1, Along
  <2> QED  BY <2>1, <2>2
<1> QED  BY <1>4 DEF T

(* No two elements have the same number in front of them.                  *)
LEMMA BelowDiffers ==
  ASSUME NEW n \in Nat, NEW S \in SUBSET (1 .. n), NEW i \in S, NEW k \in S,
         Below(S, i) = Below(S, k)
  PROVE  i = k
<1>1. \A a, b \in S : a < b => Below(S, a) # Below(S, b)
  <2> SUFFICES ASSUME NEW a \in S, NEW b \in S, a < b PROVE Below(S, a) # Below(S, b)
    OBVIOUS
  <2>1. a \in 1 .. n /\ a \in 1 .. n + 1 /\ a + 1 \in 1 .. n + 1 /\ b \in a + 1 .. n + 1
    OBVIOUS
  <2>2. Below(S, a) \in Nat /\ Below(S, a + 1) = Below(S, a) + 1 /\ Below(S, b) \in Nat
    BY <2>1, BelowGrows
  <2>3. Below(S, a + 1) <= Below(S, b)
    BY <2>1, BelowRises
  <2> QED  BY <2>2, <2>3
<1>2. i \in Nat /\ k \in Nat
  OBVIOUS
<1>3. ~(i < k) /\ ~(k < i)
  BY <1>1
<1> QED  BY <1>2, <1>3

-----------------------------------------------------------------------------
(* parse_command, one character after the other.                           *)
Parses == [args : Seq(Seq(Characters)), start : Nat \ {0}, in_quote : BOOLEAN]
NoParse == [args |-> <<>>, start |-> 1, in_quote |-> FALSE]

(* A word that ends becomes the last argument.                             *)
LEMMA CutTyped ==
  ASSUME NEW p \in Parses, NEW line \in Seq(Characters), NEW i \in 1 .. Len(line)
  PROVE  /\ SubSeq(line, p.start, i - 1) \in Seq(Characters)
         /\ Cut(p, line, i) = [args |-> Append(p.args, SubSeq(line, p.start, i - 1)),
                               start |-> i + 1, in_quote |-> p.in_quote]
         /\ Cut(p, line, i) \in Parses
<1> DEFINE w == SubSeq(line, p.start, i - 1)
           a == Append(p.args, w)
<1>1. p.args \in Seq(Seq(Characters)) /\ p.start \in Nat \ {0} /\ p.in_quote \in BOOLEAN
  BY DEF Parses
<1>2. w \in Seq(Characters)
  <2>1. \A j \in p.start .. i - 1 : line[j] \in Characters
    BY <1>1
  <2>2. p.start \in Int /\ i - 1 \in Int
    BY <1>1
  <2> QED  BY <2>1, <2>2, SubSeqProperties
<1>3. Cut(p, line, i) = [[p EXCEPT !.args = a] EXCEPT !.start = i + 1]
  BY DEF Cut
<1> HIDE DEF w
<1>4. a \in Seq(Seq(Characters))
  BY <1>1, <1>2
<1> HIDE DEF a
<1>5. [[p EXCEPT !.args = a] EXCEPT !.start = i + 1] = [args |-> a, start |-> i + 1, in_quote |-> p.in_quote]
  <2> DEFINE q == [p EXCEPT !.args = a]
             k == i + 1
             r == [q EXCEPT !.start = k]
  <2>1. q \in Parses /\ q.args = a /\ q.in_quote = p.in_quote
    BY <1>4 DEF Parses
  <2>2. k \in Nat \ {0}
    OBVIOUS
  <2> HIDE DEF q, k
  <2>3. r \in Parses /\ r.args = a /\ r.start = k /\ r.in_quote = p.in_quote
    BY <2>1, <2>2 DEF Parses
  <2> HIDE DEF r
  <2>4. r = [args |-> a, start |-> k, in_quote |-> p.in_quote]
    BY <2>3 DEF Parses
  <2> QED  BY <2>4 DEF r, q, k
<1>6. i + 1 \in Nat \ {0}
  OBVIOUS
<1>7. [args |-> a, start |-> i + 1, in_quote |-> p.in_quote] \in Parses
  BY <1>1, <1>4, <1>6 DEF Parses
<1> QED  BY <1>2, <1>3, <1>5, <1>7 DEF w, a

(* A character more leaves parse_command in one of its states.             *)
LEMMA ParsedTyped ==
  ASSUME NEW p \in Parses, NEW line \in Seq(Characters), NEW i \in 1 .. Len(line)
  PROVE  Parsed(p, line, i) \in Parses
<1> DEFINE c == Cut(p, line, i)
<1>1. c \in Parses
  BY CutTyped
<1> HIDE DEF c
<1>2. i + 1 \in Nat \ {0}
  OBVIOUS
<1>3. [c EXCEPT !.in_quote = FALSE] \in Parses
  BY <1>1 DEF Parses
<1>4. [p EXCEPT !.start = i + 1] \in Parses
  BY <1>2 DEF Parses
<1>5. [[p EXCEPT !.start = i + 1] EXCEPT !.in_quote = TRUE] \in Parses
  BY <1>2 DEF Parses
<1>6. Parsed(p, line, i) \in {p, c, [c EXCEPT !.in_quote = FALSE], [p EXCEPT !.start = i + 1],
                              [[p EXCEPT !.start = i + 1] EXCEPT !.in_quote = TRUE]}
  BY DEF Parsed, c
<1> QED  BY <1>1, <1>3, <1>4, <1>5, <1>6

(* The loop of parse_command: every state but the first is made from the   *)
(* one before and the character there.                                     *)
LEMMA ParseRuns ==
  ASSUME NEW line \in Seq(Characters)
  PROVE  LET p == Parse(line)
         IN  /\ p[0] = NoParse
             /\ \A i \in 0 .. Len(line) : p[i] \in Parses
             /\ \A i \in 1 .. Len(line) : p[i] = Parsed(p[i - 1], line, i)
<1> DEFINE N == Len(line)
           h == [x \in Parses \X (1 .. N) |-> Parsed(x[1], line, x[2])]
<1>1. N \in Nat
  OBVIOUS
<1>2. \A p \in Parses, i \in 1 .. N : Parsed(p, line, i) \in Parses
  BY ParsedTyped
<1> HIDE DEF N
<1>3. NoParse \in Parses
  <2>1. <<>> \in Seq(Seq(Characters))
    BY EmptySeq
  <2> QED  BY <2>1 DEF NoParse, Parses
<1>4. h \in [Parses \X (1 .. N) -> Parses]
  BY <1>2
<1>5. \A p \in Parses, i \in 1 .. N : h[<<p, i>>] = Parsed(p, line, i)
  OBVIOUS
<1> HIDE DEF h
<1>6. PICK g \in [0 .. N -> Parses] : Runs(g, N, NoParse, h)
  BY <1>1, <1>3, <1>4, Loop
<1> DEFINE Step(f) == [i \in 0 .. N |-> IF i = 0 THEN NoParse ELSE Parsed(f[i - 1], line, i)]
           parse == CHOOSE f : f = Step(f)
<1>7. Parse(line) = parse
  BY DEF Parse, NoParse, N
<1>8. g = Step(g)
  <2>1. ASSUME NEW i \in 0 .. N
        PROVE  g[i] = IF i = 0 THEN NoParse ELSE Parsed(g[i - 1], line, i)
    <3>1. CASE i = 0
      BY <1>6, <3>1 DEF Runs
    <3>2. CASE i # 0
      <4>1. i \in 1 .. N /\ i - 1 \in 0 .. N
        BY <1>1, <3>2
      <4>2. g[i - 1] \in Parses /\ g[i] = h[<<g[i - 1], i>>]
        BY <1>6, <4>1 DEF Runs
      <4> QED  BY <1>5, <3>2, <4>1, <4>2
    <3> QED  BY <3>1, <3>2
  <2> QED  BY <2>1
<1>9. parse = Step(parse)
  BY <1>8
<1> HIDE DEF parse
<1>10. parse[0] = NoParse /\ \A i \in 1 .. N : parse[i] = Parsed(parse[i - 1], line, i)
  <2>1. 0 \in 0 .. N /\ \A i \in 1 .. N : i \in 0 .. N /\ i # 0
    BY <1>1
  <2>2. \A i \in 0 .. N : parse[i] = IF i = 0 THEN NoParse ELSE Parsed(parse[i - 1], line, i)
    BY <1>9
  <2> QED  BY <2>1, <2>2
<1> DEFINE T == {i \in Nat : i \in 0 .. N => parse[i] \in Parses}
<1>11. 0 .. N \subseteq T
  <2>1. 0 \in T
    BY <1>3, <1>10
  <2>2. ASSUME NEW i \in 0 .. N - 1, i \in T
        PROVE  i + 1 \in T
    <3>1. i \in 0 .. N /\ i + 1 \in 1 .. N /\ (i + 1) - 1 = i
      BY <1>1
    <3>2. parse[i] \in Parses /\ parse[i + 1] = Parsed(parse[i], line, i + 1)
      BY <1>10, <2>2, <3>1
    <3>3. parse[i + 1] \in Parses
      BY <1>2, <3>1, <3>2
    <3> QED  BY <3>3
  <2> HIDE DEF T
  <2> QED  BY <1>1, <2>1, <2>2, Along
<1> QED  BY <1>7, <1>10, <1>11 DEF N

-----------------------------------------------------------------------------
(* The quote a position stands in, from one position to the next.          *)
LEMMA QuotedStep ==
  ASSUME NEW line \in Seq(Characters)
  PROVE  /\ ~Quoted(line, 1)
         /\ \A i \in 1 .. Len(line) :
              Quoted(line, i + 1) <=> (IF line[i] = "quote" THEN ~Quoted(line, i) ELSE Quoted(line, i))
<1> DEFINE N == Len(line)
           S == {j \in 1 .. N : line[j] = "quote"}
<1>1. N \in Nat /\ S \in SUBSET (1 .. N) /\ \A i \in 1 .. N : i \in S <=> line[i] = "quote"
  OBVIOUS
<1>2. ASSUME NEW i \in 1 .. N + 1
      PROVE  Quoted(line, i) <=> Below(S, i) % 2 = 1
  <2>1. {j \in 1 .. i - 1 : line[j] = "quote"} = {j \in S : j < i}
    <3>1. \A j : j \in 1 .. i - 1 <=> j \in 1 .. N /\ j < i
      BY <1>1
    <3> QED  BY <3>1
  <2> QED  BY <2>1 DEF Quoted, Below
<1> HIDE DEF S, N
<1>3. /\ Below(S, 1) = 0
      /\ \A i \in 1 .. N + 1 : Below(S, i) \in Nat
      /\ \A i \in 1 .. N : Below(S, i + 1) = IF i \in S THEN Below(S, i) + 1 ELSE Below(S, i)
  BY <1>1, BelowGrows
<1>4. ~Quoted(line, 1)
  <2>1. 1 \in 1 .. N + 1 /\ ~(0 % 2 = 1)
    BY <1>1
  <2> QED  BY <1>2, <1>3, <2>1
<1>5. ASSUME NEW i \in 1 .. N
      PROVE  Quoted(line, i + 1) <=> (IF line[i] = "quote" THEN ~Quoted(line, i) ELSE Quoted(line, i))
  <2> DEFINE x == Below(S, i)
             y == Below(S, i + 1)
  <2>1. i \in 1 .. N + 1 /\ i + 1 \in 1 .. N + 1
    BY <1>1
  <2>2. x \in Nat /\ y = IF i \in S THEN x + 1 ELSE x
    BY <1>3, <2>1
  <2>3. /\ Quoted(line, i) <=> x % 2 = 1
        /\ Quoted(line, i + 1) <=> y % 2 = 1
    BY <1>2, <2>1
  <2> HIDE DEF x, y
  <2>4. (x + 1) % 2 = 1 <=> ~(x % 2 = 1)
    BY <2>2, Parity
  <2>5. CASE line[i] = "quote"
    <3>1. y = x + 1
      BY <1>1, <2>2, <2>5
    <3>2. Quoted(line, i + 1) <=> (x + 1) % 2 = 1
      BY <2>3, <3>1
    <3> QED  BY <2>3, <2>4, <2>5, <3>2
  <2>6. CASE line[i] # "quote"
    <3>1. y = x
      BY <1>1, <2>2, <2>6
    <3> QED  BY <2>3, <2>6, <3>1
  <2> QED  BY <2>5, <2>6
<1> QED  BY <1>4, <1>5 DEF N

(* The words in their order.                                               *)
Rank(line, i) == Below(WordStarts(line), i)

(* Each word of the line stands in Words at its rank.                      *)
LEMMA WordsIs ==
  ASSUME NEW line \in Seq(Characters)
  PROVE  /\ WordStarts(line) \in SUBSET (1 .. Len(line))
         /\ Len(Words(line)) = Rank(line, Len(line) + 1)
         /\ Rank(line, Len(line) + 1) \in Nat
         /\ \A s \in WordStarts(line) : Words(line)[Rank(line, s) + 1] = WordAt(line, s)
<1> DEFINE N == Len(line)
           S == WordStarts(line)
           C == Cardinality(S)
           Nth(n) == CHOOSE i \in S : Cardinality({j \in S : j < i}) = n - 1
           words == [n \in 1 .. C |-> WordAt(line, Nth(n))]
<1>1. N \in Nat /\ S \in SUBSET (1 .. N)
  BY DEF WordStarts
<1>2. Words(line) = words
  BY DEF Words
<1> HIDE DEF S, N
<1>3. /\ C = Below(S, N + 1) /\ C \in Nat
      /\ \A i \in 1 .. N + 1 : Below(S, i) \in Nat
      /\ \A i \in 1 .. N : Below(S, i + 1) = IF i \in S THEN Below(S, i) + 1 ELSE Below(S, i)
  <2>1. N + 1 \in 1 .. N + 1
    BY <1>1
  <2> QED  BY <1>1, <2>1, BelowGrows
<1> HIDE DEF C
<1>4. Len(words) = C
  BY <1>3
<1>5. ASSUME NEW s \in S
      PROVE  words[Below(S, s) + 1] = WordAt(line, s)
  <2> DEFINE n == Below(S, s) + 1
  <2>1. /\ s \in 1 .. N /\ s \in 1 .. N + 1 /\ s + 1 \in 1 .. N + 1 /\ N + 1 \in s + 1 .. N + 1
    BY <1>1
  <2>2. Below(S, s) \in Nat /\ Below(S, s + 1) = n
    BY <1>3, <1>5, <2>1
  <2>3. Below(S, s + 1) <= Below(S, N + 1)
    BY <1>1, <2>1, BelowRises
  <2>4. n \in 1 .. C /\ n - 1 = Below(S, s)
    BY <1>3, <2>2, <2>3
  <2> HIDE DEF n
  <2>5. \A i \in S : Cardinality({j \in S : j < i}) = Below(S, i)
    BY DEF Below
  <2>6. Nth(n) \in S /\ Cardinality({j \in S : j < Nth(n)}) = n - 1
    <3>1. \E i \in S : Cardinality({j \in S : j < i}) = n - 1
      BY <2>4, <2>5
    <3> QED  BY <3>1
  <2> DEFINE m == Nth(n)
  <2>7. m \in S /\ Below(S, m) = Below(S, s)
    BY <2>4, <2>5, <2>6
  <2> HIDE DEF m
  <2>8. m = s
    BY <1>1, <2>7, BelowDiffers
  <2> QED  BY <2>4, <2>8 DEF m, n
<1> HIDE DEF words
<1> QED  BY <1>1, <1>2, <1>3, <1>4, <1>5 DEF S, N, Rank

(* Where a word ends.                                                      *)
LEMMA WordIs ==
  ASSUME NEW line \in Seq(Characters), NEW s \in 1 .. Len(line),
         NEW from, from = IF line[s] = "quote" THEN s + 1 ELSE s,
         NEW t \in from .. Len(line) + 1,
         t = Len(line) + 1 \/ (IF from = s THEN White(line[t]) ELSE line[t] = "quote"),
         \A k \in from .. t - 1 : ~(IF from = s THEN White(line[k]) ELSE line[k] = "quote")
  PROVE  /\ WordAt(line, s) = SubSeq(line, from, t - 1)
         /\ WordAt(line, s) \in Seq(Characters)
<1> DEFINE N == Len(line)
           Ends(j) == IF from = s THEN White(line[j]) ELSE line[j] = "quote"
           Here(j) == (j = N + 1 \/ Ends(j)) /\ \A k \in from .. j - 1 : ~Ends(k)
           to == CHOOSE j \in from .. N + 1 : Here(j)
<1>1. WordAt(line, s) = SubSeq(line, from, to - 1)
  BY DEF WordAt
<1>2. t \in from .. N + 1 /\ Here(t)
  OBVIOUS
<1> HIDE DEF Ends
<1>3. to \in from .. N + 1 /\ Here(to)
  BY <1>2
<1>4. from \in Nat /\ N \in Nat /\ from >= 1
  OBVIOUS
<1> HIDE DEF to
<1>5. ~(to < t)
  <2> SUFFICES ASSUME to < t PROVE FALSE
    OBVIOUS
  <2>1. to \in from .. t - 1 /\ to # N + 1
    BY <1>2, <1>3, <1>4
  <2> QED  BY <1>2, <1>3, <2>1
<1>6. ~(t < to)
  <2> SUFFICES ASSUME t < to PROVE FALSE
    OBVIOUS
  <2>1. t \in from .. to - 1 /\ t # N + 1
    BY <1>2, <1>3, <1>4
  <2> QED  BY <1>2, <1>3, <2>1
<1>7. to = t
  BY <1>3, <1>4, <1>5, <1>6
<1>8. SubSeq(line, from, t - 1) \in Seq(Characters)
  <2>1. \A j \in from .. t - 1 : line[j] \in Characters
    BY <1>4
  <2> QED  BY <1>4, <2>1, SubSeqProperties
<1> QED  BY <1>1, <1>7, <1>8

-----------------------------------------------------------------------------
(* What parse_command knows after i characters: it has taken the first     *)
(* words, and is full, or between words, or in the word that began at s.   *)
Taken(line, p) ==
  /\ Len(p.args) < MAX_ARGS
  /\ \A m \in 1 .. Len(p.args) : p.args[m] = Words(line)[m]
Full(line, p, i) == ~HasRoom(p.args) /\ Len(p.args) <= Rank(line, i + 1)
Between(line, p, i) ==
  /\ HasRoom(p.args) /\ p.start = i + 1 /\ ~p.in_quote /\ ~Quoted(line, i + 1)
  /\ Len(p.args) = Rank(line, i + 1)
  /\ i = 0 \/ White(line[i]) \/ (line[i] = "quote" /\ Quoted(line, i))
Bare(line, p, i, s) ==
  /\ line[s] # "quote" /\ p.start = s /\ ~p.in_quote /\ ~Quoted(line, i + 1)
  /\ \A k \in s .. i : ~White(line[k])
InQuotes(line, p, i, s) ==
  /\ line[s] = "quote" /\ p.start = s + 1 /\ p.in_quote /\ Quoted(line, i + 1)
  /\ \A k \in s + 1 .. i : line[k] # "quote"
Within(line, p, i, s) ==
  /\ HasRoom(p.args) /\ s <= i
  /\ Len(p.args) = Rank(line, s) /\ Rank(line, i + 1) = Rank(line, s) + 1
  /\ Bare(line, p, i, s) \/ InQuotes(line, p, i, s)
Wording(line, p, i) ==
  /\ Taken(line, p)
  /\ Full(line, p, i) \/ Between(line, p, i) \/ \E s \in WordStarts(line) : Within(line, p, i, s)

(* Ranges of one position and of none.                                     *)
LEMMA OneOrNone ==
  ASSUME NEW n \in Nat
  PROVE  (\A k \in n .. n : k = n) /\ \A k \in n + 1 .. n : FALSE
OBVIOUS

(* The next character either begins a word or not.                         *)
LEMMA RankStep ==
  ASSUME NEW line \in Seq(Characters), NEW i \in 0 .. Len(line) - 1
  PROVE  /\ Rank(line, i + 1) \in Nat /\ Rank(line, i + 2) \in Nat
         /\ i + 1 \in WordStarts(line) <=>
              ~White(line[i + 1]) /\ ~Quoted(line, i + 1) /\ (i = 0 \/ White(line[i]))
         /\ i + 1 \in WordStarts(line) => Rank(line, i + 2) = Rank(line, i + 1) + 1
         /\ i + 1 \notin WordStarts(line) => Rank(line, i + 2) = Rank(line, i + 1)
<1> DEFINE N == Len(line)
           S == WordStarts(line)
           e == i + 1
<1>1. /\ N \in Nat /\ e \in 1 .. N /\ e \in 1 .. N + 1 /\ (e = 1 <=> i = 0) /\ e - 1 = i /\ e + 1 = i + 2
      /\ DOMAIN line = 1 .. N
  OBVIOUS
<1>2. S \in SUBSET (1 .. N)
  BY WordsIs
<1>3. e \in S <=> ~White(line[e]) /\ ~Quoted(line, e) /\ (e = 1 \/ White(line[e - 1]))
  BY <1>1 DEF WordStarts
<1> HIDE DEF S, N, e
<1>4. Below(S, e) \in Nat /\ Below(S, e + 1) = IF e \in S THEN Below(S, e) + 1 ELSE Below(S, e)
  <2>1. /\ \A j \in 1 .. N + 1 : Below(S, j) \in Nat
        /\ \A j \in 1 .. N : Below(S, j + 1) = IF j \in S THEN Below(S, j) + 1 ELSE Below(S, j)
    BY <1>1, <1>2, BelowGrows
  <2> QED  BY <1>1, <2>1
<1>5. Below(S, i + 2) = IF e \in S THEN Below(S, e) + 1 ELSE Below(S, e)
  BY <1>1, <1>4
<1>6. /\ Below(S, e) \in Nat /\ Below(S, i + 2) \in Nat
      /\ e \in S <=> ~White(line[e]) /\ ~Quoted(line, e) /\ (i = 0 \/ White(line[i]))
      /\ e \in S => Below(S, i + 2) = Below(S, e) + 1
      /\ e \notin S => Below(S, i + 2) = Below(S, e)
  BY <1>1, <1>3, <1>4, <1>5
<1> QED  BY <1>6 DEF S, e, Rank

(* A finished word is the next argument.                                   *)
LEMMA WordTaken ==
  ASSUME NEW line \in Seq(Characters), NEW args \in Seq(Seq(Characters)),
         \A m \in 1 .. Len(args) : args[m] = Words(line)[m],
         NEW s \in WordStarts(line), Len(args) = Rank(line, s),
         WordAt(line, s) \in Seq(Characters)
  PROVE  LET a == Append(args, WordAt(line, s))
         IN  /\ a \in Seq(Seq(Characters)) /\ Len(a) = Rank(line, s) + 1
             /\ \A m \in 1 .. Len(a) : a[m] = Words(line)[m]
<1> DEFINE w == WordAt(line, s)
           a == Append(args, w)
           words == Words(line)
<1>1. words[Rank(line, s) + 1] = w
  BY WordsIs
<1>2. \A m \in 1 .. Len(args) : args[m] = words[m]
  OBVIOUS
<1>3. Len(args) \in Nat /\ w \in Seq(Characters)
  OBVIOUS
<1> HIDE DEF w
<1>4. /\ a \in Seq(Seq(Characters)) /\ Len(a) = Len(args) + 1
      /\ \A m \in 1 .. Len(args) + 1 : a[m] = IF m <= Len(args) THEN args[m] ELSE w
  BY <1>3
<1> HIDE DEF a, words
<1>5. ASSUME NEW m \in 1 .. Len(args) + 1
      PROVE  a[m] = words[m]
  <2>1. CASE m <= Len(args)
    <3>1. m \in 1 .. Len(args)
      BY <1>3, <2>1
    <3> QED  BY <1>2, <1>4, <2>1, <3>1
  <2>2. CASE ~(m <= Len(args))
    <3>1. m = Rank(line, s) + 1
      BY <1>3, <2>2
    <3> QED  BY <1>1, <1>4, <2>2, <3>1
  <2> QED  BY <2>1, <2>2
<1> QED  BY <1>4, <1>5 DEF w, a, words

(* What Parsed does with a character.                                      *)
LEMMA ParsedIs ==
  ASSUME NEW p \in Parses, NEW line, NEW i \in Nat, HasRoom(p.args)
  PROVE  /\ line[i] = "quote" /\ p.in_quote =>
              Parsed(p, line, i) = [Cut(p, line, i) EXCEPT !.in_quote = FALSE]
         /\ line[i] = "quote" /\ ~p.in_quote =>
              Parsed(p, line, i) = [args |-> p.args, start |-> i + 1, in_quote |-> TRUE]
         /\ White(line[i]) /\ ~p.in_quote /\ p.start = i =>
              Parsed(p, line, i) = [args |-> p.args, start |-> i + 1, in_quote |-> FALSE]
         /\ White(line[i]) /\ ~p.in_quote /\ p.start # i =>
              Parsed(p, line, i) = Cut(p, line, i)
         /\ line[i] # "quote" /\ (White(line[i]) => p.in_quote) => Parsed(p, line, i) = p
<1> DEFINE c == Cut(p, line, i)
           d == [c EXCEPT !.in_quote = FALSE]
           a == [p EXCEPT !.start = i + 1]
           b == [a EXCEPT !.in_quote = TRUE]
           k == i + 1
<1>1. White(line[i]) => line[i] # "quote"
  BY DEF White
<1>2. k \in Nat \ {0}
  OBVIOUS
<1>3. a = [p EXCEPT !.start = k]
  OBVIOUS
<1> HIDE DEF c, k, a
<1>4. a \in Parses /\ a.args = p.args /\ a.start = k /\ a.in_quote = p.in_quote
  BY <1>2, <1>3 DEF Parses
<1>5. b = [args |-> p.args, start |-> k, in_quote |-> TRUE]
  <2>1. b \in Parses /\ b.args = p.args /\ b.start = k /\ b.in_quote = TRUE
    BY <1>4 DEF Parses
  <2> HIDE DEF b
  <2> QED  BY <2>1 DEF Parses
<1>6. ~p.in_quote => a = [args |-> p.args, start |-> k, in_quote |-> FALSE]
  BY <1>4 DEF Parses
<1> HIDE DEF b, d
<1>7. Parsed(p, line, i) =
        CASE ~HasRoom(p.args) -> p
          [] HasRoom(p.args) /\ line[i] = "quote" -> IF p.in_quote THEN d ELSE b
          [] HasRoom(p.args) /\ White(line[i]) /\ ~p.in_quote ->
               IF i # p.start THEN c ELSE a
          [] OTHER -> p
  BY DEF Parsed, a, b, c, d
<1>8. line[i] = "quote" => Parsed(p, line, i) = IF p.in_quote THEN d ELSE b
  <2> DEFINE x == IF p.in_quote THEN d ELSE b
             y == IF i # p.start THEN c ELSE a
  <2> HIDE DEF x, y
  <2>1. Parsed(p, line, i) =
          CASE ~HasRoom(p.args) -> p
            [] HasRoom(p.args) /\ line[i] = "quote" -> x
            [] HasRoom(p.args) /\ White(line[i]) /\ ~p.in_quote -> y
            [] OTHER -> p
    BY <1>7 DEF x, y
  <2> QED  BY <1>1, <2>1 DEF x
<1>9. White(line[i]) /\ ~p.in_quote => Parsed(p, line, i) = IF i # p.start THEN c ELSE a
  BY <1>1, <1>7
<1>10. line[i] # "quote" /\ (White(line[i]) => p.in_quote) => Parsed(p, line, i) = p
  BY <1>7
<1> QED  BY <1>5, <1>6, <1>8, <1>9, <1>10 DEF c, d, k

(* Once it is full parse_command takes no further word.                    *)
LEMMA FromFull ==
  ASSUME NEW line \in Seq(Characters), NEW i \in 0 .. Len(line) - 1, NEW p \in Parses,
         Taken(line, p), Full(line, p, i)
  PROVE  Wording(line, Parsed(p, line, i + 1), i + 1)
<1>1. Parsed(p, line, i + 1) = p
  BY DEF Parsed, Full
<1>2. Rank(line, i + 1) \in Nat /\ Rank(line, i + 2) \in Nat /\ Rank(line, i + 2) >= Rank(line, i + 1)
  BY RankStep
<1>3. Len(p.args) \in Nat /\ (i + 1) + 1 = i + 2
  BY DEF Parses
<1>4. Full(line, p, i + 1)
  <2>1. Rank(line, (i + 1) + 1) = Rank(line, i + 2)
    BY <1>3
  <2>2. Len(p.args) <= Rank(line, i + 2) /\ ~HasRoom(p.args)
    BY <1>2, <1>3 DEF Full, Taken
  <2> QED  BY <2>1, <2>2 DEF Full
<1> QED  BY <1>1, <1>4 DEF Wording

(* Between words a character is white, or begins a word, with a quote or   *)
(* without.                                                                *)
LEMMA FromBetween ==
  ASSUME NEW line \in Seq(Characters), QuotesAroundWords(line),
         NEW i \in 0 .. Len(line) - 1, NEW p \in Parses,
         Taken(line, p), Between(line, p, i)
  PROVE  Wording(line, Parsed(p, line, i + 1), i + 1)
<1> DEFINE e == i + 1
           r == Parsed(p, line, e)
<1>1. /\ i \in Nat /\ e \in 1 .. Len(line) /\ DOMAIN line = 1 .. Len(line) /\ e + 1 = i + 2 /\ e # 0
      /\ e \in Nat /\ e <= e
      /\ i # 0 => i \in 1 .. Len(line) /\ i # Len(line)
  OBVIOUS
<1>2. /\ HasRoom(p.args) /\ p.start = e /\ ~p.in_quote /\ ~Quoted(line, e)
      /\ Len(p.args) = Rank(line, e)
      /\ i = 0 \/ White(line[i]) \/ (line[i] = "quote" /\ Quoted(line, i))
  BY DEF Between
<1>3. /\ Rank(line, e) \in Nat
      /\ e \in WordStarts(line) <=>
           ~White(line[e]) /\ ~Quoted(line, e) /\ (i = 0 \/ White(line[i]))
      /\ e \in WordStarts(line) => Rank(line, i + 2) = Rank(line, e) + 1
      /\ e \notin WordStarts(line) => Rank(line, i + 2) = Rank(line, e)
  BY RankStep
<1>4. Quoted(line, e + 1) <=> (IF line[e] = "quote" THEN ~Quoted(line, e) ELSE Quoted(line, e))
  BY <1>1, QuotedStep
<1>5. i = 0 \/ White(line[i]) \/ White(line[e])
  <2> SUFFICES ASSUME i # 0, line[i] = "quote" /\ Quoted(line, i) PROVE White(line[e])
    BY <1>2
  <2> QED  BY <1>1 DEF QuotesAroundWords
<1>6. line[e] = "quote" => e \in WordStarts(line)
  BY <1>1, <1>2 DEF QuotesAroundWords
<1>7. (\A k \in e .. e : k = e) /\ \A k \in e + 1 .. e : FALSE
  BY OneOrNone
<1>8. line[e] = "quote" => ~White(line[e])
  BY DEF White
<1> HIDE DEF e, r
<1>9. CASE White(line[e])
  <2> DEFINE q == [args |-> p.args, start |-> e + 1, in_quote |-> FALSE]
  <2>1. line[e] # "quote" /\ e \notin WordStarts(line)
    BY <1>3, <1>8, <1>9
  <2>2. r = q
    BY <1>1, <1>2, <1>9, ParsedIs DEF r
  <2>3. q.args = p.args /\ q.start = e + 1 /\ ~q.in_quote
    OBVIOUS
  <2> HIDE DEF q
  <2>4. Between(line, q, e) /\ Taken(line, q)
    BY <1>1, <1>2, <1>3, <1>4, <1>9, <2>1, <2>3 DEF Between, Taken
  <2> QED  BY <2>2, <2>4 DEF Wording, r, e
<1>10. CASE line[e] = "quote"
  <2> DEFINE q == [args |-> p.args, start |-> e + 1, in_quote |-> TRUE]
  <2>1. e \in WordStarts(line)
    BY <1>6, <1>10
  <2>2. r = q
    BY <1>1, <1>2, <1>10, ParsedIs DEF r
  <2>3. q.args = p.args /\ q.start = e + 1 /\ q.in_quote
    OBVIOUS
  <2> HIDE DEF q
  <2>4. InQuotes(line, q, e, e)
    BY <1>2, <1>4, <1>7, <1>10, <2>3 DEF InQuotes
  <2>5. Within(line, q, e, e) /\ Taken(line, q)
    BY <1>1, <1>2, <1>3, <2>1, <2>3, <2>4 DEF Within, Taken
  <2> QED  BY <2>1, <2>2, <2>5 DEF Wording, r, e
<1>11. CASE ~White(line[e]) /\ line[e] # "quote"
  <2>1. e \in WordStarts(line)
    BY <1>2, <1>3, <1>5, <1>11
  <2>2. r = p
    BY <1>1, <1>2, <1>11, ParsedIs DEF r
  <2>3. Bare(line, p, e, e)
    BY <1>2, <1>4, <1>7, <1>11 DEF Bare
  <2>4. Within(line, p, e, e)
    BY <1>1, <1>2, <1>3, <2>1, <2>3 DEF Within
  <2> QED  BY <2>1, <2>2, <2>4 DEF Wording, r, e
<1> QED  BY <1>9, <1>10, <1>11

(* The character that ends a word leaves parse_command between words.      *)
LEMMA WordEnds ==
  ASSUME NEW line \in Seq(Characters), NEW i \in 1 .. Len(line), NEW p \in Parses,
         Taken(line, p), HasRoom(p.args),
         NEW s \in WordStarts(line), Len(p.args) = Rank(line, s),
         Rank(line, s) \in Nat, Rank(line, i + 1) = Rank(line, s) + 1,
         NEW w \in Seq(Characters), w = WordAt(line, s),
         ~Quoted(line, i + 1), White(line[i]) \/ (line[i] = "quote" /\ Quoted(line, i)),
         NEW q, q = [args |-> Append(p.args, w), start |-> i + 1, in_quote |-> FALSE]
  PROVE  Wording(line, q, i)
<1> DEFINE a == Append(p.args, w)
<1>1. p.args \in Seq(Seq(Characters)) /\ \A m \in 1 .. Len(p.args) : p.args[m] = Words(line)[m]
  BY DEF Parses, Taken
<1>2. /\ a \in Seq(Seq(Characters)) /\ Len(a) = Rank(line, s) + 1
      /\ \A m \in 1 .. Len(a) : a[m] = Words(line)[m]
  <2>1. /\ Append(p.args, WordAt(line, s)) \in Seq(Seq(Characters))
        /\ Len(Append(p.args, WordAt(line, s))) = Rank(line, s) + 1
        /\ \A m \in 1 .. Len(Append(p.args, WordAt(line, s))) :
             Append(p.args, WordAt(line, s))[m] = Words(line)[m]
    BY <1>1, WordTaken
  <2> QED  BY <2>1
<1>3. Len(p.args) < MAX_ARGS - 1 /\ MAX_ARGS \in Nat
  BY CommandLineAssumption DEF HasRoom
<1> HIDE DEF a
<1>4. q.args = a /\ q.start = i + 1 /\ ~q.in_quote
  BY DEF a
<1>5. Taken(line, q)
  <2>1. Len(a) < MAX_ARGS
    BY <1>2, <1>3
  <2> QED  BY <1>2, <1>4, <2>1 DEF Taken
<1>6. Len(a) = Rank(line, i + 1)
  BY <1>2
<1>7. CASE HasRoom(a)
  BY <1>4, <1>5, <1>6, <1>7 DEF Wording, Between
<1>8. CASE ~HasRoom(a)
  <2>1. Rank(line, i + 1) <= Rank(line, i + 1)
    OBVIOUS
  <2> QED  BY <1>4, <1>5, <1>6, <1>8, <2>1 DEF Wording, Full
<1> QED  BY <1>7, <1>8

(* In a bare word a character goes on with it, or ends it if it is white.  *)
LEMMA FromBare ==
  ASSUME NEW line \in Seq(Characters), QuotesAroundWords(line),
         NEW i \in 0 .. Len(line) - 1, NEW p \in Parses, Taken(line, p),
         NEW s \in WordStarts(line), Within(line, p, i, s), Bare(line, p, i, s)
  PROVE  Wording(line, Parsed(p, line, i + 1), i + 1)
<1> DEFINE e == i + 1
           r == Parsed(p, line, e)
<1>1. s \in 1 .. Len(line) /\ DOMAIN line = 1 .. Len(line)
  BY WordsIs
<1>2. /\ HasRoom(p.args) /\ s <= i
      /\ Len(p.args) = Rank(line, s) /\ Rank(line, e) = Rank(line, s) + 1
      /\ line[s] # "quote" /\ p.start = s /\ ~p.in_quote /\ ~Quoted(line, e)
      /\ \A k \in s .. i : ~White(line[k])
  BY DEF Within, Bare
<1>3. /\ i \in Nat /\ e \in Nat /\ e \in 1 .. Len(line) /\ e + 1 = i + 2 /\ i # 0 /\ s # e /\ s <= e
      /\ e \in s .. Len(line) + 1 /\ e - 1 = i /\ i \in s .. i
  BY <1>1, <1>2
<1>4. ~White(line[i])
  BY <1>2, <1>3
<1>5. /\ e \notin WordStarts(line) /\ Rank(line, i + 2) = Rank(line, e) /\ Rank(line, e) \in Nat
  BY <1>3, <1>4, RankStep
<1>6. line[e] # "quote"
  BY <1>1, <1>2, <1>3, <1>5 DEF QuotesAroundWords
<1>7. ~Quoted(line, e + 1)
  BY <1>2, <1>3, <1>6, QuotedStep
<1>8. p.args \in Seq(Seq(Characters)) /\ Len(p.args) \in Nat
  BY DEF Parses
<1> HIDE DEF e, r
<1>9. CASE White(line[e])
  <2> DEFINE w == SubSeq(line, s, e - 1)
  <2>1. WordAt(line, s) = w /\ w \in Seq(Characters)
    <3>1. \A k \in s .. e - 1 : ~White(line[k])
      BY <1>2, <1>3
    <3> QED  BY <1>1, <1>2, <1>3, <1>9, <3>1, WordIs
  <2>2. r = [args |-> Append(p.args, w), start |-> e + 1, in_quote |-> FALSE]
    <3>1. r = Cut(p, line, e)
      BY <1>2, <1>3, <1>9, ParsedIs DEF r
    <3>2. Cut(p, line, e) = [args |-> Append(p.args, SubSeq(line, p.start, e - 1)),
                             start |-> e + 1, in_quote |-> p.in_quote]
      BY <1>3, CutTyped
    <3>3. p.in_quote = FALSE
      BY <1>2 DEF Parses
    <3> QED  BY <1>2, <3>1, <3>2, <3>3
  <2> HIDE DEF w
  <2>3. Rank(line, s) \in Nat /\ Rank(line, e + 1) = Rank(line, s) + 1
    BY <1>2, <1>3, <1>5, <1>8
  <2>4. Wording(line, r, e)
    BY <1>2, <1>3, <1>7, <1>9, <2>1, <2>2, <2>3, WordEnds
  <2> QED  BY <2>4 DEF r, e
<1>10. CASE ~White(line[e])
  <2>1. r = p
    BY <1>2, <1>3, <1>6, <1>10, ParsedIs DEF r
  <2>2. \A k \in s .. e : ~White(line[k])
    <3>1. \A k \in s .. e : k \in s .. i \/ k = e
      BY <1>1, <1>3
    <3> QED  BY <1>2, <1>10, <3>1
  <2>3. Within(line, p, e, s)
    BY <1>2, <1>3, <1>5, <1>7, <2>2 DEF Within, Bare
  <2> QED  BY <2>1, <2>3 DEF Wording, r, e
<1> QED  BY <1>9, <1>10

(* In a quoted word a character goes on with it, or ends it if it is the   *)
(* other quote.                                                            *)
LEMMA FromInQuotes ==
  ASSUME NEW line \in Seq(Characters),
         NEW i \in 0 .. Len(line) - 1, NEW p \in Parses, Taken(line, p),
         NEW s \in WordStarts(line), Within(line, p, i, s), InQuotes(line, p, i, s)
  PROVE  Wording(line, Parsed(p, line, i + 1), i + 1)
<1> DEFINE e == i + 1
           r == Parsed(p, line, e)
<1>1. s \in 1 .. Len(line) /\ DOMAIN line = 1 .. Len(line)
  BY WordsIs
<1>2. /\ HasRoom(p.args) /\ s <= i
      /\ Len(p.args) = Rank(line, s) /\ Rank(line, e) = Rank(line, s) + 1
      /\ line[s] = "quote" /\ p.start = s + 1 /\ p.in_quote /\ Quoted(line, e)
      /\ \A k \in s + 1 .. i : line[k] # "quote"
  BY DEF Within, InQuotes
<1>3. /\ i \in Nat /\ e \in Nat /\ e \in 1 .. Len(line) /\ e + 1 = i + 2 /\ s <= e
      /\ e \in s + 1 .. Len(line) + 1 /\ e - 1 = i /\ s + 1 # s
  BY <1>1, <1>2
<1>4. /\ e \notin WordStarts(line) /\ Rank(line, i + 2) = Rank(line, e) /\ Rank(line, e) \in Nat
  BY <1>2, RankStep
<1>5. Quoted(line, e + 1) <=> line[e] # "quote"
  BY <1>2, <1>3, QuotedStep
<1>6. p.args \in Seq(Seq(Characters)) /\ Len(p.args) \in Nat
  BY DEF Parses
<1> HIDE DEF e, r
<1>7. CASE line[e] = "quote"
  <2> DEFINE w == SubSeq(line, s + 1, e - 1)
  <2>1. WordAt(line, s) = w /\ w \in Seq(Characters)
    <3> DEFINE f == s + 1
    <3>1. /\ f = IF line[s] = "quote" THEN s + 1 ELSE s
          /\ f # s /\ e \in f .. Len(line) + 1
          /\ \A k \in f .. e - 1 : line[k] # "quote"
      BY <1>2, <1>3
    <3> HIDE DEF f
    <3>2. WordAt(line, s) = SubSeq(line, f, e - 1) /\ WordAt(line, s) \in Seq(Characters)
      BY <1>1, <1>7, <3>1, WordIs
    <3> QED  BY <3>2 DEF f
  <2>2. r = [args |-> Append(p.args, w), start |-> e + 1, in_quote |-> FALSE]
    <3> DEFINE c == Cut(p, line, e)
    <3>1. r = [c EXCEPT !.in_quote = FALSE]
      BY <1>2, <1>3, <1>7, ParsedIs DEF r
    <3>2. c = [args |-> Append(p.args, SubSeq(line, p.start, e - 1)),
               start |-> e + 1, in_quote |-> p.in_quote]
      BY <1>3, CutTyped
    <3>3. c.args = Append(p.args, w) /\ c.start = e + 1 /\ c \in Parses
      <4>1. c \in Parses
        BY <1>3, CutTyped
      <4>2. w = SubSeq(line, p.start, e - 1)
        BY <1>2
      <4> HIDE DEF c, w
      <4> QED  BY <3>2, <4>1, <4>2
    <3> HIDE DEF c, w
    <3> DEFINE d == [c EXCEPT !.in_quote = FALSE]
    <3>4. d \in Parses /\ d.args = c.args /\ d.start = c.start /\ d.in_quote = FALSE
      BY <3>3 DEF Parses
    <3> HIDE DEF d
    <3>5. d = [args |-> c.args, start |-> c.start, in_quote |-> FALSE]
      BY <3>4 DEF Parses
    <3> QED  BY <3>1, <3>3, <3>5 DEF d
  <2> HIDE DEF w
  <2>3. Rank(line, s) \in Nat /\ Rank(line, e + 1) = Rank(line, s) + 1
    BY <1>2, <1>3, <1>4, <1>6
  <2>4. Wording(line, r, e)
    BY <1>2, <1>3, <1>5, <1>7, <2>1, <2>2, <2>3, WordEnds
  <2> QED  BY <2>4 DEF r, e
<1>8. CASE line[e] # "quote"
  <2>1. r = p
    BY <1>2, <1>3, <1>8, ParsedIs DEF r
  <2>2. \A k \in s + 1 .. e : line[k] # "quote"
    <3>1. \A k \in s + 1 .. e : k \in s + 1 .. i \/ k = e
      BY <1>1, <1>3
    <3> QED  BY <1>2, <1>8, <3>1
  <2>3. Within(line, p, e, s)
    BY <1>2, <1>3, <1>4, <1>5, <1>8, <2>2 DEF Within, InQuotes
  <2> QED  BY <2>1, <2>3 DEF Wording, r, e
<1> QED  BY <1>7, <1>8

(* So at the end of the line parse_command has taken its words.            *)
LEMMA WordingHolds ==
  ASSUME NEW line \in Seq(Characters), QuotesAroundWords(line)
  PROVE  Wording(line, Parse(line)[Len(line)], Len(line))
<1> DEFINE N == Len(line)
           p == Parse(line)
           T == {i \in Nat : i \in 0 .. N => Wording(line, p[i], i)}
<1>1. N \in Nat
  OBVIOUS
<1>2. /\ p[0] = NoParse
      /\ \A i \in 0 .. N : p[i] \in Parses
      /\ \A i \in 1 .. N : p[i] = Parsed(p[i - 1], line, i)
  BY ParseRuns
<1> HIDE DEF p
<1>3. Wording(line, NoParse, 0)
  <2>1. ~Quoted(line, 1) /\ Rank(line, 1) = 0
    BY <1>1, QuotedStep, WordsIs, BelowGrows DEF Rank
  <2>2. NoParse.args = <<>> /\ NoParse.start = 1 /\ ~NoParse.in_quote
    BY DEF NoParse
  <2>3. HasRoom(<<>>) /\ 0 < MAX_ARGS
    BY CommandLineAssumption DEF HasRoom
  <2>4. Taken(line, NoParse)
    BY <2>2, <2>3 DEF Taken
  <2>5. Between(line, NoParse, 0)
    BY <2>1, <2>2, <2>3 DEF Between
  <2> QED  BY <2>4, <2>5 DEF Wording
<1>4. 0 \in T
  BY <1>2, <1>3
<1>5. ASSUME NEW i \in 0 .. N - 1, i \in T
      PROVE  i + 1 \in T
  <2>1. i \in 0 .. N /\ i + 1 \in 1 .. N /\ (i + 1) - 1 = i /\ i + 1 \in 0 .. N
    BY <1>1
  <2>2. p[i] \in Parses /\ Wording(line, p[i], i) /\ p[i + 1] = Parsed(p[i], line, i + 1)
    BY <1>2, <1>5, <2>1
  <2>3. Taken(line, p[i])
    BY <2>2 DEF Wording
  <2>4. CASE Full(line, p[i], i)
    BY <2>1, <2>2, <2>3, <2>4, FromFull
  <2>5. CASE Between(line, p[i], i)
    BY <2>1, <2>2, <2>3, <2>5, FromBetween
  <2>6. ASSUME NEW s \in WordStarts(line), Within(line, p[i], i, s)
        PROVE  i + 1 \in T
    <3>1. Bare(line, p[i], i, s) \/ InQuotes(line, p[i], i, s)
      BY <2>6 DEF Within
    <3>2. Wording(line, p[i + 1], i + 1)
      BY <2>1, <2>2, <2>3, <2>6, <3>1, FromBare, FromInQuotes
    <3> QED  BY <3>2
  <2> QED  BY <2>2, <2>4, <2>5, <2>6 DEF Wording
<1> HIDE DEF T
<1>6. N \in T
  <2>1. 0 .. N \subseteq T /\ N \in 0 .. N
    BY <1>1, <1>4, <1>5, Along
  <2> QED  BY <2>1
<1> QED  BY <1>1, <1>6 DEF T, p, N

(* The array never fills up: there is room for the NULL at its end.        *)
LEMMA LeavesRoom ==
  ASSUME NEW line \in Seq(Characters)
  PROVE  /\ parse_command(line) \in Seq(Seq(Characters))
         /\ Len(parse_command(line)) < MAX_ARGS
<1> DEFINE N == Len(line)
           p == Parse(line)
           T == {i \in Nat : i \in 0 .. N => Len(p[i].args) < MAX_ARGS}
<1>1. N \in Nat
  OBVIOUS
<1>2. /\ p[0] = NoParse
      /\ \A i \in 0 .. N : p[i] \in Parses
      /\ \A i \in 1 .. N : p[i] = Parsed(p[i - 1], line, i)
  BY ParseRuns
<1>3. parse_command(line) =
        IF HasRoom(p[N].args) /\ p[N].start <= N
        THEN Append(p[N].args, SubSeq(line, p[N].start, N))
        ELSE p[N].args
  BY DEF parse_command
<1>4. MAX_ARGS \in Nat /\ MAX_ARGS > 1
  BY CommandLineAssumption
<1> HIDE DEF p
<1>5. 0 \in T
  <2>1. p[0].args = <<>>
    BY <1>2 DEF NoParse
  <2> QED  BY <1>4, <2>1
<1>6. ASSUME NEW i \in 0 .. N - 1, i \in T
      PROVE  i + 1 \in T
  <2> DEFINE e == i + 1
             q == p[i]
             a == Append(q.args, SubSeq(line, q.start, e - 1))
  <2>1. i \in 0 .. N /\ e \in 1 .. N /\ e - 1 = i /\ e \in Nat
    BY <1>1
  <2>2. q \in Parses /\ Len(q.args) < MAX_ARGS /\ p[e] = Parsed(q, line, e)
    BY <1>2, <1>6, <2>1
  <2>3. q.args \in Seq(Seq(Characters)) /\ Len(q.args) \in Nat
    BY <2>2 DEF Parses
  <2> HIDE DEF q, e
  <2>4. CASE ~HasRoom(q.args)
    <3>1. p[e] = q
      BY <2>2, <2>4 DEF Parsed
    <3> QED  BY <2>1, <2>2, <3>1 DEF e
  <2>5. CASE HasRoom(q.args)
    <3>1. SubSeq(line, q.start, e - 1) \in Seq(Characters) /\ Cut(q, line, e).args = a
      <4>1. /\ SubSeq(line, q.start, e - 1) \in Seq(Characters)
            /\ Cut(q, line, e) = [args |-> a, start |-> e + 1, in_quote |-> q.in_quote]
        BY <2>1, <2>2, CutTyped
      <4> HIDE DEF a
      <4> QED  BY <4>1
    <3>2. Len(a) = Len(q.args) + 1
      BY <2>3, <3>1
    <3>3. Len(a) < MAX_ARGS
      BY <1>4, <2>3, <2>5, <3>2 DEF HasRoom
    <3> DEFINE c == Cut(q, line, e)
               d == [c EXCEPT !.in_quote = FALSE]
    <3>4. c.args = a /\ d.args = a
      <4>1. c \in Parses /\ c.args = a
        BY <2>1, <2>2, <3>1, CutTyped
      <4> HIDE DEF c, a
      <4> QED  BY <4>1 DEF Parses
    <3> HIDE DEF c, d
    <3>5. \/ p[e] = d \/ p[e] = c \/ p[e] = q
          \/ p[e] = [args |-> q.args, start |-> e + 1, in_quote |-> TRUE]
          \/ p[e] = [args |-> q.args, start |-> e + 1, in_quote |-> FALSE]
      BY <2>1, <2>2, <2>5, ParsedIs DEF c, d
    <3>6. p[e].args \in {a, q.args}
      <4> HIDE DEF a
      <4> QED  BY <3>4, <3>5
    <3>7. Len(p[e].args) < MAX_ARGS
      <4> HIDE DEF a
      <4> QED  BY <2>2, <3>3, <3>6
    <3> QED  BY <2>1, <3>7 DEF e
  <2> QED  BY <2>4, <2>5
<1> HIDE DEF T
<1>7. N \in T
  <2>1. 0 .. N \subseteq T /\ N \in 0 .. N
    BY <1>1, <1>5, <1>6, Along
  <2> QED  BY <2>1
<1> DEFINE q == p[N]
           w == SubSeq(line, q.start, N)
<1>8. q \in Parses /\ Len(q.args) < MAX_ARGS
  <2>1. N \in 0 .. N
    BY <1>1
  <2> QED  BY <1>2, <1>7, <2>1 DEF T
<1> HIDE DEF q
<1>9. q.args \in Seq(Seq(Characters)) /\ q.start \in Nat \ {0} /\ Len(q.args) \in Nat
  BY <1>8 DEF Parses
<1>10. w \in Seq(Characters)
  <2>1. \A j \in q.start .. N : line[j] \in Characters
    BY <1>9
  <2>2. q.start \in Int /\ N \in Int
    BY <1>1, <1>9
  <2> QED  BY <2>1, <2>2, SubSeqProperties
<1>11. parse_command(line) = IF HasRoom(q.args) /\ q.start <= N THEN Append(q.args, w) ELSE q.args
  BY <1>3 DEF q
<1> HIDE DEF w, N
<1>12. Append(q.args, w) \in Seq(Seq(Characters)) /\ Len(Append(q.args, w)) = Len(q.args) + 1
  BY <1>9, <1>10
<1>13. HasRoom(q.args) => Len(Append(q.args, w)) < MAX_ARGS
  BY <1>4, <1>9, <1>12 DEF HasRoom
<1> QED  BY <1>8, <1>9, <1>11, <1>12, <1>13

(* A sequence whose elements are the first of another is a prefix of it.   *)
LEMMA FirstOf ==
  ASSUME NEW args \in Seq(Seq(Characters)), NEW words,
         \A m \in 1 .. Len(args) : args[m] = words[m]
  PROVE  args = SubSeq(words, 1, Len(args))
<1> DEFINE n == Len(args)
           s == SubSeq(words, 1, n)
<1>1. n \in Nat /\ 1 \in Int /\ n \in Int /\ \A m \in 1 .. n : words[m] \in Seq(Characters)
  OBVIOUS
<1>2. \A m \in 1 .. n : args[m] = words[m]
  OBVIOUS
<1> HIDE DEF n
<1>3. /\ s \in Seq(Seq(Characters))
      /\ Len(s) = IF 1 <= n THEN n - 1 + 1 ELSE 0
      /\ \A m \in 1 .. n - 1 + 1 : s[m] = words[1 + m - 1]
  BY <1>1, SubSeqProperties
<1>4. \A m \in 1 .. n : m \in 1 .. n - 1 + 1 /\ 1 + m - 1 = m
  BY <1>1
<1>5. Len(s) = n /\ \A m \in 1 .. n : s[m] = args[m]
  <2>1. Len(s) = n
    BY <1>1, <1>3
  <2>2. ASSUME NEW m \in 1 .. n PROVE s[m] = args[m]
    <3>1. s[m] = words[1 + m - 1] /\ 1 + m - 1 = m
      BY <1>3, <1>4
    <3> QED  BY <1>2, <3>1
  <2> QED  BY <2>1, <2>2
<1> HIDE DEF s
<1>6. args = s
  BY <1>3, <1>5, SeqEqual DEF n
<1> QED  BY <1>6 DEF s, n

(* What parse_command makes of a line whose quotes stand around words.     *)
LEMMA ParseCommandSplits ==
  ASSUME NEW line \in Seq(Characters), QuotesAroundWords(line)
  PROVE  LET words == Words(line)
         IN  parse_command(line) =
               SubSeq(words, 1, IF HasRoom(words) THEN Len(words) ELSE MAX_ARGS - 1)
<1> DEFINE N == Len(line)
           p == Parse(line)[N]
           words == Words(line)
           args == parse_command(line)
           w == SubSeq(line, p.start, N)
<1>1. N \in Nat /\ N \in 0 .. N
  OBVIOUS
<1>2. p \in Parses
  BY <1>1, ParseRuns
<1>3. Wording(line, p, N)
  BY WordingHolds
<1>4. args = IF HasRoom(p.args) /\ p.start <= N THEN Append(p.args, w) ELSE p.args
  BY DEF parse_command
<1>5. Len(words) = Rank(line, N + 1) /\ Len(words) \in Nat
  BY WordsIs
<1>6. args \in Seq(Seq(Characters)) /\ Len(args) < MAX_ARGS /\ MAX_ARGS \in Nat /\ Len(args) \in Nat
  BY LeavesRoom, CommandLineAssumption
<1> HIDE DEF N, p, words, args
<1>7. p.args \in Seq(Seq(Characters)) /\ Len(p.args) \in Nat /\ p.start \in Nat
  BY <1>2 DEF Parses
<1>8. Len(p.args) < MAX_ARGS /\ \A m \in 1 .. Len(p.args) : p.args[m] = words[m]
  BY <1>3 DEF Wording, Taken, words
<1>9. ASSUME \A m \in 1 .. Len(args) : args[m] = words[m],
             Len(args) = IF HasRoom(words) THEN Len(words) ELSE MAX_ARGS - 1
      PROVE  args = SubSeq(words, 1, IF HasRoom(words) THEN Len(words) ELSE MAX_ARGS - 1)
  <2>1. args = SubSeq(words, 1, Len(args))
    BY <1>6, <1>9, FirstOf
  <2> QED  BY <1>9, <2>1
<1>10. CASE Full(line, p, N)
  <2>1. args = p.args
    BY <1>4, <1>10 DEF Full
  <2>2. ~HasRoom(words) /\ Len(args) = MAX_ARGS - 1
    BY <1>5, <1>6, <1>7, <1>8, <1>10, <2>1 DEF Full, HasRoom
  <2> QED  BY <1>8, <1>9, <2>1, <2>2 DEF words, args
<1>11. CASE Between(line, p, N)
  <2>1. args = p.args
    BY <1>1, <1>4, <1>11 DEF Between
  <2>2. HasRoom(words) /\ Len(args) = Len(words)
    BY <1>5, <1>7, <1>11, <2>1 DEF Between, HasRoom
  <2> QED  BY <1>8, <1>9, <2>1, <2>2 DEF words, args
<1>12. ASSUME NEW s \in WordStarts(line), Within(line, p, N, s), Bare(line, p, N, s)
       PROVE  args = SubSeq(words, 1, IF HasRoom(words) THEN Len(words) ELSE MAX_ARGS - 1)
  <2>1. s \in 1 .. N
    BY WordsIs DEF N
  <2>2. /\ HasRoom(p.args) /\ s <= N
        /\ Len(p.args) = Rank(line, s) /\ Rank(line, N + 1) = Rank(line, s) + 1
        /\ line[s] # "quote" /\ p.start = s
        /\ \A k \in s .. N : ~White(line[k])
    BY <1>12 DEF Within, Bare
  <2>3. args = Append(p.args, w)
    BY <1>4, <2>2
  <2>4. w = WordAt(line, s) /\ w \in Seq(Characters)
    <3> DEFINE t == N + 1
    <3>1. t \in s .. N + 1 /\ t - 1 = N /\ t = N + 1
      BY <1>1, <2>1
    <3>2. \A k \in s .. t - 1 : ~White(line[k])
      BY <2>2, <3>1
    <3> HIDE DEF t
    <3>3. WordAt(line, s) = SubSeq(line, s, t - 1) /\ WordAt(line, s) \in Seq(Characters)
      BY <2>1, <2>2, <3>1, <3>2, WordIs DEF N
    <3> QED  BY <2>2, <3>1, <3>3
  <2> HIDE DEF w
  <2>5. Len(args) = Rank(line, s) + 1 /\ \A m \in 1 .. Len(args) : args[m] = words[m]
    <3>1. \A m \in 1 .. Len(p.args) : p.args[m] = Words(line)[m]
      BY <1>8 DEF words
    <3> DEFINE a == Append(p.args, WordAt(line, s))
    <3>2. Len(a) = Rank(line, s) + 1 /\ \A m \in 1 .. Len(a) : a[m] = Words(line)[m]
      BY <1>7, <2>2, <2>4, <3>1, WordTaken
    <3> QED  BY <2>3, <2>4, <3>2 DEF words
  <2>6. Len(args) = Len(words) /\ Len(args) <= MAX_ARGS - 1
    BY <1>5, <1>6, <2>2, <2>5
  <2>7. Len(args) = IF HasRoom(words) THEN Len(words) ELSE MAX_ARGS - 1
    BY <1>6, <2>6 DEF HasRoom
  <2> QED  BY <1>9, <2>5, <2>7
<1>13. ASSUME NEW s, InQuotes(line, p, N, s)
       PROVE  FALSE
  BY <1>13 DEF InQuotes, QuotesAroundWords, N
<1>14. args = SubSeq(words, 1, IF HasRoom(words) THEN Len(words) ELSE MAX_ARGS - 1)
  <2>1. ASSUME NEW s \in WordStarts(line), Within(line, p, N, s)
        PROVE  args = SubSeq(words, 1, IF HasRoom(words) THEN Len(words) ELSE MAX_ARGS - 1)
    <3>1. Bare(line, p, N, s) \/ InQuotes(line, p, N, s)
      BY <2>1 DEF Within
    <3> QED  BY <1>12, <1>13, <2>1, <3>1
  <2>2. Full(line, p, N) \/ Between(line, p, N) \/ \E s \in WordStarts(line) : Within(line, p, N, s)
    BY <1>3 DEF Wording
  <2>3. CASE Full(line, p, N)
    BY <1>10, <2>3 DEF args, words
  <2>4. CASE Between(line, p, N)
    BY <1>11, <2>4 DEF args, words
  <2> QED  BY <2>1, <2>2, <2>3, <2>4
<1> QED  BY <1>14 DEF args, words

(* parse_command splits every line into its words (SplitsIntoWords).       *)
THEOREM SplitsIntoWordsAlways == Spec => []SplitsIntoWords
<1>1. LinesInv => SplitsIntoWords
  BY LeavesRoom, ParseCommandSplits DEF LinesInv, SplitsIntoWords
<1> QED  BY <1>1, LinesInvAlways, PTL

-----------------------------------------------------------------------------
(* A line without quotes: a word begins behind each blank.                 *)
NoQuote(line) == \A i \in 1 .. Len(line) : line[i] # "quote"
LEMMA WithoutQuotes ==
  ASSUME NEW line \in Seq(Characters), NoQuote(line)
  PROVE  /\ QuotesAroundWords(line)
         /\ \A i \in 1 .. Len(line) :
              i \in WordStarts(line) <=> ~White(line[i]) /\ (i = 1 \/ White(line[i - 1]))
<1> DEFINE N == Len(line)
<1>1. N \in Nat /\ DOMAIN line = 1 .. N /\ \A i \in 1 .. N : line[i] # "quote"
  BY DEF NoQuote
<1>2. ASSUME NEW i \in 1 .. N + 1
      PROVE  ~Quoted(line, i)
  <2>1. {j \in 1 .. i - 1 : line[j] = "quote"} = {}
    BY <1>1
  <2>2. ~(0 % 2 = 1)
    OBVIOUS
  <2> QED  BY <2>1, <2>2, FS_EmptySet DEF Quoted
<1>3. QuotesAroundWords(line)
  <2>1. N + 1 \in 1 .. N + 1
    BY <1>1
  <2> QED  BY <1>1, <1>2, <2>1 DEF QuotesAroundWords
<1>4. \A i \in 1 .. N : ~Quoted(line, i)
  BY <1>1, <1>2
<1> QED  BY <1>1, <1>3, <1>4 DEF WordStarts

(* It has an argument if it has more than blanks.                          *)
LEMMA QuoteFree ==
  ASSUME NEW line \in Seq(Characters), NoQuote(line)
  PROVE  parse_command(line) # <<>> <=> \E i \in 1 .. Len(line) : ~White(line[i])
<1> DEFINE N == Len(line)
           S == WordStarts(line)
           words == Words(line)
           k == IF HasRoom(words) THEN Len(words) ELSE MAX_ARGS - 1
           args == parse_command(line)
           ink == {i \in 1 .. N : ~White(line[i])}
<1>1. N \in Nat /\ DOMAIN line = 1 .. N
  OBVIOUS
<1>2. args = SubSeq(words, 1, k)
  BY WithoutQuotes, ParseCommandSplits
<1>3. S \in SUBSET (1 .. N) /\ Len(words) = Rank(line, N + 1) /\ Rank(line, N + 1) \in Nat
  BY WordsIs
<1>4. \A i \in 1 .. N : i \in S <=> ~White(line[i]) /\ (i = 1 \/ White(line[i - 1]))
  BY WithoutQuotes
<1>5. MAX_ARGS \in Nat /\ MAX_ARGS > 1
  BY CommandLineAssumption
<1>6. args \in Seq(Seq(Characters))
  BY LeavesRoom
<1> HIDE DEF S, words, args, N
<1>7. CASE ink = {}
  <2>1. S = {}
    BY <1>3, <1>4, <1>7
  <2>2. Rank(line, N + 1) = 0
    <3>1. Below(S, N + 1) = Cardinality(S)
      BY <1>1, <1>3, BelowGrows
    <3> QED  BY <2>1, <3>1, FS_EmptySet DEF Rank, S
  <2>3. k = 0
    BY <1>3, <1>5, <2>2 DEF HasRoom
  <2>4. args = <<>>
    BY <1>2, <2>3, SubSeqEmpty
  <2> QED  BY <1>7, <2>4 DEF args, N
<1>8. CASE ink # {}
  <2>1. ink \subseteq Nat
    OBVIOUS
  <2>2. PICK m \in ink : \A j \in ink : m <= j
    BY <1>8, <2>1, Least
  <2>3. m \in 1 .. N /\ m \in S
    <3>1. m \in 1 .. N /\ ~White(line[m])
      OBVIOUS
    <3>2. ASSUME m # 1
          PROVE  White(line[m - 1])
      <4>1. m - 1 \in 1 .. N /\ ~(m <= m - 1)
        BY <1>1, <3>1, <3>2
      <4> QED  BY <2>2, <4>1
    <3> QED  BY <1>4, <3>1, <3>2
  <2>4. Len(words) >= 1
    <3>1. m \in 1 .. N + 1 /\ m + 1 \in 1 .. N + 1 /\ N + 1 \in m + 1 .. N + 1
      BY <1>1, <2>3
    <3>2. Below(S, m) \in Nat /\ Below(S, m + 1) = Below(S, m) + 1
      BY <1>1, <1>3, <2>3, <3>1, BelowGrows
    <3>3. Below(S, m + 1) <= Below(S, N + 1)
      BY <1>1, <1>3, <3>1, BelowRises
    <3>4. Rank(line, N + 1) = Below(S, N + 1)
      BY DEF Rank, S
    <3> QED  BY <1>3, <3>2, <3>3, <3>4
  <2>5. k \in Nat /\ k >= 1
    BY <1>3, <1>5, <2>4
  <2> HIDE DEF k
  <2> DEFINE V == {words[i] : i \in 1 .. k}
  <2>6. Len(SubSeq(words, 1, k)) = k
    <3>1. \A i \in 1 .. k : words[i] \in V
      OBVIOUS
    <3> HIDE DEF V
    <3>2. Len(SubSeq(words, 1, k)) = IF 1 <= k THEN k - 1 + 1 ELSE 0
      BY <2>5, <3>1, SubSeqProperties
    <3> QED  BY <2>5, <3>2
  <2>7. args # <<>>
    <3>1. Len(args) = k
      BY <1>2, <2>6
    <3> QED  BY <1>6, <2>5, <3>1, EmptySeq
  <2> QED  BY <1>8, <2>7 DEF args, N
<1> QED  BY <1>7, <1>8

(* Its first argument is its first word: the ink up to the next blank.     *)
LEMMA FirstWord ==
  ASSUME NEW line \in Seq(Characters), NoQuote(line),
         NEW s \in 1 .. Len(line), NEW t \in s + 1 .. Len(line) + 1,
         \A j \in 1 .. s - 1 : White(line[j]),
         \A j \in s .. t - 1 : ~White(line[j]),
         t = Len(line) + 1 \/ White(line[t])
  PROVE  /\ Words(line)[1] = SubSeq(line, s, t - 1)
         /\ parse_command(line)[1] = Words(line)[1]
<1> DEFINE N == Len(line)
           words == Words(line)
           k == IF HasRoom(words) THEN Len(words) ELSE MAX_ARGS - 1
           args == parse_command(line)
<1>1. /\ N \in Nat /\ s \in s .. t - 1 /\ t \in s .. N + 1 /\ line[s] # "quote" /\ ~White(line[s])
      /\ s = 1 \/ s - 1 \in 1 .. s - 1
  BY DEF NoQuote
<1>2. s \in WordStarts(line)
  BY <1>1, WithoutQuotes
<1>3. Rank(line, s) = 0
  <2>1. {j \in WordStarts(line) : j < s} = {}
    <3>1. ASSUME NEW j \in WordStarts(line), j < s
          PROVE  FALSE
      <4>1. j \in 1 .. N /\ ~White(line[j])
        BY <3>1, WithoutQuotes, WordsIs
      <4>2. j \in 1 .. s - 1
        BY <1>1, <3>1, <4>1
      <4> QED  BY <4>1, <4>2
    <3> QED  BY <3>1
  <2> QED  BY <2>1, FS_EmptySet DEF Rank, Below
<1>4. words[1] = WordAt(line, s)
  <2>1. words[Rank(line, s) + 1] = WordAt(line, s)
    BY <1>2, WordsIs
  <2> QED  BY <1>3, <2>1
<1>5. WordAt(line, s) = SubSeq(line, s, t - 1)
  BY <1>1, WordIs
<1>6. args # <<>> /\ args = SubSeq(words, 1, k)
  BY <1>1, QuoteFree, WithoutQuotes, ParseCommandSplits
<1>7. k \in Nat
  BY CommandLineAssumption, WordsIs
<1> HIDE DEF k, words, args
<1>8. args[1] = words[1]
  <2> DEFINE V == {words[i] : i \in 1 .. k}
  <2>1. \A i \in 1 .. k : words[i] \in V
    OBVIOUS
  <2> HIDE DEF V
  <2>2. /\ args \in Seq(V) /\ Len(args) = IF 1 <= k THEN k - 1 + 1 ELSE 0
        /\ \A i \in 1 .. k - 1 + 1 : args[i] = words[1 + i - 1]
    BY <1>6, <1>7, <2>1, SubSeqProperties
  <2>3. k >= 1
    <3>1. Len(args) # 0
      BY <1>6, <2>2, EmptySeq
    <3> QED  BY <1>7, <2>2, <3>1
  <2>4. 1 \in 1 .. k - 1 + 1 /\ 1 + 1 - 1 = 1
    BY <1>7, <2>3
  <2> QED  BY <2>2, <2>4
<1> QED  BY <1>4, <1>5, <1>8 DEF words, args

(* Parts of two texts that are the same there.                             *)
LEMMA SamePart ==
  ASSUME NEW a \in Seq(Characters), NEW b \in Seq(Characters),
         NEW s \in Nat \ {0}, NEW t \in Nat, t <= Len(a), t <= Len(b),
         \A j \in s .. t : a[j] = b[j]
  PROVE  SubSeq(a, s, t) = SubSeq(b, s, t)
<1>1. \A j \in s .. t : a[j] \in Characters /\ b[j] \in Characters
  OBVIOUS
<1> DEFINE x == SubSeq(a, s, t)
           y == SubSeq(b, s, t)
<1>2. /\ x \in Seq(Characters) /\ Len(x) = IF s <= t THEN t - s + 1 ELSE 0
      /\ \A j \in 1 .. t - s + 1 : x[j] = a[s + j - 1]
  BY <1>1, SubSeqProperties
<1>3. /\ y \in Seq(Characters) /\ Len(y) = IF s <= t THEN t - s + 1 ELSE 0
      /\ \A j \in 1 .. t - s + 1 : y[j] = b[s + j - 1]
  BY <1>1, SubSeqProperties
<1> HIDE DEF x, y
<1>4. ASSUME NEW j \in 1 .. Len(x)
      PROVE  x[j] = y[j]
  <2>1. j \in 1 .. t - s + 1 /\ s + j - 1 \in s .. t
    BY <1>2
  <2> QED  BY <1>2, <1>3, <2>1
<1>5. x = y
  BY <1>2, <1>3, <1>4, SeqEqual
<1> QED  BY <1>5 DEF x, y

(* Blanks at the end of a command do not change its first word.            *)
LEMMA SameFirstWord ==
  ASSUME NEW line \in Seq(Characters), NoQuote(line),
         NEW n \in 1 .. Len(line), NEW k \in 1 .. n, ~White(line[k]),
         \A i \in k + 1 .. n : White(line[i])
  PROVE  parse_command(SubSeq(line, 1, n))[1] = Words(SubSeq(line, 1, k))[1]
<1> DEFINE a == SubSeq(line, 1, n)
           b == SubSeq(line, 1, k)
           ink == {i \in 1 .. k : ~White(line[i])}
<1>1. /\ a \in Seq(Characters) /\ Len(a) = n /\ \A i \in 1 .. n : a[i] = line[i]
      /\ b \in Seq(Characters) /\ Len(b) = k /\ \A i \in 1 .. k : b[i] = line[i] /\ a[i] = line[i]
      /\ n \in Nat /\ k \in Nat
  OBVIOUS
<1>2. NoQuote(a) /\ NoQuote(b)
  BY <1>1 DEF NoQuote
<1> HIDE DEF a, b
<1>3. PICK s \in 1 .. k : ~White(line[s]) /\ \A j \in 1 .. s - 1 : White(line[j])
  <2>1. ink \subseteq Nat /\ ink # {}
    OBVIOUS
  <2>2. PICK s \in ink : \A j \in ink : s <= j
    BY <2>1, Least
  <2>3. ASSUME NEW j \in 1 .. s - 1
        PROVE  White(line[j])
    <3>1. j \in 1 .. k /\ ~(s <= j)
      BY <2>2
    <3> QED  BY <2>2, <3>1
  <2> QED  BY <2>2, <2>3
<1> DEFINE gaps == {j \in s .. k + 1 : j = k + 1 \/ White(line[j])}
<1>4. PICK t \in gaps : \A j \in gaps : t <= j
  <2>1. gaps \subseteq Nat /\ gaps # {}
    <3>1. k + 1 \in gaps
      BY <1>3
    <3> QED  BY <3>1
  <2> HIDE DEF gaps
  <2> QED  BY <2>1, Least
<1>5. t \in s + 1 .. k + 1 /\ (t = k + 1 \/ White(line[t]))
  BY <1>3, <1>4
<1>6. ASSUME NEW j \in s .. t - 1
      PROVE  j \in 1 .. k /\ ~White(line[j])
  <2>1. j \in s .. k + 1 /\ j # k + 1 /\ ~(t <= j) /\ j \in 1 .. k
    BY <1>3, <1>5
  <2> QED  BY <1>4, <2>1
<1> HIDE DEF gaps
<1>7. t = n + 1 \/ White(line[t])
  <2>1. t = k + 1 => t = n + 1 \/ t \in k + 1 .. n
    BY <1>5
  <2> QED  BY <1>5, <2>1
<1>8. parse_command(a)[1] = SubSeq(a, s, t - 1)
  <2>1. /\ s \in 1 .. Len(a) /\ t \in s + 1 .. Len(a) + 1
        /\ \A j \in 1 .. s - 1 : White(a[j])
    BY <1>1, <1>3, <1>5
  <2>2. \A j \in s .. t - 1 : ~White(a[j])
    BY <1>1, <1>6
  <2>3. t = Len(a) + 1 \/ White(a[t])
    BY <1>1, <1>5, <1>7
  <2>4. Words(a)[1] = SubSeq(a, s, t - 1) /\ parse_command(a)[1] = Words(a)[1]
    BY <1>1, <1>2, <2>1, <2>2, <2>3, FirstWord
  <2> QED  BY <2>4
<1>9. Words(b)[1] = SubSeq(b, s, t - 1)
  <2>1. /\ s \in 1 .. Len(b) /\ t \in s + 1 .. Len(b) + 1
        /\ \A j \in 1 .. s - 1 : White(b[j])
    BY <1>1, <1>3, <1>5
  <2>2. \A j \in s .. t - 1 : ~White(b[j])
    BY <1>1, <1>6
  <2>3. t = Len(b) + 1 \/ White(b[t])
    BY <1>1, <1>3, <1>5
  <2> QED  BY <1>1, <1>2, <2>1, <2>2, <2>3, FirstWord
<1>10. SubSeq(a, s, t - 1) = SubSeq(b, s, t - 1)
  <2>1. s \in Nat \ {0} /\ t - 1 \in Nat /\ t - 1 <= Len(a) /\ t - 1 <= Len(b)
    BY <1>1, <1>3, <1>5
  <2>2. \A j \in s .. t - 1 : a[j] = b[j]
    BY <1>1, <1>6
  <2> QED  BY <1>1, <2>1, <2>2, SamePart
<1> QED  BY <1>8, <1>9, <1>10 DEF a, b

SimpleCharacters == Characters \ {"'", "quote", "\\", "#"}

(* A plain character after plain text leaves the text plain.               *)
LEMMA PlainStays ==
  ASSUME NEW c \in SimpleCharacters
  PROVE  After(Plain, c, FALSE, TRUE) = Plain
BY DEF After, Plain, None, SimpleCharacters, Characters

(* The scans see nothing but plain text in a simple line.                  *)
LEMMA SimpleScan ==
  ASSUME NEW line \in Seq(Characters), SimpleLine(line), NEW i \in 1 .. Len(line)
  PROVE  Scan(line, FALSE, TRUE)[i].quote = None
<1>0. Plain.quote = None
  BY DEF Plain
<1> DEFINE N == Len(line)
           m == Scan(line, FALSE, TRUE)
           T == {j \in Nat : j \in 1 .. N + 1 => m[j] = Plain}
<1>1. /\ m[1] = Plain
      /\ \A j \in 1 .. N : m[j + 1] = After(m[j], line[j], FALSE, TRUE)
  BY ScanRuns
<1>2. N \in Nat /\ \A j \in 1 .. N : line[j] \in SimpleCharacters
  BY DEF SimpleLine, SimpleCharacters
<1> HIDE DEF m, N
<1>3. 1 \in T
  BY <1>1
<1>4. ASSUME NEW j \in 1 .. N - 1, j \in T
      PROVE  j + 1 \in T
  <2>1. j \in 1 .. N /\ j \in 1 .. N + 1
    BY <1>2
  <2>2. m[j] = Plain /\ m[j + 1] = After(m[j], line[j], FALSE, TRUE)
    BY <1>1, <1>4, <2>1
  <2>3. m[j + 1] = Plain
    <3>1. line[j] \in SimpleCharacters
      BY <1>2, <2>1
    <3> QED  BY <2>2, <3>1, PlainStays
  <2> QED  BY <2>3
<1> HIDE DEF T
<1>5. i \in T
  <2>1. 1 \in Nat /\ i \in 1 .. N
    BY DEF N
  <2> QED  BY <1>2, <1>3, <1>4, <2>1, Along
<1>6. m[i] = Plain
  BY <1>2, <1>5 DEF T, N
<1>7. m[i].quote = None
  BY <1>0, <1>6
<1> QED  BY <1>7 DEF m

(* At most one & means that two positions of an & are the same.            *)
LEMMA OneAmp ==
  ASSUME NEW line \in Seq(Characters), SimpleLine(line),
         NEW i \in 1 .. Len(line), NEW j \in 1 .. Len(line), line[i] = "&", line[j] = "&"
  PROVE  i = j
<1> DEFINE S == {n \in DOMAIN line : line[n] = "&"}
<1>1. DOMAIN line = 1 .. Len(line) /\ Len(line) \in Nat
  OBVIOUS
<1>2. IsFiniteSet(S)
  <2>1. S \subseteq 1 .. Len(line) /\ IsFiniteSet(1 .. Len(line))
    BY <1>1, FS_Interval
  <2> QED  BY <2>1, FS_Subset
<1>3. Cardinality(S) <= 1 /\ i \in S /\ j \in S
  BY <1>1 DEF SimpleLine
<1> HIDE DEF S
<1>4. Cardinality(S) \in Nat
  BY <1>2, FS_CardinalityType
<1>5. Cardinality(S) # 0
  BY <1>2, <1>3, FS_EmptySet
<1>6. Cardinality(S) = 1
  BY <1>3, <1>4, <1>5
<1>7. PICK x : S = {x}
  BY <1>2, <1>6, FS_Singleton
<1> QED  BY <1>3, <1>7

(* The last position of a line that is no blank, or 0.                     *)
Last(line, last) ==
  /\ last \in 0 .. Len(line)
  /\ last > 0 => ~White(line[last])
  /\ \A i \in 1 .. Len(line) : ~White(line[i]) => i <= last

(* The interactive shell's background operator is an & at the last.        *)
LEMMA OperatorIsLast ==
  ASSUME NEW line \in Seq(Characters), NEW last, Last(line, last)
  PROVE  /\ find_background_operator(line) = IF last > 0 /\ line[last] = "&" THEN last ELSE 0
         /\ last > 0 => \E i \in 1 .. Len(line) : Trimmed(line)[1] = line[i]
<1> DEFINE N == Len(line)
           ink == {i \in DOMAIN line : ~White(line[i])}
           text == Trimmed(line)
<1>1. N \in Nat /\ DOMAIN line = 1 .. N /\ \A i \in 1 .. N : line[i] \in Characters
  OBVIOUS
<1>2. /\ last \in 0 .. N
      /\ last > 0 => last \in ink
      /\ \A i \in ink : i <= last
  BY <1>1 DEF Last
<1>3. CASE last = 0
  <2>1. ink = {}
    BY <1>1, <1>2, <1>3
  <2>2. text = <<>>
    BY <2>1 DEF Trimmed
  <2> QED  BY <1>3, <2>2 DEF find_background_operator
<1>4. CASE last > 0
  <2> DEFINE a == CHOOSE i \in ink : \A j \in ink : i <= j
             b == CHOOSE i \in ink : \A j \in ink : j <= i
  <2>1. ink # {} /\ ink \subseteq Nat
    BY <1>1, <1>2, <1>4
  <2>2. text = SubSeq(line, a, b)
    BY <2>1 DEF Trimmed
  <2> HIDE DEF text
  <2>3. a \in ink /\ \A j \in ink : a <= j
    <3>1. \E i \in ink : \A j \in ink : i <= j
      BY <2>1, Least
    <3> QED  BY <3>1
  <2>4. b \in ink /\ \A j \in ink : j <= b
    BY <1>2, <1>4
  <2> HIDE DEF a, b
  <2>5. b = last
    <3>1. b <= last /\ last <= b /\ b \in Nat /\ last \in Nat
      BY <1>2, <1>4, <2>1, <2>4
    <3> QED  BY <3>1
  <2>6. a \in 1 .. N /\ last \in 1 .. N /\ a <= last
    BY <1>1, <1>2, <1>4, <2>3
  <2>7. Len(text) = (last - a) + 1 /\ text[1] = line[a] /\ text[Len(text)] = line[last] /\ text # <<>>
    <3>1. \A i \in a .. last : line[i] \in Characters
      BY <1>1, <2>6
    <3>2. /\ text \in Seq(Characters)
          /\ Len(text) = IF a <= last THEN last - a + 1 ELSE 0
          /\ \A i \in 1 .. last - a + 1 : text[i] = line[a + i - 1]
      BY <2>2, <2>5, <2>6, <3>1, SubSeqProperties
    <3> DEFINE n == last - a + 1
    <3>3. n \in 1 .. n /\ 1 \in 1 .. n /\ a + n - 1 = last /\ a + 1 - 1 = a /\ n # 0 /\ n = (last - a) + 1
      BY <2>6
    <3>4. Len(text) = n
      BY <2>6, <3>2
    <3> HIDE DEF n
    <3>5. \A i \in 1 .. n : text[i] = line[a + i - 1]
      BY <3>2 DEF n
    <3> QED  BY <3>2, <3>3, <3>4, <3>5, EmptySeq
  <2>8. CASE line[last] = "&"
    <3> DEFINE P(i) == line[i] = "&" /\ \A j \in i + 1 .. N : White(line[j])
               k == CHOOSE i \in DOMAIN line : P(i)
    <3>1. find_background_operator(line) = k
      BY <2>7, <2>8 DEF find_background_operator, text
    <3>2. P(last)
      <4>1. ASSUME NEW j \in last + 1 .. N
            PROVE  White(line[j])
        <5>1. j \in 1 .. N /\ ~(j <= last)
          BY <1>1, <2>6
        <5> QED  BY <1>1, <1>2, <5>1
      <4> QED  BY <2>8, <4>1
    <3>3. k \in DOMAIN line /\ P(k)
      BY <1>1, <2>6, <3>2
    <3> HIDE DEF k
    <3>4. k \in ink
      BY <3>3 DEF White
    <3>5. k = last
      <4>1. k \in 1 .. N /\ k <= last
        BY <1>1, <1>2, <3>4
      <4>2. ~(k < last)
        <5> SUFFICES ASSUME k < last PROVE FALSE
          OBVIOUS
        <5>1. last \in k + 1 .. N /\ ~White(line[last])
          BY <1>2, <2>6, <4>1
        <5> QED  BY <3>3, <5>1
      <4> QED  BY <2>6, <4>1, <4>2
    <3> QED  BY <1>4, <2>6, <2>7, <2>8, <3>1, <3>5 DEF text
  <2>9. CASE line[last] # "&"
    <3>1. find_background_operator(line) = 0
      BY <2>7, <2>9 DEF find_background_operator, text
    <3> QED  BY <2>6, <2>7, <2>9, <3>1 DEF text
  <2> QED  BY <2>8, <2>9
<1> QED  BY <1>2, <1>3, <1>4

(* A simple line runs in the background of the fallback shell exactly if   *)
(* the preprocessor makes it a service, but for pipelines and builtins.    *)
LEMMA ModesAgree ==
  ASSUME NEW line \in Seq(Characters), SimpleLine(line)
  PROVE  LET k == transform_line(line).command
             command == Upto(line, k)
         IN  RunsInBackground(line) <=>
               /\ k > 0 /\ Words(command)[1] \notin Builtins
               /\ \A i \in DOMAIN command : command[i] # "|"
<1> DEFINE N == Len(line)
           last == find_content_end(line)
           k == Largest(Ink(line, last))
<1>1. /\ N \in Nat
      /\ \A i \in 1 .. N : /\ line[i] \notin {"'", "quote", "\\", "#"}
                           /\ line[i] = "\n" => i = N
  BY DEF SimpleLine
<1>2. \A i \in 1 .. N : Scan(line, FALSE, TRUE)[i].quote = None
  BY SimpleScan
<1>3. \A i \in 1 .. N : Content(line, i) <=> ~White(line[i])
  BY <1>1, <1>2 DEF Content, White, None
<1>4. /\ last \in 0 .. N
      /\ last > 0 => Content(line, last)
      /\ \A i \in 1 .. N : Content(line, i) => i <= last
  BY ContentEnd
<1>5. /\ Last(line, last)
      /\ transform_line(line).command = IF IsService(line, last) THEN k ELSE 0
  <2>1. last > 0 => last \in 1 .. N
    BY <1>1, <1>4
  <2> QED  BY <1>3, <1>4, <2>1, Transformed DEF Last
<1> HIDE DEF last, k
<1>6. /\ find_background_operator(line) = IF last > 0 /\ line[last] = "&" THEN last ELSE 0
      /\ last > 0 => \E i \in 1 .. N : Trimmed(line)[1] = line[i]
  BY <1>5, OperatorIsLast
<1>7. CASE last > 0 /\ line[last] = "&"
  <2>1. last \in 1 .. N
    BY <1>1, <1>4, <1>7
  <2>2. IsService(line, last)
    <3>1. ASSUME last # 1
          PROVE  line[last - 1] # "&"
      <4>1. last - 1 \in 1 .. N /\ last - 1 # last
        BY <1>1, <2>1, <3>1
      <4> QED  BY <1>7, <2>1, <4>1, OneAmp
    <3>2. ASSUME NEW i \in 1 .. last - 1
          PROVE  line[i] # "&"
      <4>1. i \in 1 .. N /\ i # last
        BY <1>1, <2>1
      <4> QED  BY <1>7, <2>1, <4>1, OneAmp
    <3> QED  BY <1>7, <3>1, <3>2 DEF IsService
  <2>3. \A i \in 1 .. last - 1 : line[i] # "blank" <=> ~White(line[i])
    <3>1. \A i \in 1 .. last - 1 : i \in 1 .. N /\ i # N
      BY <1>1, <2>1
    <3> QED  BY <1>1, <3>1 DEF White
  <2>4. k > 0 <=> \E i \in 1 .. last - 1 : ~White(line[i])
    <3>1. /\ k \in 0 .. last - 1
          /\ k > 0 => line[k] # "blank"
          /\ (\E i \in 1 .. last - 1 : line[i] # "blank") => k > 0
      BY <2>1, CommandEnd DEF k
    <3>2. k > 0 => k \in 1 .. last - 1
      BY <2>1, <3>1
    <3> QED  BY <2>3, <3>1, <3>2
  <2> DEFINE before == SubSeq(line, 1, last - 1)
  <2>5. /\ before \in Seq(Characters) /\ Len(before) = last - 1
        /\ \A i \in 1 .. last - 1 : before[i] = line[i]
    BY <1>1, <2>1
  <2> HIDE DEF before
  <2>6. NoQuote(before)
    <3>1. \A i \in 1 .. last - 1 : i \in 1 .. N
      BY <1>1, <2>1
    <3> QED  BY <1>1, <2>5, <3>1 DEF NoQuote
  <2>7. parse_command(before) # <<>> <=> \E i \in 1 .. last - 1 : ~White(line[i])
    <3>1. parse_command(before) # <<>> <=> \E i \in 1 .. Len(before) : ~White(before[i])
      BY <2>5, <2>6, QuoteFree
    <3> QED  BY <2>5, <3>1
  <2>8. Trimmed(line)[1] # "#"
    BY <1>1, <1>6, <1>7
  <2>9. RunsInBackground(line) <=>
          /\ \A i \in DOMAIN before : before[i] # "|"
          /\ parse_command(before) # <<>> /\ parse_command(before)[1] \notin Builtins
    BY <1>6, <1>7, <2>8 DEF RunsInBackground, before
  <2>10. transform_line(line).command = k
    BY <1>5, <2>2
  <2>11. CASE k > 0
    <3> DEFINE command == Upto(line, k)
    <3>1. /\ k \in 1 .. last - 1 /\ line[k] # "blank"
          /\ \A i \in k + 1 .. last - 1 : line[i] = "blank"
      BY <2>1, <2>11, CommandEnd DEF k
    <3>2. /\ last - 1 \in 1 .. N /\ k \in 1 .. N /\ ~White(line[k])
          /\ \A i \in k + 1 .. last - 1 : White(line[i])
      BY <1>1, <2>1, <2>3, <3>1 DEF White
    <3>3. NoQuote(line)
      BY <1>1 DEF NoQuote
    <3>4. parse_command(before)[1] = Words(command)[1]
      BY <3>1, <3>2, <3>3, SameFirstWord DEF before, Upto
    <3>5. DOMAIN command = 1 .. k /\ \A i \in 1 .. k : command[i] = line[i]
      BY <3>2 DEF Upto
    <3> HIDE DEF command
    <3>6. ASSUME NEW i \in 1 .. last - 1
          PROVE  before[i] = "|" <=> i \in 1 .. k /\ command[i] = "|"
      <4>1. i \in 1 .. k \/ i \in k + 1 .. last - 1
        BY <2>1, <3>1
      <4>2. i \in k + 1 .. last - 1 => before[i] = "blank" /\ i \notin 1 .. k
        BY <2>1, <2>5, <3>1
      <4>3. i \in 1 .. k => before[i] = command[i]
        BY <2>5, <3>5
      <4> QED  BY <4>1, <4>2, <4>3
    <3>7. (\A i \in DOMAIN before : before[i] # "|") <=> \A i \in DOMAIN command : command[i] # "|"
      <4>1. DOMAIN before = 1 .. last - 1 /\ \A i \in 1 .. k : i \in 1 .. last - 1
        BY <2>1, <2>5, <3>1
      <4> QED  BY <3>5, <3>6, <4>1
    <3> QED  BY <2>4, <2>7, <2>9, <2>10, <2>11, <3>4, <3>7 DEF command
  <2>12. CASE ~(k > 0)
    BY <2>4, <2>7, <2>9, <2>10, <2>12
  <2> QED  BY <2>11, <2>12
<1>8. CASE ~(last > 0 /\ line[last] = "&")
  <2>1. ~RunsInBackground(line)
    BY <1>6, <1>8 DEF RunsInBackground
  <2>2. ~IsService(line, last)
    BY <1>8 DEF IsService
  <2>3. ~(transform_line(line).command > 0)
    BY <1>5, <2>2
  <2> QED  BY <2>1, <2>3
<1> QED  BY <1>7, <1>8

(* A simple line is a service of the script exactly if it is one when      *)
(* typed into the fallback shell, unless its command is a pipeline or a    *)
(* builtin (BothModesAgree).                                               *)
THEOREM BothModesAgreeAlways == Spec => []BothModesAgree
<1>1. LinesInv => BothModesAgree
  BY ModesAgree DEF LinesInv, BothModesAgree
<1> QED  BY <1>1, LinesInvAlways, PTL
===============================================================================
