----------------------------- MODULE CommandLine -----------------------------
(***************************************************************************)
(* How the interactive shell takes a line apart: trim_whitespace of        *)
(* src/shell/utils.c, find_background_operator and the first part of       *)
(* run_command in src/shell/executor.c, parse_command of                   *)
(* src/shell/parser.c.  Text is a sequence of characters as in Preprocess. *)
(***************************************************************************)
EXTENDS Integers, Sequences, FiniteSets

CONSTANTS
  MAX_ARGS,         \* size of the args arrays, 128
  Builtins          \* the words export, cd and exit

ASSUME CommandLineAssumption == MAX_ARGS \in Nat \ {0, 1}

WhiteButNewline(c) == c = "blank"       \* mutant: the newline stays on the line
White(c) == c \in {"blank", "\n"}

(* A newline in front is the whole line, which run_command skips.          *)
Trimmed(line) ==
  LET ink == {i \in DOMAIN line : ~White(line[i])}
  IN  IF ink = {} THEN <<>>
      ELSE SubSeq(line, CHOOSE i \in ink : \A j \in ink : i <= j,
                        CHOOSE i \in ink : \A j \in ink : j <= i)

(* The position of the & that ends the line, or 0.                         *)
find_background_operator(line) ==
  LET text == Trimmed(line)
  IN  IF text # <<>> /\ text[Len(text)] = "&"
      THEN CHOOSE i \in DOMAIN line :
             line[i] = "&" /\ \A j \in i + 1 .. Len(line) : White(line[j])
      ELSE 0

(* parse_command: one pass; start is where the word under way began.  An   *)
(* opening quote begins a word even in the middle of one.                  *)
HasRoomUnchecked(args) == TRUE      \* mutant: no limit on the arguments
HasRoom(args) == Len(args) < MAX_ARGS - 1
Cut(p, line, i) ==
  [p EXCEPT !.args = Append(@, SubSeq(line, p.start, i - 1)), !.start = i + 1]
Parsed(p, line, i) ==
  CASE ~HasRoom(p.args) -> p
    [] HasRoom(p.args) /\ line[i] = "quote" ->
         IF p.in_quote THEN [Cut(p, line, i) EXCEPT !.in_quote = FALSE]
         ELSE [p EXCEPT !.start = i + 1, !.in_quote = TRUE]
    [] HasRoom(p.args) /\ White(line[i]) /\ ~p.in_quote ->
         IF i # p.start THEN Cut(p, line, i) ELSE [p EXCEPT !.start = i + 1]
    [] OTHER -> p
Parse(line) ==
  LET parse[i \in 0 .. Len(line)] ==
        IF i = 0 THEN [args |-> <<>>, start |-> 1, in_quote |-> FALSE]
        ELSE Parsed(parse[i - 1], line, i)
  IN  parse
parse_command(line) ==
  LET end == Parse(line)[Len(line)]
  IN  IF HasRoom(end.args) /\ end.start <= Len(line)
      THEN Append(end.args, SubSeq(line, end.start, Len(line)))
      ELSE end.args

(* The first part of run_command: whether it forks a background child and  *)
(* gives it to add_service.  An empty line or a comment is skipped, an &   *)
(* at the end is cut off; a line with a | goes to execute_pipeline, a      *)
(* builtin runs in UsagiInit itself, both with or without an &.            *)
RunsInBackground(line) ==
  LET k == find_background_operator(line)
      command == SubSeq(line, 1, k - 1)
      args == parse_command(command)
  IN  /\ k > 0 /\ Trimmed(line)[1] # "#"
      /\ \A i \in DOMAIN command : command[i] # "|"
      /\ args # <<>> /\ args[1] \notin Builtins

-----------------------------------------------------------------------------
(* The words of a line, as the reference.  A word begins after a blank;    *)
(* with a quote it reaches to the next quote, else to the next blank.      *)
Quoted(line, i) == Cardinality({j \in 1 .. i - 1 : line[j] = "quote"}) % 2 = 1
WordStarts(line) ==
  {i \in DOMAIN line :
     ~White(line[i]) /\ ~Quoted(line, i) /\ (i = 1 \/ White(line[i - 1]))}
WordAt(line, i) ==
  LET from == IF line[i] = "quote" THEN i + 1 ELSE i
      Ends(j) == IF from = i THEN White(line[j]) ELSE line[j] = "quote"
      to == CHOOSE j \in from .. Len(line) + 1 :
              /\ j = Len(line) + 1 \/ Ends(j)
              /\ \A k \in from .. j - 1 : ~Ends(k)
  IN  SubSeq(line, from, to - 1)
Words(line) ==
  LET starts == WordStarts(line)
      Nth(n) == CHOOSE i \in starts : Cardinality({j \in starts : j < i}) = n - 1
  IN  [n \in 1 .. Cardinality(starts) |-> WordAt(line, Nth(n))]
QuotesAroundWords(line) ==
  /\ ~Quoted(line, Len(line) + 1)
  /\ \A i \in DOMAIN line : line[i] = "quote" =>
       IF Quoted(line, i) THEN i = Len(line) \/ White(line[i + 1])
       ELSE i \in WordStarts(line)
=============================================================================
