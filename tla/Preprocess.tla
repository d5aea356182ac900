------------------------------ MODULE Preprocess ------------------------------
(***************************************************************************)
(* preprocess_script of src/shell/preprocess.c: the pass over the init     *)
(* script that joins continued lines and turns each background line into a *)
(* usagi-reg command, before /bin/sh sees the script.                      *)
(*                                                                         *)
(* Text is a sequence of characters, each standing for its class: "x" for  *)
(* any ordinary character, "0" for any digit, "blank" for a space or a     *)
(* tab, "quote" for the double quote, ">" for either bracket of a          *)
(* redirection, "if" for a whole reserved word of sh that stands as a word *)
(* of its own (if, then, done, !, { and }); the others are themselves.     *)
(* Positions count from 1, where the code counts from 0.  The code knows   *)
(* nothing of ">", "|", ";", brackets and reserved words; sh does.         *)
(***************************************************************************)
EXTENDS Integers, Sequences

CONSTANTS
  Scripts,          \* the scripts to be preprocessed
  LINE_CAP          \* size of the buffer fgets reads into, 4096

Characters == {"x", "0", "blank", "'", "quote", "\\", "#", "&", "\n",
               ">", "|", ";", "(", ")", "if"}
ASSUME PreprocessAssumption ==
  Scripts \subseteq Seq(Characters) /\ LINE_CAP \in Nat \ {0, 1}

VARIABLES
  script,           \* the input, for reference
  rest,             \* what fgets has still to read
  buf,              \* the joined line so far
  out,              \* the lines written
  pc                \* "reading" | "done" | "failed"

vars == <<script, rest, buf, out, pc>>

-----------------------------------------------------------------------------
Largest(S) == IF S = {} THEN 0 ELSE CHOOSE i \in S : \A j \in S : j <= i
Upto(line, n) == SubSeq(line, 1, n)

(* What the scanning loops know before a character: the quote it stands in *)
(* ("#" for a comment, or None) and whether a backslash takes its          *)
(* meaning.  All of them see backslashes in double quotes; outside of      *)
(* quotes only ends_with_continuation does, and only the others see        *)
(* comments.                                                               *)
None == "none"
Plain == [quote |-> None, escaped |-> FALSE]
After(m, c, escapes, comments) ==
  CASE m.escaped -> [m EXCEPT !.escaped = FALSE]
    [] ~m.escaped /\ c = "\\" /\ (m.quote = "quote" \/ (m.quote = None /\ escapes)) ->
         [m EXCEPT !.escaped = TRUE]
    [] ~m.escaped /\ m.quote = None /\ c \in {"'", "quote"} -> [m EXCEPT !.quote = c]
    [] ~m.escaped /\ m.quote = None /\ c = "#" /\ comments -> [m EXCEPT !.quote = c]
    [] ~m.escaped /\ c = m.quote /\ c # "#" -> Plain
    [] OTHER -> m
Scan(line, escapes, comments) ==
  LET scan[i \in 1 .. Len(line) + 1] ==
        IF i = 1 THEN Plain
        ELSE After(scan[i - 1], line[i - 1], escapes, comments)
  IN  scan

WithoutNewline(line) ==
  IF line # <<>> /\ line[Len(line)] = "\n" THEN Upto(line, Len(line) - 1) ELSE line
ends_with_any_backslash(line) ==        \* mutant: an even run continues, too
  LET text == WithoutNewline(line) IN text # <<>> /\ text[Len(text)] = "\\"
ends_with_continuation(line) ==
  LET text == WithoutNewline(line)
      run == Len(text) - Largest({i \in DOMAIN text : text[i] # "\\"})
  IN  run % 2 = 1 /\ Scan(text, TRUE, FALSE)[Len(text) + 1].quote # "'"

find_content_end(line) ==
  LET m == Scan(line, FALSE, TRUE)
  IN  Largest({i \in DOMAIN line :
                 /\ m[i].quote # "#"
                 /\ m[i].quote = None => line[i] \notin {"blank", "\n", "#"}})

has_any_amp_before(line, before) ==     \* mutant: quotes are not tracked
  \E i \in 1 .. before - 1 : line[i] = "&" /\ ~(i + 1 < before /\ line[i + 1] = "0")
has_amp_before(line, before) ==
  LET m == Scan(line, FALSE, TRUE)
  IN  \E i \in 1 .. before - 1 :
        /\ m[i].quote = None /\ line[i] = "&"
        /\ ~(i + 1 < before /\ line[i + 1] = "0")

(* A line goes out as it is (command = 0) or as usagi-reg and its first    *)
(* `command' characters.                                                   *)
transform_line(line) ==
  LET last == find_content_end(line)
      cmd_end == Largest({i \in 1 .. last - 1 : line[i] # "blank"})
      service == /\ last > 0 /\ line[last] = "&"
                 /\ last = 1 \/ line[last - 1] # "&"
                 /\ ~has_amp_before(line, last)
  IN  [line |-> line, command |-> IF service THEN cmd_end ELSE 0]

-----------------------------------------------------------------------------
(* fgets: up to the first newline, or as much as the buffer holds.         *)
Fgets(text) ==
  LET ends == {i \in DOMAIN text : text[i] = "\n" \/ i = LINE_CAP - 1}
  IN  IF ends = {} THEN Len(text) ELSE CHOOSE i \in ends : \A j \in ends : i <= j

Init ==
  /\ script \in Scripts /\ rest = script
  /\ buf = <<>> /\ out = <<>> /\ pc = "reading"

(* One turn of the loop: a physical line is joined to what came before it. *)
ReadLine ==
  LET line == Upto(rest, Fgets(rest))
      cont == ends_with_continuation(line)
      text == WithoutNewline(line)
  IN  /\ pc = "reading" /\ rest # <<>>
      /\ rest' = SubSeq(rest, Len(line) + 1, Len(rest))
      /\ IF cont
         THEN buf' = buf \o Upto(text, Len(text) - 1) /\ UNCHANGED out
         ELSE buf' = <<>> /\ out' = Append(out, transform_line(buf \o line))
      /\ UNCHANGED <<script, pc>>
EndOfScript ==
  /\ pc = "reading" /\ rest = <<>>
  /\ out' = IF buf = <<>> THEN out ELSE Append(out, transform_line(buf))
  /\ pc' = "done"
  /\ UNCHANGED <<script, rest, buf>>

(* mkstemp, fdopen or an allocation fails; main then ends UsagiInit.       *)
GiveUp ==
  /\ pc = "reading"
  /\ pc' = "failed"
  /\ UNCHANGED <<script, rest, buf, out>>
Finished == pc \in {"done", "failed"} /\ UNCHANGED vars

Next == ReadLine \/ EndOfScript \/ GiveUp \/ Finished
Spec == Init /\ [][Next]_vars

-----------------------------------------------------------------------------
(* How sh reads the script, as the reference: a backslash quotes the next  *)
(* character everywhere but in single quotes and comments, a # begins a    *)
(* comment only where no word is under way, a newline ends it.             *)
ShPlain == [quote |-> None, escaped |-> FALSE, inword |-> FALSE]
ShAfter(m, c) ==
  CASE m.escaped -> [m EXCEPT !.escaped = FALSE, !.inword = c # "\n" \/ @]
    [] ~m.escaped /\ m.quote = "#" -> IF c = "\n" THEN ShPlain ELSE m
    [] ~m.escaped /\ m.quote = "'" -> IF c = "'" THEN [m EXCEPT !.quote = None] ELSE m
    [] ~m.escaped /\ m.quote = "quote" ->
         [m EXCEPT !.quote = IF c = "quote" THEN None ELSE @, !.escaped = c = "\\"]
    [] ~m.escaped /\ m.quote = None ->
         CASE c = "\\" -> [m EXCEPT !.escaped = TRUE]
           [] c \in {"'", "quote"} -> [m EXCEPT !.quote = c, !.inword = TRUE]
           [] c = "#" /\ ~m.inword -> [m EXCEPT !.quote = "#"]
           [] OTHER -> [m EXCEPT !.inword = c \notin
                                   {"blank", "\n", "&", ">", "|", ";", "(", ")"}]
ShScan(text) ==
  LET scan[i \in 1 .. Len(text) + 1] ==
        IF i = 1 THEN ShPlain ELSE ShAfter(scan[i - 1], text[i - 1])
  IN  scan

(* The lines sh makes of the script: cut at each newline that is neither   *)
(* quoted nor escaped, without the escaped newlines.                       *)
ShCut(text) ==                          \* finished lines and the one begun
  LET m == ShScan(text)
      cut[i \in 0 .. Len(text)] ==
        IF i = 0 THEN [done |-> <<>>, line |-> <<>>]
        ELSE LET l == cut[i - 1]
             IN  CASE text[i] = "\n" /\ m[i].escaped ->
                        [l EXCEPT !.line = Upto(@, Len(@) - 1)]
                   [] text[i] = "\n" /\ m[i].quote \in {None, "#"} /\ ~m[i].escaped ->
                        [done |-> Append(l.done, Append(l.line, "\n")), line |-> <<>>]
                   [] OTHER -> [l EXCEPT !.line = Append(@, text[i])]
  IN  cut
ShLines(text) ==
  LET end == ShCut(text)[Len(text)]
  IN  IF end.line = <<>> THEN end.done ELSE Append(end.done, end.line)

(* Operators, outside of quotes: the & that ends a command, which one      *)
(* behind a > does not (2>&1), and what makes more than a simple command   *)
(* of a line: pipelines, lists, groups and reserved words.                 *)
Operators(line, ops) ==
  LET m == ShScan(line)
  IN  {i \in DOMAIN line : line[i] \in ops /\ m[i].quote = None /\ ~m[i].escaped}
Redirects(line, i) == i > 1 /\ line[i - 1] = ">" /\ ~ShScan(line)[i - 1].escaped
Amps(line) == {i \in Operators(line, {"&"}) : ~Redirects(line, i)}
IsSimple(line) == Operators(line, {"|", ";", "(", ")", "if"}) = {}
IsBlank(line, i) == line[i] \in {"blank", "\n"} \/ ShScan(line)[i + 1].quote = "#"

(* One simple command and an & behind it: sh runs all of it, and only it,  *)
(* in the background.                                                      *)
EndsInAmp(line) ==
  \E k \in DOMAIN line :
    /\ Amps(line) = {k}
    /\ \A i \in k + 1 .. Len(line) : IsBlank(line, i)
    /\ \E i \in 1 .. k - 1 : ~IsBlank(line, i)
IsBackground(line) == IsSimple(line) /\ EndsInAmp(line)

(* A simple command in a subshell in the background: ( ... ) &.            *)
IsGroup(line) ==
  LET ink == SelectSeq(line, LAMBDA c : c \notin {"blank", "\n"})
  IN  \E n \in 1 .. Len(line) : ink = <<"(">> \o [i \in 1 .. n |-> "x"] \o <<")", "&">>

-----------------------------------------------------------------------------
(* Every logical line the code cuts is the line sh would read: no command  *)
(* is torn apart, swallowed by the line before it or lost at the end of    *)
(* the file (comments of preprocess.c, README "existing scripts need no    *)
(* changes").  Not covered: a line longer than the buffer, a quote left    *)
(* open at a line's end, a backslash in a comment or at the end of file.   *)
LinesFit == \A i \in DOMAIN script :
  (\A j \in i .. i + LINE_CAP - 2 : j \in DOMAIN script /\ script[j] # "\n")
    => i + LINE_CAP - 2 = Len(script)
QuotesClosed == \A i \in DOMAIN script :
  script[i] = "\n" => ShScan(script)[i].quote \notin {"'", "quote"}
NoStrayBackslash == \A i \in DOMAIN script :
  script[i] = "\\" => i < Len(script) /\ ShScan(script)[i].quote # "#"
JoinsAsSh ==
  pc = "done" /\ LinesFit /\ QuotesClosed /\ NoStrayBackslash =>
    [i \in DOMAIN out |-> out[i].line] = ShLines(script)

(* A simple command becomes a service exactly if sh would run it in the    *)
(* background, and of any line that becomes one usagi-reg gets all that    *)
(* stands before the operator.  Not covered: a pipeline, a list or a group *)
(* (see GroupsLeftAlone), a command substitution or a here-document; a     *)
(* line with a backslash outside of quotes, a # inside a word, a quote     *)
(* left open, or an & that duplicates a descriptor other than by a digit   *)
(* (>&-) or stands before a digit without doing so (x &0), all of which    *)
(* the code reads differently from sh.                                     *)
ReadAlike(line) ==
  LET m == ShScan(line)
  IN  /\ m[Len(line) + 1].quote \in {None, "#"}
      /\ \A i \in DOMAIN line : m[i].quote = None =>
           line[i] # "\\" /\ (line[i] = "#" => ~m[i].inword)
      /\ \A i \in Operators(line, {"&"}) :
           Redirects(line, i) <=> i < Len(line) /\ line[i + 1] = "0"
ServicesAsSh ==
  \A n \in DOMAIN out :
    LET line == out[n].line
        k == out[n].command
    IN  ReadAlike(line) =>
          /\ IsSimple(line) => (k > 0 <=> IsBackground(line))
          /\ k > 0 => /\ ~IsBlank(line, k)
                      /\ \A i \in k + 1 .. Len(line) :
                           IsBlank(line, i) \/ Amps(line) = {i}

(* "Lines with complex background constructs (grouped commands { ... } &   *)
(* or subshells ( ... ) &) are not auto-detected as services" (README.md). *)
GroupsLeftAlone ==
  \A n \in DOMAIN out : IsGroup(out[n].line) => out[n].command = 0
=============================================================================
