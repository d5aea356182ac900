----------------------------- MODULE ScriptLines -----------------------------
(***************************************************************************)
(* The two readers of a line beside each other, on the same texts: the     *)
(* preprocessor of script mode and the command line of the fallback shell. *)
(***************************************************************************)
EXTENDS Preprocess, CommandLine

(* parse_command finds the words of every line whose quotes stand around   *)
(* whole words, drops those the array has no room for, and on any line at  *)
(* all leaves room for the NULL that ends args (parser.c, "Add the last    *)
(* argument if there's any").                                              *)
SplitsIntoWords ==
  LET args == parse_command(script)
      words == Words(script)
  IN  /\ Len(args) < MAX_ARGS
      /\ QuotesAroundWords(script) =>
           args = SubSeq(words, 1, IF HasRoom(words) THEN Len(words) ELSE MAX_ARGS - 1)

(* A line with at most one &, without quotes, backslashes and comments, is *)
(* a service of the fallback shell exactly if it is one of the script and  *)
(* the command usagi-reg would get has no pipe and begins with no builtin: *)
(* those the fallback shell never makes a service of.                      *)
SimpleLine(line) ==
  /\ \A i \in DOMAIN line : /\ line[i] \notin {"'", "quote", "\\", "#"}
                            /\ line[i] = "\n" => i = Len(line)
  /\ Cardinality({i \in DOMAIN line : line[i] = "&"}) <= 1
BothModesAgree ==
  LET k == transform_line(script).command
      command == Upto(script, k)
  IN  SimpleLine(script) =>
        (RunsInBackground(script) <=>
           /\ k > 0 /\ Words(command)[1] \notin Builtins
           /\ \A i \in DOMAIN command : command[i] # "|")
=============================================================================
