---------------------------- MODULE MCPreprocess ----------------------------
(* Instances of ScriptLines for TLC: every text of bounded length.  The     *)
(* longer ones are spared some of the characters.                           *)
EXTENDS ScriptLines, SequencesExt

CONSTANTS
  AllLength,        \* bound: characters of a script
  QuotingLength,    \* bound: if it has none that only sh knows
  OperatorLength    \* bound: if it has neither quotes nor comments nor lists

Quoting == Characters \ {">", "|", ";", "(", ")", "if"}
Operating == {"x", "0", "blank", "&", ">", "(", ")"}

MCScripts ==
  SeqOf(Characters, AllLength) \cup SeqOf(Quoting, QuotingLength)
    \cup SeqOf(Operating, OperatorLength)
MCBuiltins == {<<"x", "x">>}
=============================================================================
