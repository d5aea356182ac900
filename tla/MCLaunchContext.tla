--------------------------- MODULE MCLaunchContext ---------------------------
(* Instances of LaunchContext for TLC: every line of bounded length. *)
EXTENDS LaunchContext, SequencesExt

CONSTANT MaxPieces      \* bound: arguments and redirections of a line

Word(op, name, at, quoted) == [op |-> op, name |-> name, at |-> at, quoted |-> quoted]
Programs == {Word(None, "svc", at, FALSE) : at \in {"/app", "rel", None}}
Arguments == {Word(None, "x", None, FALSE), Word(None, "$V", None, FALSE),
              Word(None, "$V", None, TRUE), Word(">", None, None, TRUE)}
Attached == {Word("2>", "log", None, FALSE), Word("2>&1", None, None, FALSE)}
Redirections == {<<Word(to[1], None, None, FALSE), Word(None, "log", to[2], FALSE)>> :
                   to \in {<<"<", "rel">>, <<">", "rel">>, <<">", "/app">>, <<"2>", "/app">>}}
Pieces == {<<w>> : w \in Arguments \cup Attached} \cup Redirections
            \cup {<<Word(">", None, None, FALSE)>>}
MCLines == {<<p>> \o FlattenSeq(rest) : p \in Programs, rest \in SeqOf(Pieces, MaxPieces)}
MCValues == {Word(None, "x", None, FALSE), Word(">", None, None, FALSE)}
MCDirs == {"/", "/app"}
MCInstalled == MCDirs \X {"usagi-reg", "svc"}
=============================================================================
