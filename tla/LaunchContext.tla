---------------------------- MODULE LaunchContext ----------------------------
(***************************************************************************)
(* What a service is started with, by the shell and again by do_restart:   *)
(* add_service of src/services.c, do_restart of src/guardian.c,            *)
(* expand_variables and handle_redirection of src/shell/utils.c, the       *)
(* snapshot of src/usagi-reg.c, the builtins and the background command of *)
(* src/shell/executor.c, and the PATH that src/main.c prepares.            *)
(*                                                                         *)
(* A word has an operator, a name, and where the name is anchored: at a    *)
(* directory (absolute path), "rel" (a relative path with a slash) or      *)
(* nowhere (no slash).  `quoted' says how it stood on the line; only sh    *)
(* can tell.  The word >log2 has no operator, 2>log has both.              *)
(***************************************************************************)
EXTENDS Integers, SequencesExt

CONSTANTS
  Lines,            \* background lines: sequences of words, a program first
  Values,           \* what the variable V may be set to
  Dirs,             \* directories
  Self, Home,       \* that of UsagiInit, and the one it is started in
  Installed,        \* programs: <<directory, name>>
  Unset, Inherit,   \* an unset variable; no environment of its own (NULL)
  MaxLines,         \* bound: background lines in one boot
  MaxCommands,      \* bound: cd and export commands in a behaviour
  MaxBoots          \* bound: UsagiInit and its re-initialisations

None == "none"      \* no operator, no name, no slash
Operators == {None, "<", ">", "2>", "2>&1"}
Words == [op : Operators, name : STRING, at : Dirs \cup {"rel", None},
          quoted : BOOLEAN]

(* An environment, as far as it matters: PATH, and V, which is a word.     *)
Environments == [PATH : Seq(Dirs), V : Values \cup {Unset}]

ASSUME LaunchAssumption ==
  /\ {Self, Home} \subseteq Dirs /\ {"rel", None} \cap Dirs = {}
  /\ Values \subseteq Words
  /\ \A line \in Lines :
       /\ line \in Seq(Words) /\ line # <<>>
       /\ line[1].op = None /\ line[1].name # "$V"
  /\ <<Self, "usagi-reg">> \in Installed
  /\ Inherit \notin Environments
  /\ MaxLines \in Nat /\ MaxCommands \in Nat /\ MaxBoots \in Nat \ {0}

VARIABLES
  mode,             \* "script" | "interactive"
  phase,            \* "boot" | "shell" | "guardian"
  own,              \* working directory and environment of UsagiInit
  sh,               \* those of /bin/sh
  services,         \* the table: args and env of each entry
  launched,         \* history: how each entry was started, and its line
  restarted,        \* history: how each entry was last restarted
  missed,           \* history: a line did not reach this build's usagi-reg
  commands, boots   \* bounds

entries == <<services, launched, restarted>>
vars == <<mode, phase, own, sh, entries, missed, commands, boots>>

-----------------------------------------------------------------------------
(* execvp(3): the first directory of PATH that holds the name.             *)
Missing == <<"missing">>
Lookup(path, name) ==
  LET hits == {i \in DOMAIN path : <<path[i], name>> \in Installed}
  IN  IF hits = {} THEN Missing
      ELSE <<path[CHOOSE i \in hits : \A j \in hits : i <= j], name>>
Program(w, cwd, path) ==
  LET file == <<IF w.at = "rel" THEN cwd ELSE w.at, w.name>>
  IN  IF w.at = None THEN Lookup(path, w.name)
      ELSE IF file \in Installed THEN file ELSE Missing

(* expand_variables: $V if V is set, else the word as it is.               *)
IsVariable(w) == w.op = None /\ w.name = "$V"
expand_variables(args, env) ==
  [i \in DOMAIN args |->
     IF IsVariable(args[i]) /\ env.V # Unset THEN env.V ELSE args[i]]

(* handle_redirection: operators take the word behind them, whatever it    *)
(* is, as their file; one at the end has none, and the process exits.      *)
IsOperator(w) == w.op # None /\ ~w.quoted
TakesFile(w) == IsOperator(w) /\ w.op # "2>&1" /\ w.name = None
Parents == <<>>                     \* a stream as the parent had it
Inherited == [stream \in {"in", "out", "err"} |-> Parents]
Stream(op) == CASE op = "<" -> "in" [] op = ">" -> "out" [] OTHER -> "err"
File(w, cwd) ==
  [dir |-> IF w.at \in Dirs THEN w.at ELSE cwd, op |-> w.op, name |-> w.name,
   absolute |-> w.at \in Dirs]
ErrTarget(r, w, cwd) ==
  IF w.op = "2>&1" THEN r.streams["out"] ELSE File([w EXCEPT !.op = None], cwd)
Take(r, w, cwd) ==
  CASE r.op # None ->
         [r EXCEPT !.op = None, !.streams[Stream(r.op)] = File(w, cwd)]
    [] r.op = None /\ TakesFile(w) -> [r EXCEPT !.op = w.op]
    [] r.op = None /\ IsOperator(w) /\ ~TakesFile(w) ->
         [r EXCEPT !.streams["err"] = ErrTarget(r, w, cwd)]
    [] OTHER -> [r EXCEPT !.args = Append(@, w)]
handle_redirection(args, cwd) ==
  FoldLeft(LAMBDA r, w : Take(r, w, cwd),
           [op |-> None, args |-> <<>>, streams |-> Inherited], args)

(* A process: redirections, then execvp with that PATH.                    *)
Failed == [file |-> Missing]
Process(args, cwd, path, env) ==
  LET r == handle_redirection(args, cwd)
  IN  IF r.op # None THEN Failed
      ELSE [file |-> Program(r.args[1], cwd, path), args |-> Tail(r.args),
            streams |-> r.streams, env |-> env, cwd |-> cwd]

(* argv does not tell what was quoted.                                     *)
Unquoted(w) == [w EXCEPT !.quoted = FALSE]
Argv(words) == [i \in DOMAIN words |-> Unquoted(words[i])]
Started(process) == [process EXCEPT !.args = Argv(@)]

(* Lines sh runs: behind each operator stands a word that names a file.    *)
ShAccepts(line, env) ==
  \A k \in DOMAIN line : TakesFile(line[k]) =>
    /\ k < Len(line) /\ ~IsOperator(line[k + 1])
    /\ IsVariable(line[k + 1]) /\ ~line[k + 1].quoted => env.V # Unset

(* What sh makes of a line: variables that are not quoted are replaced, or *)
(* dropped, and their values are no operators.                             *)
ShWord(w, env) ==
  CASE w.quoted \/ ~IsVariable(w) -> <<w>>
    [] OTHER -> IF env.V = Unset THEN <<>> ELSE <<[env.V EXCEPT !.quoted = TRUE]>>
ShWords(line, env) ==
  FoldLeft(LAMBDA words, w : words \o ShWord(w, env), <<>>, line)

-----------------------------------------------------------------------------
(* main before the shell phase.  In script mode the directory of the       *)
(* program goes in front of PATH, each time anew; sh inherits all that.    *)
AppendedSelf(path) == Append(path, Self)        \* mutant: behind the others
prepend_self_to_path(path) == <<Self>> \o path
Boot ==
  /\ phase = "boot"
  /\ phase' = "shell"
  /\ own' = IF mode = "script"
            THEN [own EXCEPT !.env.PATH = prepend_self_to_path(@)] ELSE own
  /\ sh' = own'
  /\ UNCHANGED <<mode, entries, missed, commands, boots>>

(* cd and export, of sh or of the fallback shell, which is UsagiInit.      *)
ShellIs(new) ==
  IF mode = "script" THEN sh' = new /\ UNCHANGED own ELSE own' = new /\ sh' = new
Command(new) ==
  /\ phase = "shell" /\ commands < MaxCommands
  /\ commands' = commands + 1
  /\ ShellIs(new)
  /\ UNCHANGED <<mode, phase, entries, missed, boots>>
Cd(d) == Command([sh EXCEPT !.cwd = d])
ExportV(v) == Command([sh EXCEPT !.env.V = v])
ExportPath(d) ==
  \E path \in {<<d>>, <<d>> \o sh.env.PATH, Append(sh.env.PATH, d)} :
    Command([sh EXCEPT !.env.PATH = path])

(* add_service: where the program is found, then the other arguments.      *)
ResolvedNot(w, cwd) == w            \* mutant: the path is stored as given
Resolved(w, cwd) == IF w.at = "rel" THEN [w EXCEPT !.at = cwd] ELSE w
StoredTwice(args, cwd) ==           \* mutant: the copying loop starts at 0
  <<Resolved(args[1], cwd)>> \o args
StoredRedirected(args, cwd) ==      \* mutant: after handle_redirection
  <<Resolved(args[1], cwd)>> \o Tail(handle_redirection(args, cwd).args)
Stored(args, cwd) == <<Resolved(args[1], cwd)>> \o Tail(args)
AddService(args, env, line, process) ==
  /\ services' = Append(services, [args |-> Stored(args, own.cwd), env |-> env])
  /\ launched' = Append(launched, [process |-> process, line |-> line])
  /\ restarted' = Append(restarted, Failed)

(* A background line of the script: sh runs usagi-reg with the redirections *)
(* done and the words expanded; usagi-reg reports these and its environment. *)
Launch(line) ==
  LET words == ShWords(line, sh.env)
      r == handle_redirection(words, sh.cwd)
  IN  /\ phase = "shell" /\ mode = "script" /\ Len(services) < MaxLines
      /\ ShAccepts(line, sh.env)
      /\ IF Lookup(sh.env.PATH, "usagi-reg") = <<Self, "usagi-reg">>
         THEN /\ AddService(Argv(r.args), sh.env, line,
                   Started(Process(words, sh.cwd, sh.env.PATH, sh.env)))
              /\ UNCHANGED missed
         ELSE missed' = TRUE /\ UNCHANGED entries
      /\ UNCHANGED <<mode, phase, own, sh, commands, boots>>

(* run_command in the background: the child redirects a copy of args.      *)
RunInBackground(line) ==
  LET args == expand_variables(Argv(line), own.env)
  IN  /\ phase = "shell" /\ mode = "interactive" /\ Len(services) < MaxLines
      /\ AddService(args, Inherit, line,
                    Process(args, own.cwd, own.env.PATH, own.env))
      /\ UNCHANGED <<mode, phase, own, sh, missed, commands, boots>>

EndShell ==
  /\ phase = "shell"
  /\ phase' = "guardian"
  /\ UNCHANGED <<mode, own, sh, entries, missed, commands, boots>>

(* do_restart, in the child.  execvpe, too, searches UsagiInit's own PATH. *)
EnvironmentOwn(env) == own.env      \* mutant: service->env is not used
Environment(env) == IF env = Inherit THEN own.env ELSE env
do_restart(i) ==
  /\ phase = "guardian" /\ i \in DOMAIN services
  /\ restarted' = [restarted EXCEPT ![i] =
       Process(expand_variables(services[i].args, own.env), own.cwd,
               own.env.PATH, Environment(services[i].env))]
  /\ UNCHANGED <<mode, phase, own, sh, services, launched, missed, commands, boots>>

(* execvp of UsagiInit keeps its directory and environment.                *)
Reinitialize ==
  /\ phase = "guardian" /\ services # <<>> /\ boots < MaxBoots
  /\ phase' = "boot" /\ boots' = boots + 1
  /\ services' = <<>> /\ launched' = <<>> /\ restarted' = <<>>
  /\ missed' = FALSE
  /\ UNCHANGED <<mode, own, sh, commands>>

(* With nothing to guard, or the boots of the bound used up.               *)
Finished ==
  /\ phase = "guardian" /\ (services = <<>> \/ boots = MaxBoots)
  /\ UNCHANGED vars

-----------------------------------------------------------------------------
Init ==
  /\ mode \in {"script", "interactive"} /\ phase = "boot"
  /\ own = [cwd |-> Home, env |-> [PATH |-> <<Home>>, V |-> Unset]]
  /\ sh = own
  /\ services = <<>> /\ launched = <<>> /\ restarted = <<>>
  /\ missed = FALSE /\ commands = 0 /\ boots = 1

Next ==
  \/ Boot \/ EndShell \/ Reinitialize \/ Finished
  \/ \E d \in Dirs : Cd(d) \/ ExportPath(d)
  \/ \E v \in Values : ExportV(v)
  \/ \E line \in Lines : Launch(line) \/ RunInBackground(line)
  \/ \E i \in DOMAIN services : do_restart(i)
Spec == Init /\ [][Next]_vars

-----------------------------------------------------------------------------
(* The entries that were restarted, and whether their words still mean     *)
(* what they meant: an operator or a variable that reached the table as    *)
(* data is read once more by do_restart.                                   *)
Restarted(i) == restarted[i] # Failed /\ launched[i].process # Failed
ReadAgain(i) ==
  \E k \in DOMAIN services[i].args :
    LET w == services[i].args[k]
    IN  \/ mode = "script" /\ IsOperator(w)
        \/ IsVariable(w) /\ own.env.V # Unset
SameDirectory(i) == launched[i].process.cwd = own.cwd

(* A restart runs the program that was launched: for an absolute path      *)
(* always; for a relative one if the fallback shell launched it, wherever  *)
(* the shell went since, or the script had not left UsagiInit's directory; *)
(* for a bare name if the program is on the PATH UsagiInit started with    *)
(* and the script at most appended to it.                                  *)
ProgramKept ==
  \A i \in DOMAIN services :
    LET p == launched[i].line[1]
    IN  /\ Restarted(i) /\ ~ReadAgain(i)
        /\ CASE p.at \in Dirs -> TRUE
             [] p.at = "rel" -> mode = "interactive" \/ SameDirectory(i)
             [] OTHER -> /\ IsPrefix(own.env.PATH, launched[i].process.env.PATH)
                         /\ Lookup(own.env.PATH, p.name) # Missing
        => restarted[i].file = launched[i].process.file

(* It gets the arguments of the launch, unless a word that was quoted for  *)
(* sh looks like an operator or a variable, or a variable that was unset   *)
(* in the fallback shell has been set since.                               *)
ArgumentsKept ==
  \A i \in DOMAIN services :
    Restarted(i) /\ ~ReadAgain(i) =>
      restarted[i].args = launched[i].process.args

(* Its streams go where they went: in the fallback shell unless a relative *)
(* file name is read in another directory, in a script if the line has no  *)
(* redirection (sh applies it, and no record has it).                      *)
StreamsKept ==
  \A i \in DOMAIN services, stream \in {"in", "out", "err"} :
    LET line == launched[i].line
        was == launched[i].process.streams[stream]
    IN  /\ Restarted(i) /\ ~ReadAgain(i)
        /\ IF mode = "script" THEN \A k \in DOMAIN line : ~IsOperator(line[k])
           ELSE SameDirectory(i) \/ was = Parents \/ was.absolute
        => restarted[i].streams[stream] = was

(* A service of the script keeps the environment of its launch, whatever   *)
(* the script exported later and over however many restarts (usagi-reg     *)
(* sends it for that purpose).                                             *)
EnvironmentKept ==
  \A i \in DOMAIN services :
    mode = "script" /\ Restarted(i) =>
      restarted[i].env = launched[i].process.env

(* The background lines of a script that only appends to PATH reach this   *)
(* build's usagi-reg, in every boot, also if PATH holds another one        *)
(* (main.c, "always findable by sh").                                      *)
HelperFound ==
  [][~missed /\ missed' => ~IsPrefix(own.env.PATH, sh.env.PATH)]_vars

(* A restart runs the program that was launched (README, "Service          *)
(* restarts").                                                             *)
RestartsTheProgram ==
  \A i \in DOMAIN services :
    Restarted(i) /\ launched[i].line[1].at = "rel" =>
      restarted[i].file = launched[i].process.file
=============================================================================
