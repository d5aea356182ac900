------------------------ MODULE RegistrationRefinement ------------------------
(***************************************************************************)
(* The shell phase of Registration against the one action Register that    *)
(* Guardian has for a background line.  The line counts as run at the      *)
(* moment main has read the whole record; what sh, usagi-reg, the pipe and *)
(* the buffer do before are stuttering steps.                              *)
(***************************************************************************)
EXTENDS Registration

From(lines, s) == \E i \in DOMAIN lines : lines[i].from = s
IsRead(s) ==
  /\ reg[s] \in {"writing", "exited"} /\ unwritten[s] = <<>>
  /\ ~From(pipe, s) /\ ~From(buf, s)

G == INSTANCE Guardian WITH
  Services <- {Arguments(s) : s \in Services}, Pids <- Services,
  NoService <- <<>>, NoPid <- 0,
  MAX_RESTARTS <- 0, RestartPolicy <- "none", Reinitialize <- FALSE,
  TerminateAll <- FALSE, Faults <- {}, MaxOrphans <- 0,
  state <- [s \in Services |-> IF IsRead(s) THEN "running" ELSE "free"],
  command <- [s \in Services |-> IF IsRead(s) THEN Arguments(s) ELSE <<>>],
  clean <- [s \in Services |-> FALSE],
  now <- 0, shutting_down <- FALSE,
  pc <- IF reader = "closed" THEN "drain" ELSE "shell",
  reaped <- [pid |-> 0, ok |-> FALSE], exit_code <- "none",
  starts <- [a \in {Arguments(s) : s \in Services} |->
               IF \E s \in Services : Arguments(s) = a /\ IsRead(s) THEN 1 ELSE 0],
  signalled <- {}, orphans <- 0

(* Guardian may treat a background line as one step: as seen from the      *)
(* table, each service appears whole, once, under its own pid and command, *)
(* while the shell phase lasts, and nothing appears once it is over        *)
(* (main.c, the two read loops before run_guardian).                       *)
ImplementsRegister ==
  [][(\E s \in Services : G!Register(Arguments(s), s)) \/ G!EndShell]_(G!vars)
=============================================================================
