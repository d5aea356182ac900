# UsagiInit in TLA+

Specifications of UsagiInit (the init and service manager in `src/`), their
TLC instances, and TLAPS proofs. Source paths below are relative to `src/`.

## 1. Inventory

| Component | State it keeps | Operations | Correct when |
|---|---|---|---|
| service table, `src/services.c` | `services[]`, `service_count` | `add_service`, `find_service`, `remove_service`, `get_next_restart_time`, `get_service_pending_restart` | entries stay whole and distinct over removals; the capacity is respected |
| guardian, `src/guardian.c`, `run_guardian` in `src/main.c` | the table; the pid just reaped | drain, wait loop, `handle_child_exit`, `do_restart`, `restart_pending_services`, re-initialisation by `execvp` of itself | every service process is supervised, restarts are carried out, limited and spaced, and no service runs twice |
| signals, `src/signals.c` | `shutting_down`, `phase` | the handler for INT, TERM, HUP | a shutdown reaches every service and starts nothing more |
| registration reader, `src/registration.c`, the two loops in `main` | `s_buf`, `s_start`, `s_end` | `buf_fill`, `read_registration`, drain at sh's exit | every launched service gets its entry, and nothing else does |
| usagi-reg, `src/usagi-reg.c` (a process per background line) | record, sync pipe | fork, write, release the child | the service does not exec before its record is written, and always does in the end |
| preprocessor, `src/shell/preprocess.c` | none (a temporary file) | joins continued lines, turns `cmd &` into `usagi-reg cmd` | exactly the background lines are turned |
| launch context, `src/shell/utils.c`, parts of `services.c`, `guardian.c` | args, env, working directory | redirection, `$VAR`, path resolution | a restarted service runs in the context it was launched in |
| interactive shell, `src/shell/executor.c`, `parser.c`, `prompt.c` | none | pipelines, builtins, background commands | waiting for a command takes no service's exit |
| logging, globals, build, tests | flags | | |

How they interact: `sh` runs the preprocessed script and, for each background
line, usagi-reg in the foreground. usagi-reg forks the service and sends its
pid, command and environment through one pipe to `main`, which fills the table.
When sh has exited and the pipe is at its end, the guardian phase begins:
`waitpid` reports children, `handle_child_exit` edits the table,
`restart_pending_services` forks. Signals interrupt all of it. UsagiInit is
PID 1 or a subreaper, so processes it never started become its children. Build
flags choose the restart policy, re-initialisation and signal forwarding.

What is hard: pids as the only key of the table while the kernel reuses them; a
signal between any two steps; a blocking wait beside deadlines; re-execution
with children alive; many writers and a buffered reader on one pipe, with the
pipe's end as the signal to go on; processes that die in the middle.
`PROJECT.json` lists each such place as a hazard at its line.

## 2. Modules

| Module | What it is |
|---|---|
| `ServiceTable` | the table as a sequence of entries, one operator per function of `services.c` |
| `Guardian` | run_guardian, handle_child_exit, do_restart, the signal handler and the kernel's processes; extends `ServiceTable` |
| `Supervision` | abstract specification: the life of each service, without pids, table or clock |
| `GuardianRefinement` | the refinement mapping from `Guardian` to `Supervision` |
| `Registration` | the shell phase: sh, usagi-reg, the services before their exec, the pipe, the reader; extends `ServiceTable` |
| `RegistrationRefinement` | `Registration` seen from the table: it takes the `Register` steps of `Guardian` |
| `Preprocess` | the rewriting of the script, beside a reading of the same text as sh reads it |
| `CommandLine` | how the fallback shell takes a line apart, beside a definition of its words |
| `ScriptLines` | both readers on the same texts |
| `LaunchContext` | program, arguments, streams, environment and directory of a service at launch and at restart |
| `Interactive` | the fallback shell and its waits, followed by the guardian; extends `Guardian` |
| `MCGuardian`, `MCGuardianRefinement`, `MCRegistration`, `MCPreprocess`, `MCLaunchContext`, `MCInteractive` | constants for TLC |
| `ServiceTableTheorems` | what find_service and remove_service return, for tables of any length |
| `GuardianProofs` | theorems about `Guardian`: the table, the loop and the delays; then the processes behind the entries |
| `GuardianRefinementProofs` | theorem: `Guardian` implements the safety part of `Supervision` |
| `RegistrationProofs` | theorems about `Registration`, among them that it takes the `Register` steps of `Guardian` |
| `LaunchContextProofs` | theorems about `LaunchContext` |
| `InteractiveProofs` | theorems about `Interactive` |
| `PreprocessProofs` | theorems about `Preprocess`: the lines joined and the services made of them |
| `ScriptLinesProofs` | theorems about `CommandLine` and `ScriptLines`: the words of a line; both modes on one line |

Operators marked `mutant` in a comment are deliberate faults; no specification
uses them. They show that the property they are paired with in `PROJECT.json`
can fail.

### Guardian

- `services` is the table. An entry has the command (`svc`, standing for args
  and env), `pid`, `restart_count` and `next_restart` (0: none), as the C
  struct.
- `pc` is where UsagiInit is; the module's head lists its values. One action
  per call: `DrainReap`/`WaitReap` for a successful `waitpid`, `WaitNothing`
  for one that returns 0 or ECHILD, `HandleChildExit` for the whole function,
  split into `Reexec` and `ReexecFails` when it ends in `execvp`, `RestartOne`
  for one `do_restart`. A child may die, be adopted, or a signal come between
  any two of them.
- `state`, `command` and `clean` are the kernel's processes. `IsFree` lets the
  kernel hand out a pid the table still names only under the fault `pid_reuse`.
- `Register` is one background line, from fork to `add_service`. Merging it is
  sound for the guardian, which starts after the drain; module `Registration`
  opens it up.
- `HasDeadline` stands for `get_next_restart_time() > 0`, the only use of that
  result.
- `compute_backoff` is the loop's result as a table: 1, 2, 4, 8, 16, then 30.
- `Faults` chooses what may fail around UsagiInit; the code's answer to each
  failure is always in the model.
- `starts` and `signalled` are history variables. `starts` counts since the
  last boot; `execvp` resets it with the table.
- The clock counts seconds since the last boot (`Reexec` sets it to 0, which no
  entry can notice, as there is none), and ticks only while a restart lies in
  the future: at other times no comparison can tell.
- In the child between fork and exec nothing is modelled; a failed exec is a
  child that dies unclean.

### Registration

- A line is the unit of the pipe, the buffer and the capacities. It carries
  what `atoi` makes of it and who wrote it. So a read cuts a record between any
  two lines; cuts inside a line are the same to `buf_read_line`, which leaves a
  line alone until its newline has come.
- `ReadRegistration` is one `read_registration` and what both loops of `main`
  do with its result. REG_AGAIN, REG_EOF and REG_ERROR all end both loops, and
  are one case.
- `Parallel = FALSE` is a script executed line by line: sh waits for each
  usagi-reg, as the preprocessor drops the `&`. `Parallel = TRUE` is a script
  with such lines on several sides of a pipeline or in a part it left in the
  background.
- `MayDie` lets sh or a usagi-reg be killed, or a system call of usagi-reg
  fail. Its exit, like its death, closes its ends of both pipes.
- `job` is a background process the preprocessor does not turn into a service
  (a second `&` on the line, a daemon).

### RegistrationRefinement

A background line counts as run when main has read the last line of its record
(`IsRead`). Every step of `Registration` is then one `Guardian!Register`, the
end of the shell phase, or nothing `Guardian` can see (`ImplementsRegister`).
The services of `Registration` do not die, so the two agree up to the exits
that `Guardian` adds.

### Preprocess, CommandLine, ScriptLines

- Text is a sequence of characters, one per class that the code or sh
  distinguishes; a tab is a blank, every digit is "0", `<` and `>` are ">". Of
  the classes that only sh knows, `>`, `|`, `;` and the brackets make operators,
  and "if" stands for a whole reserved word (if, then, done, !, {, }).
- `Scan` is the quote tracking the three scanning functions share; each of them
  differs from the others in what it makes of a backslash and a #, which are
  its two parameters.
- `transform_line` returns the line and how many characters of it follow
  `usagi-reg`, or 0 for a line that goes out unchanged.
- `ShScan`, `ShCut`, `ShLines`, `IsBackground` are the reference, sh's own
  reading; `Words` is one for `parse_command`, without a loop. To sh an & behind
  a `>` duplicates a descriptor, to the code one before a digit; sh runs a whole
  line in the background if it is a simple command (`IsSimple`: no pipeline,
  list, group or reserved word) with one & behind it (`EndsInAmp`). The code is
  never compared with itself.
- `RunsInBackground` is run_command up to its `add_service`: a line with a `|`
  goes to `execute_pipeline`, and one of `Builtins` (export, cd, exit) runs in
  UsagiInit, so that neither becomes a service even with an &.
- `Parse(line)[i]` is what `parse_command` holds after `i` turns of its loop,
  `Parsed` one turn, `Cut` the end of a word. The loops are recursive functions
  on the positions of a line, no recursive operators, for the sake of the proofs.

### LaunchContext

- A word has an operator, a name and an anchor: a directory, `rel` (a relative
  path with a slash) or `none` (no slash). `quoted` is what only sh can see.
- `handle_redirection` takes the words one by one (`Take`): an operator waits
  for the word behind it, whatever that is, or has its file attached.
- `Process` is what every child does between fork and exec, in usagi-reg's
  child, in run_command's and in do_restart's. The three differ in the words,
  the directory, the PATH and the environment they pass to it. `execvpe`, as
  `execvp`, searches the PATH of the calling process, not of the environment it
  hands on.
- `own` is UsagiInit's directory and environment, `sh` that of the script. In
  the fallback shell they are the same.
- `launched` and `restarted` are history; one background line in each boot is
  enough, since entries share nothing that do_restart reads.

### Interactive

- `at_shell` is the shell's control point within `pc = "shell"`. All of
  `Guardian`'s steps stay, except that lines come from the keyboard.
- `wait(NULL)` and the `waitpid(-1)` that a failed fork leads to are one
  control point, `wait_any`.
- The loop at `src/shell/executor.c:37` ends at MAX_CMDS commands or in
  `trim_whitespace(NULL)`, so a pipeline either crashes (`ShortPipeline`) or has
  exactly MAX_CMDS stages (`LongPipeline`), which run one after another.
- `jobs` and `taken` are history: the shell's own children, and what else its
  waits reaped.

## 3. Runs

Passing runs. Guardian: two services, four pids (both services, one orphan, and
one free for a restart while the others are held), at most one adoption
(`MaxOrphans`).

| Run | Shows |
|---|---|
| `GuardianRelease` | the release flags, two restarts, no fault: `Watched`, `Supervised`, `OnePerService`, `RestartRate`, `NeverDroppedEarly`, `SignalForwarded`, `NoRestartInShutdown`, and no scheduled restart is forgotten or moved (`PendingRestartKept`) |
| `GuardianPromise` | failed services are restarted, once: `Guardian` implements `Supervision` (`ImplementsPromise`) and keeps its fairness (`KeepsPromise`); `EventuallyRestarted`, `ExitNoticed` |
| `GuardianFaults` | all faults, one slot for two services: `TypeOK`, `RestartBudget`, `KeepsGuarding` |
| `RegistrationPlain` | line-by-line script, records longer than `PIPE_BUF` that just fit the buffer: `NobodyMissed`, `NoPhantomEntry`, `ExecAfterRecord`, nobody waits for ever (`GuardianPhaseComes`, `EveryLaunchRuns`), and `Guardian` may treat a line as one step (`ImplementsRegister`) |
| `RegistrationFaults` | usagi-reg side by side, kills, a job, a table too small: `TypeOK`, `NobodyMissed`, `NoPhantomEntry` |
| `Preprocess` | every text of four characters, and longer ones of fewer classes: lines are joined as sh joins them (`JoinsAsSh`), of the simple commands those are services which sh would background (`ServicesAsSh`), the fallback shell's words are right and fit (`SplitsIntoWords`), both modes make the same services but for pipelines and builtins (`BothModesAgree`) |
| `Launch` | every line of a program and two arguments or redirections: what a restart keeps and when (`ProgramKept`, `ArgumentsKept`, `StreamsKept`, `EnvironmentKept`), and that the script finds usagi-reg (`HelperFound`) |
| `Interactive` | the fallback shell with failing forks: only a wait for any child loses a service (`LostOnlyToAnyWait`), only a lost service makes the guardian wait for nobody (`SpinsOnlyIfLost`), the prompt comes back after the command (`PromptAfterCommand`) |

Bounds. Two services are the least that can disturb each other's entries (shift
at removal, first due of several, last one standing); two restarts have a
second, longer delay and reach the limit. One second is the unit of time, the
50 ms nap is left out. In `Registration` a record is five lines, the pipe holds
one or two records (`PIPE_CAP`), the buffer one or one and a half (`BUF_CAP`),
so that reads cut records and the buffer is compacted with a rest in it;
`PIPE_BUF` is at or below the record's length, which decides between an atomic
and a split write. Symmetry is used in safety runs only, on services and pids,
which are model values and never ordered.

`Preprocess` takes all texts of four characters over fifteen classes
(`AllLength`), of five over the nine the code itself looks at (`QuotingLength`)
and of six without quotes, comments and lists (`OperatorLength`). Four hold
`x|x&`, `(x)&` and `x;x&`; five a continued background line, a quoted operator,
a comment behind one; six `x>&0 &`, a duplicated descriptor before the operator,
and `( x )&`. `LINE_CAP` is 7, so no text of that length is cut by fgets;
`LinesFit` says what happens to longer ones. `MAX_ARGS` is 3 there, so that lines
overflow it, and the one builtin is the word `xx`. In `Launch` two
pieces on a line are the least in which one redirection can refer to another
(`>log 2>&1`) or take an operator for its file; two `cd` or `export` commands
can stand before and after the line; two boots prepend to PATH twice. In
`Interactive` three typed lines, a pipeline of two, two services and one orphan.

Deadlock is checked in every run: the only states without another step are
those where UsagiInit is gone (`Terminated`), the shell phase is over
(`Quiet`), the script is written (`Preprocess!Finished`) or the last boot of the
bound is reached (`LaunchContext!Finished`), each with its own stuttering action.

Fairness, all of it weak. `Guardian`: UsagiInit is scheduled (its own steps and
`Boot`) and time passes (`Tick`). Nothing makes the script end, a process die
or a signal come. `Registration`: the reader, each usagi-reg and each service
are scheduled, and sh ends when it waits for nothing. Nothing makes a job end.
Liveness of `Registration` is checked for a script run line by line, where one
writer at a time waits for room in the pipe; with several, a fair order among
the waiting writers would have to be assumed of the kernel.

Runs that end in a violation, each a disagreement of the code with its own
words (quoted in `PROJECT.json`, findings):

| Run | What happens |
|---|---|
| `PidReuse` | a process under the old pid of a service in backoff cancels its restart |
| `ShellSignal` | after a signal in the shell phase the loop outlives its last service and spins |
| `JobHoldsPipe` | a background job keeps the guardian phase from beginning |
| `RestartElsewhere` | after a `cd` in the script, a service launched by a relative path is restarted from another directory |

The same modules show more, with other constants or properties:

- `Faults = {"fork"}` violates `Watched`: a failed fork in do_restart
  (`src/guardian.c:50`) leaves an entry with pid -1, never restarted nor removed.
- `NoServicesNoReexec` (no services, one dead orphan) is violated in
  `GuardianRelease`: the drain re-executes UsagiInit before `src/main.c:65`.
- `LoggedBeforeOutput` is violated in `RegistrationPlain`: a service can write
  before its `SERVICE:` line, against `src/usagi-reg.c:22`.
- `Multiline` not empty violates `NobodyMissed`: a newline in an argument shifts
  the lines of the record (`src/usagi-reg.c:81`). The environment is written
  the same way.
- `TerminateAll = FALSE` violates `SignalForwarded`: without
  `TERMINATE_ALL_PROCESSES` (the development build, `scripts/build.sh`) the
  handler exits without sending the signal on, against `README.md:13`.
- `Parallel = TRUE` with `PIPE_BUF` below the record's length violates
  `NobodyMissed`: two usagi-reg mix their records, or the drain
  (`src/main.c:205`) ends at a record that is not complete yet.
- `BUF_CAP` at or below the record's length violates `NobodyMissed`: a full
  buffer asks for 0 bytes (`src/registration.c:23`) and the record is never
  read. `RegistrationPlain` has the longest record that does fit.
- `MayDie = TRUE` violates `ExecAfterRecord`: a usagi-reg that fails after its
  fork releases the service unregistered, against `src/usagi-reg.c:21`.
- `GroupsLeftAlone` is violated in `Preprocess`: `( x ) &` on one line becomes
  `usagi-reg ( x )` (`src/shell/preprocess.c:127`), a syntax error for sh, where
  `README.md:98` says that such a line is not made a service.

The preconditions of the new properties name where the code does differ:

- `JoinsAsSh`: a line longer than fgets' buffer is cut and each part transformed
  on its own; a comment ending in a backslash swallows the next line
  (`src/shell/preprocess.c:26`); a backslash at the end of the file is dropped;
  a quote open at a line's end is forgotten on the next line.
- `ServicesAsSh`: an escaped `\&` and a # inside a word are read as an operator
  and a comment (`src/shell/preprocess.c:78`, `:107`). An & before a digit is
  taken to duplicate a descriptor even without a `>` (`x &0 &`), and one before
  anything else not to even behind a `>` (`x >&- &`; `:110`). The functions know
  no lists, pipelines, groups or reserved words, of which the property only says
  that nothing before the operator is lost: `a; b &` becomes
  `usagi-reg a; b`, of `a | b &` only `a` is a service, `then b &` becomes
  `usagi-reg then b` and leaves its `if` open, and for `( a ) &` see
  `GroupsLeftAlone`. Nor do they know
  command substitutions and here-documents, or assignments: `V=1 cmd &` asks for
  a program `V=1`.
- `BothModesAgree`: a pipeline and a builtin with an & behind them (`a | b &`,
  `cd /app &`) are services of the script and not of the fallback shell
  (`src/shell/executor.c:111`, `:123`). Quotes, backslashes, comments and a second
  & are read differently by the two.
- `SplitsIntoWords`: a quote in the middle of a word drops what stands before it,
  so `export A="b c"` fails in the fallback shell (`src/shell/parser.c:22`).
- `ProgramKept`, `StreamsKept`: a script's relative path after `cd`, a bare name
  on a PATH the script has put something in front of, and every redirection of
  the script are not what a restart uses.
- `ArgumentsKept`: a quoted `>` or `$V` of the script is a redirection or a
  variable to do_restart.
- `HelperFound`: a script that sets PATH anew (`export PATH=/usr/bin:/bin`) no
  longer finds usagi-reg, and its background lines start nothing.
- `LostOnlyToAnyWait`: pipelines and failed forks of the fallback shell.

## 4. Proofs

All theorems hold for every value of the constants under the named assumptions
of the modules (types of the constants only) and what the tables say.

### Guardian

| Theorem | Further assumptions | Statement |
|---|---|---|
| `TypeCorrect` | none, all faults allowed | `Spec => []TypeOK` |
| `BudgetKept` | none | `Spec => []RestartBudget` |
| `KeepsGuardingAlways`, `ShutdownStartsNothing`, `RestartRateKept` | none | `KeepsGuarding`, `NoRestartInShutdown`, `RestartRate` |
| `WatchedAlways`, `PendingRestartKeptAlways` | no `fork`, no `pid_reuse` | `Watched`, `PendingRestartKept` |
| `NeverDroppedEarlyAlways` | `Roomy`, no `fork`, no `add` | `NeverDroppedEarly` |
| `SupervisedAlways`, `OnePerServiceAlways` | `Roomy`, no `fork`, `pid_reuse`, `add` | `Supervised`, `OnePerService` |
| `SignalForwardedAlways` | also `TerminateAll` | `SignalForwarded` |
| `PromiseImplemented` | `Roomy`, no fault | `Spec => ImplementsPromise` |

`Roomy` says that the services are finitely many and no more than
`MAX_SERVICES`: add_service refuses any further one, which then runs without an
entry. The excluded faults each refute the statement; section 3 names the cases.

The inductive invariants, each one strengthening another:

- `Typed`: types, and a scheduled entry is below the limit. It needs nothing of
  how an entry came into the table, and so holds under the fallback shell, too.
- `BudgetInv`: types; no service has two entries; an entry accounts for the
  processes started (`starts <= restart_count + 1`); a scheduled entry is below
  the limit. `RestartBudget` alone is not inductive: nothing in it ties the
  number of processes to the count that is tested.
- `WatchInv`: the pids in the table are distinct, and each is in one of three
  situations: its process is unreaped and was started for the entry's command
  (no restart scheduled), it is reaped and in the hand of handle_child_exit, or
  it is free (restart scheduled). `Watched` says nothing about a scheduled
  entry's pid; that it is free is what keeps the next reaped child from being
  taken for it, and so what keeps its restart in the table
  (`AfterExitPending`, for `PendingRestartKept`). The fault `pid_reuse` breaks
  just this, and `fork` the distinct pids.
- `SupervisedInv` adds `Supervised`. A removed entry's process was reaped, so
  no other process loses its entry; re-initialisation happens on an empty table,
  so no service process is left. That a new entry finds room is an injection
  from the table into the other services.
- `LoopInv`: `Typed`, the loop's control points against the table, and that
  after a signal nothing is scheduled.
- `PaceInv`: the count in an entry pays for the time passed, and a scheduled
  deadline for one delay more. `RestartRate` alone says nothing about the entry
  from which the next delay is computed.
- `KeptInv`: an entry's count is exactly its service's starts. The inequality
  of `BudgetInv` would allow a service to be given up after fewer restarts.
- `SignalInv`: `SupervisedInv` beside `SignalForwarded`. UsagiInit exits with
  success either from the handler, which has just signalled all that lives, or
  because its table is empty, and then `Supervised` says that no service
  process is left to be signalled.

The refinement proof has an invariant of its own, `PromiseInv` (the above, and
`Fresh`: nothing has been started before the boot is over, nor under
re-execution while the table is empty and no stop is asked for), and defines the
mapped state once more without CHOOSE (`Mapped`), so that an operation only has
to say which service's stage it moves: `OneMoves` and `Untouched` carry the rest
of the map over. Then one lemma per step (`ExitDies`, `RegisterStarts`,
`RestartRestarts`, `ExitHandled`, `ReexecStartsOver`, `SignalStops`,
`NothingLeftHalts`, `QuietSteps`) shows it to be the step of `Supervision` it
stands for, or a stuttering one.

The lemmas about one operation take the table and the kernel's maps as
parameters, so that the step to the next state only has to name them.

### Registration

| Theorem | Further assumptions | Statement |
|---|---|---|
| `RegistrationTypeCorrect` | none | `Spec => []TypeOK` |
| `NoPhantomEntryAlways`, `NobodyMissedAlways` | `Multiline = {}`, `Fits`, `WholeWrites` | `NoPhantomEntry`, `NobodyMissed` |
| `ExecAfterRecordAlways` | also not `MayDie` | `ExecAfterRecord` |
| `RegisterImplemented` | `Multiline = {}`, `Fits`, `WholeWrites` | `Spec => ImplementsRegister` |

`Fits`: a record is shorter than s_buf. `WholeWrites`: it is no longer than
`PIPE_BUF`, or the script runs line by line and nobody is killed. Without one of
the assumptions TLC refutes the statement (section 3): they are the conditions
under which the protocol of `usagi-reg` and `read_registration` works. Both
cases of `WholeWrites` occur: an environment of a few kilobytes does not fit
into PIPE_BUF. `RegistrationPlain` checks the second case, `RegistrationFaults`
the first.

The argument is about `Stream`, the lines in s_buf followed by those in the
pipe. `StreamInv` says that there is a set of positions at which it can be cut
into records (`Cut`), of which only the last may be incomplete; that the writer
of an incomplete record is about to write just what it lacks, and that of a
whole one has nothing left (`Fate`); and that the record of a usagi-reg which
has written is in the stream, or its service in the table (`Whereabouts`).
`NobodyMissed` is not inductive, as it speaks of the moment when all is over,
and the parser is right only on a stream that begins with a record. A write
adds a cut or continues the last record (`CutGrows`, `CutContinues`), a
successful read takes the first record away (`CutShifts`, on
`CompleteIsWhole`), an unsuccessful one moves lines from the pipe to the buffer
and changes no line of the stream. `Turns` says who may write at the same time,
and that nobody is left to write when the drain ends.

The refinement rests on `StreamInv`, too. A background line counts as run when
its record is written and has left the stream. Every line of the stream stands
in a record (`Covered`) and is its writer's (`OwnRecord`), so that a successful
read takes away all lines of one writer and none of another: just that service
appears, and `Fate` says that no entry had its pid (`TakeRegisters`). A write
appends lines of a writer that does not count as run on either side of the step
(`WriteIsQuiet`).

### LaunchContext

| Theorem | Further assumptions | Statement |
|---|---|---|
| `ProgramKeptAlways`, `ArgumentsKeptAlways`, `StreamsKeptAlways` | none | `ProgramKept`, `ArgumentsKept`, `StreamsKept` |
| `EnvironmentKeptAlways`, `HelperFoundAlways` | none | `EnvironmentKept`, `HelperFound` |

They hold for lines of any length. `LaunchAssumption` asks of a line only that
it is a non-empty sequence of words and begins with a program, not with an
operator or a variable, and of the values of V that they are words.

The properties compare the last restart with the launch. Neither says why the
next restart will be right, so `KeptInv` speaks of the entry from which it is
made, and that does not change: the table and its history have the same length
(`Aligned`); the entry's first word is the program of the line, at the directory
add_service resolved it to (`SameProgram`); in a script the other words are the
reported arguments (`AsReported`), in the fallback shell reading the entry in
the launch's directory gives what the launch read (`AsTyped`); a script's entry
holds the environment of its launch, never `Inherit`; and the restart on record
is what do_restart makes of the entry (`RestartOf`).

The rest is what the functions on a line return. `handle_redirection` and
`ShWords` are folds over its words, so this takes an induction along the line:
`Closed` gives it for sets of numbers, from the library's theorem that `<` is
well-founded on Nat, `FoldExists` and `WordByWord` turn the fold into a sequence
of readings, each made from the one before by `Take`. `PlainReading`: a line
without operators keeps its words and streams. `ReadAlike`: two lines that differ
in the path of the program only, read in two directories, have the same
arguments, and the same streams but for relative file names if the directories
differ; launch and restart are such a pair. `ShWordsTyped`: sh keeps the program
in front and makes no operator. `FoundAlong`: a program that is found on a PATH
is found at the same place on one that continues it.

`PathInv`, for `HelperFound`: UsagiInit's PATH begins with its own directory
from the boot on, in script mode, so that a PATH which continues it finds the
program in the first place.

### Interactive

| Theorem | Further assumptions | Statement |
|---|---|---|
| `LostOnlyToAnyWaitAlways`, `SpinsOnlyIfLostAlways` | no `pid_reuse` | `LostOnlyToAnyWait`, `SpinsOnlyIfLost` |
| `PromptAfterCommandAlways` | none | `PromptAfterCommand` |

Neither `BudgetInv` nor `WatchInv` holds here: a background line whose fork
failed adds an entry with pid -1, for whatever command, any number of times.
`SeenInv` is what is left of `WatchInv`: an entry with a pid, if no restart is
scheduled, names its process, the child in hand, or a process whose exit a wait
of the shell took. `ShellInv` keeps the shell's own children apart from the
services, so that `waitpid` for one of them touches no entry; it carries on
through the guardian phase, where the pid of such a child may be reused for a
service. `PromptInv` says how many children the shell has at each of its
control points.

### Preprocess, CommandLine, ScriptLines

| Theorem | Further assumptions | Statement |
|---|---|---|
| `ServicesAsShAlways`, `JoinsAsShAlways` | none | `ServicesAsSh`, `JoinsAsSh` |
| `SplitsIntoWordsAlways`, `BothModesAgreeAlways` | none | `SplitsIntoWords`, `BothModesAgree` |

TLC takes texts of up to six characters and one size of each buffer; the theorems
hold for texts of any length over the fifteen character classes, any set of
builtins and any size of
the buffers, `LINE_CAP` and `MAX_ARGS` at least 2. (The code has 4096 and 128.
With `MAX_ARGS` 1 there is no room for any word, and `BothModesAgree` is false.)
What a line has to be like is in the properties themselves; section 3 names the
texts that are excluded.

The loops over a line are recursive functions of the position, made with CHOOSE.
`Loop` shows that a function exists which makes each of its values from the one
before, so that `ScanRuns`, `ShScanRuns`, `ShCutRuns` and `ParseRuns` can say of
the model's functions what they are defined to do. The induction along the line
is `Along`, about sets of positions: the library's induction theorems take an
operator, which the provers cannot instantiate, so it is derived from `<` being
well-founded on Nat (`Least`, `Closed`).

- `ServicesAsSh` follows from `LinesInv`: every line written is one line, with a
  newline at its end at most, and what is written of it is `transform_line` of
  it. The rest is about one such line: sh's scan and the preprocessor's are in
  the same quote at every character (`SameModes`), so that the operators, the
  blanks and the end of the content are where sh sees them (`ReadPlainly`). Then
  a line without other operators is made a service exactly if its last & is sh's
  only one, and any line that is made one ends in such an & (`ServiceEndsInAmp`,
  `EndsInAmpIsService`); the `has_amp_before` that looks for another one is where
  the two could part.
- `JoinsAsSh` speaks of the end and is not inductive. `JoinInv` relates every
  state to sh's reading of the same prefix of the script: the lines written are
  those that sh has finished, the buffer is the one it has begun, and sh stands
  in no quote there. A turn of the loop extends both by one physical line
  (`TurnAsSh`): within it the scan of `ends_with_continuation` stays with sh's up
  to a comment (`JoinModes`), and at its end the parity of the backslashes is
  the same as sh's `escaped` (`OddRun`). `Alike` is the precondition of
  `JoinsAsSh`, a matter of the script alone.
- `SplitsIntoWords`: `Wording` is the loop invariant of `parse_command`. After
  `i` characters it has taken the words that end before there, and it is full,
  or between words, or in the word that began at some `s`, bare or in quotes.
  `Rank`, the number of words that begin before a position, makes the link to
  `Words`, which is defined by counting.
- `BothModesAgree`: on a simple line both sides ask whether the last character
  that is not white is an & and anything stands before it (`OperatorIsLast`,
  `QuoteFree`). run_command keeps the blanks before the &, the preprocessor does
  not; no pipe can hide in them (`SamePart`), and the first word, which decides
  about a builtin, is the same on both (`FirstWord`, `SameFirstWord`).

### Model-checked only

Liveness (`EventuallyRestarted`, `ExitNoticed`, `GuardianPhaseComes`,
`EveryLaunchRuns`) and `KeepsPromise`, which rest on fairness and ENABLED. Every
invariant and every other action property of a passing run is a theorem.

## 5. Not modelled

Logging. Failed allocations in the reader: two of them (`src/registration.c:79`,
`:122`) leave s_start in the middle of the record, and the next call misreads
the rest. Lines over 4095 bytes of a record. A record of more than 127
arguments, which overruns `args[]` in add_service: from there on the C program
has no defined behaviour to model. The wall clock being set. The child between
fork and exec, where a signal still meets UsagiInit's handler. What exit() and
printf() do when the handler interrupts the C library. Stopped processes:
`waitpid` without WUNTRACED does not report them. Processor use of the loop
while it polls. A stage of a pipeline that writes more than the pipe holds: the
next one is not forked before it ends (`src/shell/executor.c:66`), which here is
a command that never exits. A redirection that does not open: the process ends
before its exec. A relative `argv[0]` of UsagiInit after a `cd` in the fallback
shell, which re-initialisation would not find.

## 6. Plan

Written so far, in this order: `ServiceTable`, `Guardian` with its runs,
`Supervision` and the refinement, `Registration`, the first proofs about
`Guardian`; then `Preprocess`, `CommandLine`, `LaunchContext`, `Interactive` and
`RegistrationRefinement`; then the remaining safety properties of `Guardian`,
the refinement of `Supervision`, the theorems about `Registration` and its
refinement, and those about `LaunchContext` and `Interactive`; last the theorems
about `Preprocess` and `CommandLine`. Open: failed allocations in
`read_registration`, and lines of a record cut at 4095 bytes.
