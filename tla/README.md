# A verification project for *that goes there*

TLA+ models of `that-goes-there`, a library (`libthere`), a command line program
(`there-cli`), a controller (`there-controller`) and an agent (`there-agent`)
that apply plans, lists of shell commands guarded by checks, to hosts. The models
are translated from the Rust source; `PROJECT.json` maps each definition to the
lines it stands for, and lists every run, mutant, finding, hazard and theorem.

## 1. The system

| Part | State it keeps | Operations | Talks to |
|---|---|---|---|
| Planning (`plan/mod.rs`, `visitor.rs`) | none: task set in, plan out | `TaskSet::plan`, `visit_task`, `plan_for_host` | the loops |
| Log pipeline (`executor/mod.rs`, `simple.rs` 219-291) | a bounded mpsc channel, the `ended` flag of its source | `sink`, `source` | executors sink, drain tasks source |
| SSH executor (`executor/ssh.rs`) | session, place in the plan, failed ensures, `tasks_completed` | `execute`, `execute_task`, `ensure_task`, `execute_command` | the remote host, the log |
| Local executor (`executor/simple.rs`) | place in the plan, failed ensures, child and pipes | the same, with child processes | children, the log |
| `do_apply` (`commands/plan.rs` 242-344, controller `executor.rs` 92-177) | sender, drain task, result | spawn the drain, drive the executor, join | executor, drain task, its caller |
| The loops (`commands/plan.rs` 164-233, `executor.rs` 16-88) | a `FuturesUnordered` of `do_apply`s | prepare, refuse, drive, report | `do_apply` |
| Controller server (`http_server.rs`) | a cache of 1000 job states under a mutex | `run_plan`, `get_job_status`, `bootstrap` | programs and agents by HTTP, drain tasks by the mutex |
| Controller client (`commands/plan.rs` 117-163) | `log_offsets` | post, poll, print | the server |
| Keys and token (`keys.rs`) | two files | get or create | server, controller start |
| Agent (`there-agent/src/main.rs`) | `authorized_keys` | fetch the key every five minutes, append it | the server |
| Runtime of the program (`there-cli/src/main.rs`, tokio) | worker threads, queued tasks | run, park, shut down | every future and drain task |
| Start-up and argument parsing | none | | |

What is hard in it:

* **Two tasks and one channel for each host.** The executor sinks, a spawned drain
  task polls, and `do_apply` joins the drain task *while it holds the only sender*.
  Whether a run ends rests on who closes the log: correct means that no message is
  lost or reordered, nothing follows `End`, `Ok` comes after the log was shown, and
  every run is reported.
* **Commands on another machine**, any of which may fail, hang, or lose the session
  between two steps. Correct means that commands are given in blueprint order and
  no task runs before each of its ensures passed.
* **Child processes** that exit, close a pipe, or hand one on at any moment relative
  to `try_wait` and `select!`. Correct means that what was read is shown, and that
  nothing but an open pipe holds the executor.
* **Many hosts in one task**, in the order of a `HashMap`, one of which may be
  refused or run for ever. Correct means all or nothing before the start, and
  independence after it.
* **Jobs behind one mutex**, changed by copies, in a cache that evicts. Correct means
  that no writer undoes another, a gone job stays gone, and the program that polls
  prints every message once before it reports the end.
* **Files created before they are written**, by a `File` that answers before the
  write is done, and restarts, of the controller and with another passphrase. Correct
  means that nobody comes to trust a key, or to hold a token, that is not kept.
* **A file shared with its owner** (`authorized_keys`), read, compared and appended to
  in separate steps, with or without a last newline. Correct means that the key comes
  to be a line of its own, once.
* **Tasks that never yield** on a runtime with a fixed number of workers. Correct means
  that hosts do not starve each other, and that logs are shown before the exit.
* **Checks and commands on a machine that others change**, compiled from a task set
  that may be malformed. Correct means that a plan is whole, and that what the ensures
  of a task promise holds when its command is given.

The list of hazards in `PROJECT.json` says for each of these where it bites.

## 2. The modules

| Module | Models | Composes |
|---|---|---|
| `HostRun` | the promise of one application of a plan to a host: the abstract specification | |
| `LogChannel` | the channel, `SimpleLogSink`, `SimpleLogSource` and the drain task | |
| `SshApply` | `do_apply` with `SshExecutor`, up to its caller's report | extends `LogChannel`, implements `HostRun` |
| `LocalApply` | `do_apply` with `SimpleExecutor` and its children | extends `LogChannel`, implements `HostRun` |
| `FanOut` | `plan_for_host`, `inspect_host_group`, and the two loops of either caller | futures end as `HostRun` says, or never |
| `Controller` | `run_plan`, `get_job_status`, the job cache, `apply_plan`, drain tasks, and the programs that poll | runs end as in `SshApply`, or never |
| `Planning` | `TaskSet::plan` and `PlanningTaskVisitor`: tasks compiled one by one, errors and panics | |
| `Provision` | the checks and commands of a blueprint, by either executor, on a machine that commands and other processes change | extends `Planning` |
| `Runtime` | tokio's workers under the program: the futures on the main thread, the drain tasks, panics of `println!`, the exit | runs as in `SshApply` and `LocalApply`, by their awaits |
| `Bootstrap` | key and token files, start, crash and restart of the controller, the `bootstrap` handler, the agent and `authorized_keys` | |
| `LogChannelProofs`, and the `*Proofs` module of `SshApply`, `LocalApply`, `FanOut`, `Controller`, `Provision`, `Runtime` and `Bootstrap` | lemmas and theorems | each extends the module it is about |
| `MC*` | values of the constants for the runs | |

**State and actions.** In `SshApply` and `LocalApply` the variable `pc` is the place
of the executor between two awaits, and each action is the code from one await to
the next: `SinkAt(from, m, to)` is `self.sink_one(..).await?`, with its failure;
`CommandReturns` is the return of `execute_command` with what its caller does with
the status; `RemoteError` is the `?` of every call to the remote host. `ran`,
`codes`, `spawned` and `passed` are histories no action reads. In `FanOut` a future
is identified by the mention (group and index) it was made for, because a host in
two groups is driven twice. In `Controller` a critical section of the mutex is one
step, as nothing is awaited inside; `Take` and `AppendLogs` are separate because the
lock is awaited between them, and `GetJobStatus` and `ShowNew` because the answer
travels. In `Provision` one turn of `ensure_task`'s loop is `EnsureOne`, and
`execute_task`'s command is `RunCommand`, which may do anything to the machine, for it
may be any program, it may fail, and nobody looks at its status; between any two steps
`Disturb` may change the machine, any number of times. `Outcomes` are the ways a check
may come out: what the machine says, or no answer, which fails an ensure of existence
and passes one of absence. In `Runtime` the main thread polls the futures of the hosts
(`Poll` to `Report`); `Take`, `Show` and `Leave` are a worker in a drain task, which it
keeps until `Leave` or until a `println!` panics (`DrainPanics`), as that of a line may
in `LogChannel`; `MainPanics` is the same in `subcommand_apply`, which unwinds `main()`
and drops the futures. `Answer` needs a free worker, since only one that parks turns
the I/O driver. In `Bootstrap` each caller of the two `get_or_create`
functions, `main()` or the handler an agent waits for, goes from `Look` (`path.exists()`)
to `Read`, or to `Create` and `Write`; `Land` is the write coming to its file after
`write_all` has answered, or failing unheard.

**Abstractions.** A message is its kind (`"steps"`, `"output"`, `End`, ...), or in
`Controller` the run that logged it and its number; a message may carry several lines
of text and they are kept together. A remote command is its place in the plan and a
status. A batch that `source()` answers without a message changes nothing and is a
stutter. The denominators of the report lines are left out. The word of an
ensure is a value that a remote shell, which reads it between double quotes, may take for
another (`Quoted`), as `"/d/$a"` for `"/d/a"`; a path is a word with or without a
`Parent`. A key or a token is the number of the value that was made, and `sealed` says
under which passphrase; a line of `authorized_keys` is the sequence of what was written
to it, so that a key joined to the owner's last line differs from a line of its own.

## 3. The runs

| Run | Question | Result |
|---|---|---|
| `ssh_apply` | Is the order of log and commands kept under every interleaving, `HostRun` implemented, and who is not reported? | holds: only runs that fail without closing the log go unreported |
| `ssh_apply_failure_is_reported` | Is every failed host reported, as in README.md? | **violated** |
| `ssh_apply_count_is_tasks_passed` | Does `do_apply` return "how many tasks passed"? | **violated** |
| `local_apply` | Are children spawned in order after their ensures, is what was read shown, `HostRun` implemented, every error reported, and what can hold a run? | holds: only an open pipe holds one |
| `local_apply_output_is_shown` | Is the output of a command in the log, as the test of the executor asserts? | **violated** |
| `fan_out` | Is a host file refused before any host is touched, does each task reach its hosts, and does a host that never ends hold back the others' results? | holds: such a host holds only the end of the loop |
| `controller` | Does a program print everything once, in order, before "plan completed", does polling end, and are logs streamed while a run hangs? | holds, with eviction |
| `provision` | Is a plan whole, and what of its ensures is true when a command is given? | holds: those of existence, but for later changes by others and words a remote shell reads otherwise |
| `provision_create_directory` | Does a task "directory to be created" get past its own ensures where the directory is missing? | **violated** |
| `provision_absence_is_ensured` | Do the ensures of absence hold, over SSH, when the command is given? | **violated** |
| `bootstrap` | Can a host trust a key the controller lost, is a lost key file ever made good, and does an agent come to list the key, once? | holds: no, never by itself, yes |
| `runtime` | Which logs can be lost at the exit, can hosts starve each other, and does the program end? | holds: those of drain tasks that panicked or no worker had taken; yes, until a panic; unless a run is held or the workers are starved |

**What the violations show.**

* An SSH run that fails other than by a refused key never sinks `End`; `do_apply`
  then waits for a drain task which waits for the sender `do_apply` holds. The
  command never ends and that host is never reported. `ReportedOrHung` says that
  this is the only way not to be reported.
* The status of a task's own command is ignored over SSH, so "tasks passed" counts
  failed ones and the tasks after them run.
* The local executor leaves its loop when the child has exited, with the pipes
  unread; a short command can lose its output. `OrphansAreSilent` and
  `OkShowsWhatWasRead` bound the damage.
* The one ensure of a CreateDirectory task wants the directory to exist: the task is
  refused where it has something to do, and `mkdir` runs only where it must fail.
* Over SSH the ensures of absence fail open. `test -f` says no of a directory and
  `test -d` of a file, and a channel that closes before the exit status came is answered
  by 511 (`ssh.rs` 185), which is not 0 either: the task is run, with something at the
  path or with nobody having looked. `EnsuredBeforeRun` therefore says no more of such
  an ensure than that it was not answered by 0, and `EnsuredWhenReady` nothing. The
  planner makes no ensure of absence, but a plan that is posted may hold one.

Two more departures from the text of the repository have no run, since no step of
several actors is in them. The branch of `subcommand_apply` that prints `*** failed plan:
... for host: ...`, as README.md shows, is dead, because `do_apply` rewraps the typed
error it looks for (`plan.rs` 338); the message printed instead still names the host.
And a host of the host map that is in no group is visited by neither loop, even if a task
names it in "the hosts that this task applies to" (`plan/mod.rs` 102);
`EveryTaskReachesItsHosts` is about hosts in groups.

Some properties that hold state what a user would rather not have, where no text of
the repository promises otherwise. `LostKeyIsFinal`: the key file is created
before the passphrase is asked for and before the key is in it, so a start that fails in
between leaves a file no later start can use. `OnlyPanicsEndStarvation`: as many waiting
hosts as there are workers stop the program for good, unless standard output breaks.
`EnsuredWhenReady` allows for a remote shell that was asked about another word than the
ensure holds, since `$`, backquotes, backslashes and quotes keep their meaning between
the double quotes of `ssh.rs` 95-115.
`Controller` also shows something no text of the repository denies: `apply_plan` is
`Ok` when all its hosts failed, so the program prints "plan completed" for them.

**Bounds.** `Capacity` is 1024 in the code; the runs use 2, where the channel is at
times empty, partly full and full, and the executor waits for room while it still has
several messages to sink; the theorems hold for every capacity. Plans have two
tasks, so that one follows another, with two and one ensures, of existence and of
absence; statuses are 0 and 1, beside the 511 of a closed channel. `MaxFrames` and
`MaxChunks` are 1: one chunk is enough to be lost, and both pipes have one.
A command that writes for ever is outside these two bounds: it keeps its run going, and
`ReportedOrHung` and `ReportedUnlessPipeHeld` are not about it.
`FanOut` has twelve host files (a host in two groups, twice in one group, a group
with a host's name, an empty group, missing and unknown executors) and all plans of
up to two tasks from a set that names hosts, groups, both or nobody; names are
literal because a group may share a host's name, so no symmetry is used.
`Controller` has two jobs, the first with two runs of one host, of two messages and one,
and a cache of one job, so that each insertion may evict: the second job is what takes
the place of the first.
`Provision` plans every set of up to two tasks of nine (commands without words and with
an open quote; files and directories at the root, a directory in it, and a file there
whose name a shell expands to another file's), and takes posted blueprints with every
kind of ensure of a path and one with a command of no words, on every file system of
three paths, with three sets of programs. Commands and disturbances leave any of these,
so nothing on the machine depends on how many there were.
`Bootstrap` has two starts, one removal of each file, one edit and one agent: two
starts are enough for one to fail and the next to find what it left, under another
passphrase or none. A second agent multiplies the states by eighty; what several agents
do to the files at the same time is covered by the proofs, for any number of them.
`Runtime` has an ssh host and a local one on one, two or three workers: fewer than
hosts, as many, and one to spare; the proofs are for any number of both. Three lines
overfill a channel of two, and two waits let a run come back from one and wait again.

**Fairness.** Weak fairness on the steps of a task, taken together, says that the runtime
polls a task that is ready; a task is at one place at a time, so its steps share one
condition. For the drain task of the command line program this needs more
workers than drain tasks, since `source()` never awaits and the drain loop never
yields; with fewer, timers and sessions starve, which
is the subject of `Runtime`: there nothing is assumed of the workers but that a free one
takes what is queued, or turns the I/O driver. `AnswersUnlessStarved` and `EndsUnlessHeld` name what
may still keep a host or the program: a run that failed over SSH without `End`, one whose
other side is silent, and workers that are taken. The drain task of the controller
awaits the mutex, by which tokio makes it yield. tokio's mutex is granted in order,
hence fairness of `AppendLogs`. Over SSH the executor is fair: the host answers or
the session is lost, which the code's `connection_timeout` brings about. Nothing is
assumed of child processes, of the world in `Bootstrap` (starts, crashes, removals, edits
and agents being started), of the end of a future in `FanOut` and `Controller`, of
panics, of lost sessions or of failing requests.

## 4. The proofs

TLAPS proves, for every plan, capacity, status set and host file:

* `LogChannelProofs`: what each step of the channel does to its type and to `Fifo`,
  and that a channel in which `End` was sunk once stays closed (`ClosedAtEndStep`).
* `SshApplyProofs`: `TypeCorrect`, `LogIsFifo`, `NothingAfterEnd`, `RunsInOrder`,
  `EnsuresGuardTasks`, `OkIsComplete`, and `Refinement` (`Spec` implements
  `HostRun`), all from `Invariance`. None of the properties is inductive by itself:
  that a command is given in order needs to know what was given last
  (`History`), that a task's ensures passed needs what the ones answered so far mean
  for `failed` (`Answered`), that `End` is last needs that nobody has sunk it before
  the places that do (`Closing`). `IInv` is their conjunction with `Position`, the
  place in the plan each `pc` implies. `Invariance` has a lemma for each action and
  in it a step for each conjunct the action can disturb. `HangIsFinal` is about the
  finding on reports: a run that failed without closing its log, once its lines were
  shown, is in a state no step changes but the loss of its session (`StalledStep`), so
  the run `ssh_apply_failure_is_reported` does not owe its violation to a small plan.
* `LocalApplyProofs`: `LocalTypeCorrect`, `EnsuresGuardSpawns`, `OrphansHaveNoOutput`,
  `OkMeansShown` and `LocalRefinement`, whatever the children do. As above,
  `Position`, `Spawned` and `Answered` tie the place of the executor to what it has
  spawned and asked. That an orphan has no output left takes two facts more: only a
  task that was spawned has a child (`Children`), and the loop is left with the child
  alive only when both pipes were read to their end (`LeftAtEof`); writing and closing
  are the child's steps, so a pipe at its end stays there. `OkMeansShown` rests on
  `Logged`, a count: while the drain task has not stopped early, the output sunk and
  the chunk in hand are together as many as the chunks read. `emit` ignores the error
  of its sink, but meets one only when the drain task is gone without `End`, and then
  `Ok` is not returned.
* `FanOutProofs`: `FanOutTypeCorrect`, `RefusalTouchesNoHost`, `FuturesAreMentions`,
  `ValidatedIsAccepted`, `TasksReachTheirHosts`, from `FanOutInvariance`. The
  strengthening is about `Visited`, the mentions whose turn has come: the futures
  made are those of the visited mentions with tasks. `VisitsHere` (a step visits one
  mention) and `NextGroupInv` (no mention is passed over when a group is left) carry
  the argument.
* `RuntimeProofs`: `RuntimeTypeCorrect`, `LogsAreShown`, `StarvationIsFinal`, for any
  number of hosts and workers, with panics. The invariant adds to the type how the drain task, the
  run and the report of a host go together (`Together`) and what has happened when
  `main()` returns (`Leaving`). That only panics end starvation rests on counting: the waiting
  runs are a subset of the running drain tasks, of which there are no more than workers,
  so when they are as many, they are the same.
* `BootstrapProofs`: `BootstrapTypeCorrect`, `OneKeyForAll`, `PrintedTokenIsKnown`,
  `NoLineTwice`, `LostKeysAreFinal`, for any number of agents, starts, removals and
  edits. `FileInv` is the strengthening that matters: a file that was never removed is
  created by `main()`, once, and has at most one write on its way, so that no request
  finds it absent; `MainInv` orders the two files; `KeyInv` and `TokenInv` say that
  what was told and printed is what the file holds or will hold; `LineInv` that only a
  file its owner saved ends without a newline. That a lost key is final needs one fact
  more: the handler calls nothing while the controller is down
  (`HandledWhileServing`), so that an empty key file is read by `main()` alone, which
  then ends (`Stuck`); removals only grow in number, so the file the theorem speaks of
  is the same throughout.
* `ControllerProofs`: `ControllerTypeCorrect`, `JobsGrow`, `PrintsInOrder` and
  `CompletedMeansComplete`, for any number of jobs, runs and messages and every size
  of the cache. A status stays because nothing writes one before the job's own task
  does, and that task does it once (`Undecided`); a job does not come back because it
  is inserted only by the handler that spawns its task (`Asked`). Each writer is shown
  to change one job only (`InsertEffect`, `UpdateEffect`), which is where the copies
  would be lost if the lock were let go. What programs print rests on a second
  invariant, `LogInv`. `Chain`: what is printed begins every answer on its way, which
  begins the log of the job, so that the answer's lines from `offset` on are the ones
  not printed yet. `JobLogs`: that log has, in order, the messages the drain tasks are
  done with (`Gone`), and no other. `Finished`: where the status `Completed` is, all
  runs of the job have returned, and an answer that says so has all their messages;
  `RunsInStep` ties the return of a run to the end of its drain task. An evicted job
  leaves `Chain` no log to speak of, so the bound for answers and prints is what was
  taken from the channel (`HeldLogs`).
* `ProvisionProofs`: `ProvisionTypeCorrect`, `PlansAreWhole` and `ReadyIsEnsured`, for
  every task set, tree of paths, shell and machine. The plan is tied to the set by
  `Visited` (what is planned is what the tasks visited so far compile to), and the
  machine to the plan by `Seen`: as long as no ensure of the current task has failed,
  what the ensures of existence promise that were looked at since the last disturbance is
  so still. That the visitor makes ensures of existence only is a fact about what it
  compiles (`CompiledIsPlanned`), and an ensure of existence that passed was answered by
  the machine, for no answer fails it (`PassIsTruth`).

The assumptions are the named ones of the modules: `CapacityAssumption` of the channel;
`PlanAssumption`, `StatusAssumption`, `FramesAssumption` and `ChunksAssumption` of the
executors; `FilesAssumption` and `PlansAssumption`; `RunsAssumption`, `HostAssumption`
and `BoundAssumption` of the jobs; `TasksAssumption` and `PostedAssumption` of planning,
while the proofs ask nothing of what a shell makes of a word (`ShellAssumption` is for
the runs); `HostsAssumption`, `NamesAssumption` and
`BoundsAssumption`. TLC evaluates them all.

`Fifo`, `EndIsFinal`, `EveryMentionIsDriven` and the inductive invariants are left to
the proofs, which hold for every instance; no run repeats them.

Every invariant and action property of the passing runs is stated by a theorem. To make
that possible, what is in a log or a command is stated by sets of positions and their
cardinalities (`Shown`, `Outputs`) instead of folds, whose values for every
input need induction over data, which the installed provers cannot do.

Only model-checked are the liveness properties, which rest on fairness and so on
`ENABLED`, beyond the prover: `ReportedOrHung`, `ReportedUnlessPipeHeld`,
`EndedIsReported`, `PollingEnds`, `LogIsStreamed`, `AuthorizedEventually`,
`AnswersUnlessStarved` and `EndsUnlessHeld`. `OnlyPanicsEndStarvation`,
`LostKeyIsFinal` and `HangIsFinal`, which say what a state can never leave, or only how,
need no fairness and are proved.

## 5. What is not modelled

* A `try_wait` that fails and read errors of a pipe: the loop treats the first as an
  exit and drops the second.
* Frames that arrive after `ExitStatus`: the channel is dropped with them.
* The denominators of the report lines: they are the length of the whole plan, also for
  a host that is given only a part of it.
* Errors of the file system in `keys.rs` other than a lost write, a missing home
  directory or `authorized_keys` on the agent's host: each ends the program at once.
* Which of two requests wins when an operator removes a file and both find it absent:
  the proofs of `Bootstrap` are about files nobody removed, and its run has one agent.
* The controller's `do_apply` as a caller of `get_or_create_executor_keypair`
  (`executor.rs` 147): it asks for the key as a request does and tells it to no agent.
* That the agent appends a refusal of the controller to `authorized_keys`: the properties
  of `Bootstrap` are about keys. `PrintedTokenHolds` accepts a token file that a lost
  write has left blank, for ever.
* Panics of `println!` in the main thread in any module but `Runtime`.
* What a command does, and what a shell makes of its words.
* The workers of the controller's runtime: its drain tasks await the mutex, so they
  yield, and `Controller` assumes they are polled. `Runtime` is about the program.
* The text of messages, counts and timings; command line parsing; logging set-up; the
  listing of the controller's addresses; type definitions.

## 6. Plan

1. Done: every component with state is modelled, and each module about one has its
   theorems.
2. Left for larger instances of TLC, which take longer than a few minutes each: two jobs
   with runs of their own in `Controller`, two agents in `Bootstrap`, a third task in
   `SshApply` and `LocalApply`. For the invariants listed above the proofs cover these.
3. Left to TLC: the liveness properties named at the end of section 4.
