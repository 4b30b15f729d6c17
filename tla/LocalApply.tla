----------------------------- MODULE LocalApply -----------------------------
(***************************************************************************)
(* One application of a host's plan on this machine: the Local arm of      *)
(* do_apply (there-cli/src/commands/plan.rs) with the SimpleExecutor it    *)
(* drives (libthere/src/executor/simple.rs), the child processes that one  *)
(* spawns, its log channel and its drain task.                             *)
(*                                                                         *)
(* A child writes to its two pipes, closes them and exits when it likes,   *)
(* and may leave them to a process it started.  The executor looks whether *)
(* the child has exited, then waits for one chunk of either pipe, logs it, *)
(* and looks again.                                                        *)
(***************************************************************************)
EXTENDS LogChannel, FiniteSets

CONSTANTS
  Ensures,    \* the host's plan: for each task, the sequence of its ensures
  MaxChunks   \* bound on the chunks a child writes to one pipe

\* The variants of enum Ensure, and those the local executor looks at twice.
LookedAtTwice == {"FileExists", "DirectoryExists"}
EnsureKind == LookedAtTwice \cup {"FileDoesntExist", "DirectoryDoesntExist",
                                  "ExeExists"}

ASSUME PlanAssumption == Ensures \in Seq(Seq(EnsureKind)) /\ Ensures # <<>>
ASSUME ChunksAssumption == MaxChunks \in Nat

Pipe == {"stdout", "stderr"}
NumTasks == Len(Ensures)
Task == 1..NumTasks
IsCheck(t, s) == s <= Len(Ensures[t])

VARIABLES
  pc,         \* where the executor is; "ok" and "err" are its Result
  task,       \* index of the current task in the blueprint
  step,       \* index of its current ensure, or one past the last
  failed,     \* failed_ensures is not empty
  completed,  \* tasks_completed
  outcome,    \* what do_apply returned
  report,     \* what the caller's result loop printed
  spawned,    \* history: the tasks whose child was spawned, in order
  passed,     \* history: <<task, ensure>> of every check that passed
  alive,      \* the tasks whose child process runs
  open,       \* <<task, pipe>> of every pipe that somebody may write to
  written,    \* chunks the child put into each pipe
  read        \* chunks the executor took out of each pipe

execVars == <<pc, task, step, failed, completed, spawned, passed>>
childVars == <<alive, open, written, read>>
applyVars == <<outcome, report>>
vars == <<chanVars, execVars, childVars, applyVars>>

ExecPc == {"applying", "steps", "ensure", "check", "poll", "select", "emit",
           "blank", "end", "ok", "err"}

TypeOK ==
  /\ ChannelTypeOK
  /\ pc \in ExecPc
  /\ task \in 1..(NumTasks + 1)
  /\ step \in Nat \ {0}
  /\ failed \in BOOLEAN
  /\ completed \in 0..NumTasks
  /\ outcome \in {"none", "ok", "error"}
  /\ report \in {"none", "completed", "message"}
  /\ spawned \in Seq(Task)
  /\ passed \subseteq Task \X Nat
  /\ alive \subseteq Task
  /\ open \subseteq Task \X Pipe
  /\ written \in [Task \X Pipe -> 0..MaxChunks]
  /\ read \in [Task \X Pipe -> 0..MaxChunks]

Init ==
  /\ ChannelInit
  /\ pc = "applying"
  /\ task = 1
  /\ step = 1
  /\ failed = FALSE
  /\ completed = 0
  /\ outcome = "none"
  /\ report = "none"
  /\ spawned = <<>>
  /\ passed = {}
  /\ alive = {}
  /\ open = {}
  /\ written = [p \in Task \X Pipe |-> 0]
  /\ read = [p \in Task \X Pipe |-> 0]

-----------------------------------------------------------------------------
(***************************************************************************)
(* Steps of the executor.                                                  *)
(***************************************************************************)
Goto(from, to) ==
  /\ pc = from
  /\ pc' = to
  /\ UNCHANGED applyVars

\* Sink m at `from` and go on at `to`, or return the error of the sink.
SinkAt(from, m, to) ==
  /\ \/ Goto(from, to) /\ Sink(m)
     \/ Goto(from, "err") /\ SinkFails
  /\ UNCHANGED <<task, step, failed, completed, spawned, passed, childVars>>

Begin == SinkAt("applying", "applying", "steps")

Steps == SinkAt("steps", "steps", "ensure")

\* The head of the loop over the ensures of a task.  The line that names the
\* task is never sent: its future is dropped without being awaited.
NextEnsure ==
  /\ task <= NumTasks
  /\ IsCheck(task, step)
  /\ SinkAt("ensure", "ensuring", "check")

\* The answer is that of the file system, or of the search path, at this moment.
\* A path that vanishes between two looks at it is an error of execute().
Check ==
  /\ \/ /\ Goto("check", "ensure")
        /\ step' = step + 1
        /\ \/ passed' = passed \cup {<<task, step>>} /\ UNCHANGED failed
           \/ failed' = TRUE /\ UNCHANGED passed
     \/ /\ Goto("check", "err")
        /\ Ensures[task][step] \in LookedAtTwice
        /\ UNCHANGED <<step, failed, passed>>
  /\ UNCHANGED <<chanVars, task, completed, spawned, childVars>>

EnsuresFailed ==
  /\ task <= NumTasks
  /\ ~IsCheck(task, step)
  /\ failed
  /\ SinkAt("ensure", "ensuresFailed", "err")

\* Mutant: the test of failed_ensures is dropped.
SpawnAnyway ==
  /\ task <= NumTasks
  /\ ~IsCheck(task, step)
  /\ \/ /\ Goto("ensure", "poll")
        /\ spawned' = Append(spawned, task)
        /\ alive' = alive \cup {task}
        /\ open' = open \cup ({task} \X Pipe)
     \/ /\ Goto("ensure", "err")
        /\ UNCHANGED <<spawned, alive, open>>
  /\ UNCHANGED <<chanVars, task, step, failed, completed, passed, written, read>>

\* Command::spawn, with both pipes taken from the child.
Spawn ==
  /\ task <= NumTasks
  /\ ~IsCheck(task, step)
  /\ ~failed
  /\ \/ /\ Goto("ensure", "poll")
        /\ spawned' = Append(spawned, task)
        /\ alive' = alive \cup {task}
        /\ open' = open \cup ({task} \X Pipe)
     \/ /\ Goto("ensure", "err")
        /\ UNCHANGED <<spawned, alive, open>>
  /\ UNCHANGED <<chanVars, task, step, failed, completed, passed, written, read>>

\* child.try_wait(), the condition of the loop.
Poll ==
  /\ Goto("poll", IF task \in alive THEN "select" ELSE "blank")
  /\ UNCHANGED <<chanVars, task, step, failed, completed, spawned, passed,
                 childVars>>

AtEof(p) == <<task, p>> \notin open /\ read[<<task, p>>] = written[<<task, p>>]

\* Mutant: one chunk more is taken than was written.
ReadPastEnd ==
  /\ Goto("select", "emit")
  /\ \E p \in Pipe :
       /\ read[<<task, p>>] <= written[<<task, p>>]
       /\ read' = [read EXCEPT ![<<task, p>>] = @ + 1]
  /\ UNCHANGED <<chanVars, task, step, failed, completed, spawned, passed, alive,
                 open, written>>

\* One turn of select!: whichever pipe has a chunk.
ReadChunk ==
  /\ Goto("select", "emit")
  /\ \E p \in Pipe :
       /\ read[<<task, p>>] < written[<<task, p>>]
       /\ read' = [read EXCEPT ![<<task, p>>] = @ + 1]
  /\ UNCHANGED <<chanVars, task, step, failed, completed, spawned, passed, alive,
                 open, written>>

\* Mutant: the loop is left at the end of the first pipe.
PipeEnds ==
  /\ Goto("select", "blank")
  /\ \E p \in Pipe : AtEof(p)
  /\ UNCHANGED <<chanVars, task, step, failed, completed, spawned, passed,
                 childVars>>

\* Mutant: at the end of both pipes the loop waits for the child's exit.
PipesEndAfterExit ==
  /\ Goto("select", "blank")
  /\ \A p \in Pipe : AtEof(p)
  /\ task \notin alive
  /\ UNCHANGED <<chanVars, task, step, failed, completed, spawned, passed,
                 childVars>>

\* Its else branch: both pipes are at their end.
PipesEnd ==
  /\ Goto("select", "blank")
  /\ \A p \in Pipe : AtEof(p)
  /\ UNCHANGED <<chanVars, task, step, failed, completed, spawned, passed,
                 childVars>>

\* Mutant: try_send instead of send.
EmitIfRoom ==
  /\ Goto("emit", "poll")
  /\ \/ Sink("output")
     \/ Len(chan) = Capacity /\ UNCHANGED chanVars
     \/ SinkFails
  /\ UNCHANGED <<task, step, failed, completed, spawned, passed, childVars>>

\* The chunk is logged; an error of the sink is not returned.
Emit ==
  /\ Goto("emit", "poll")
  /\ Sink("output") \/ SinkFails
  /\ UNCHANGED <<task, step, failed, completed, spawned, passed, childVars>>

TaskDone ==
  /\ \/ /\ Goto("blank", "ensure")
        /\ Sink("blank")
        /\ task' = task + 1
        /\ step' = 1
        /\ completed' = completed + 1
     \/ /\ Goto("blank", "err")
        /\ SinkFails
        /\ UNCHANGED <<task, step, completed>>
  /\ UNCHANGED <<failed, spawned, passed, childVars>>

AllDone ==
  /\ task > NumTasks
  /\ SinkAt("ensure", "finished", "end")

Finish == SinkAt("end", End, "ok")

Executor ==
  \/ Begin \/ Steps \/ NextEnsure \/ Check \/ EnsuresFailed \/ Spawn
  \/ Poll \/ ReadChunk \/ PipesEnd \/ Emit \/ TaskDone \/ AllDone \/ Finish

-----------------------------------------------------------------------------
(***************************************************************************)
(* The children, and the processes that inherit their pipes.  The executor *)
(* drops its ends of the pipes when it leaves the task; what is written to *)
(* them later goes nowhere.                                                *)
(***************************************************************************)
ChildWrites(t, p) ==
  /\ <<t, p>> \in open
  /\ t = task
  /\ pc \in {"poll", "select", "emit", "blank"}
  /\ written[<<t, p>>] < MaxChunks
  /\ written' = [written EXCEPT ![<<t, p>>] = @ + 1]
  /\ UNCHANGED <<chanVars, execVars, applyVars, alive, open, read>>

ChildCloses(t, p) ==
  /\ <<t, p>> \in open
  /\ open' = open \ {<<t, p>>}
  /\ UNCHANGED <<chanVars, execVars, applyVars, alive, written, read>>

ChildExits(t) ==
  /\ t \in alive
  /\ alive' = alive \ {t}
  /\ \E inherited \in {{}, {t} \X Pipe} :
       open' = (open \ ({t} \X Pipe)) \cup (open \cap inherited)
  /\ UNCHANGED <<chanVars, execVars, applyVars, written, read>>

Child ==
  \E t \in Task :
    \/ ChildExits(t)
    \/ \E p \in Pipe : ChildWrites(t, p) \/ ChildCloses(t, p)

-----------------------------------------------------------------------------
(***************************************************************************)
(* do_apply around the executor, and the loop of its caller.               *)
(***************************************************************************)
\* An error leaves do_apply at once: the sender goes, and the drain task is left
\* to itself.
ReturnError ==
  /\ pc = "err"
  /\ outcome = "none"
  /\ outcome' = "error"
  /\ DropSender
  /\ UNCHANGED <<execVars, childVars, report>>

\* Mutant: the JoinError of a drain task that panicked is ignored.
JoinIgnoresPanic ==
  /\ pc = "ok"
  /\ outcome = "none"
  /\ drain # "running"
  /\ outcome' = "ok"
  /\ DropSender
  /\ UNCHANGED <<execVars, childVars, report>>

Join ==
  /\ pc = "ok"
  /\ outcome = "none"
  /\ drain # "running"
  /\ outcome' = IF drain # "panicked" THEN "ok" ELSE "error"
  /\ DropSender
  /\ UNCHANGED <<execVars, childVars, report>>

Report ==
  /\ outcome # "none"
  /\ report = "none"
  /\ report' = IF outcome = "ok" THEN "completed" ELSE "message"
  /\ UNCHANGED <<chanVars, execVars, childVars, outcome>>

\* The run is over; nothing is left to do.
Terminated ==
  /\ report # "none"
  /\ drain # "running"
  /\ UNCHANGED vars

Next ==
  \/ Executor
  \/ Child
  \/ (Drain \/ DrainPanics) /\ UNCHANGED <<execVars, childVars, applyVars>>
  \/ ReturnError \/ Join \/ Report
  \/ Terminated

Spec == Init /\ [][Next]_vars

(***************************************************************************)
(* The runtime keeps polling the main task and the drain task.  Nothing is *)
(* assumed of the children: a command may write nothing and run for ever.  *)
(***************************************************************************)
Fairness ==
  /\ WF_vars(Executor)
  /\ WF_vars(Drain /\ UNCHANGED <<execVars, childVars, applyVars>>)
  /\ WF_vars(ReturnError \/ Join)
  /\ WF_vars(Report)

FairSpec == Spec /\ Fairness

-----------------------------------------------------------------------------
(***************************************************************************)
(* Safety.                                                                 *)
(***************************************************************************)
\* A child is spawned only for the next task of the blueprint, once each of the
\* task's ensures has passed.
EnsuredBeforeSpawn ==
  \A i \in 1..Len(spawned) :
    /\ spawned[i] = i
    /\ \A e \in 1..Len(Ensures[i]) : <<i, e>> \in passed

\* A task is left behind while its child still runs only if the child had closed
\* both pipes, and then all of its output was taken out of them: the loop over
\* try_wait and select! loses output of a child that exits, of no other.
OrphansAreSilent ==
  \A t \in Task :
    t < task /\ t \in alive =>
      \A p \in Pipe : <<t, p>> \notin open /\ read[<<t, p>>] = written[<<t, p>>]

\* How many messages of a log are output, and the chunks that were read.
Outputs(log) == Cardinality({i \in DOMAIN log : log[i] = "output"})
ChunksRead == {c \in (Task \X Pipe) \X (1..MaxChunks) : c[2] <= read[c[1]]}

\* A run that returns Ok has shown as many chunks of output as the executor took
\* out of the pipes: emit never drops one while the log is open.
OkShowsWhatWasRead ==
  outcome = "ok" =>
    /\ received[Len(received)] = End
    /\ completed = NumTasks
    /\ Outputs(received) = Cardinality(ChunksRead)

-----------------------------------------------------------------------------
(***************************************************************************)
(* Refinement.                                                             *)
(***************************************************************************)
Promise == INSTANCE HostRun WITH shown <- received, verdict <- outcome

\* do_apply on this machine keeps the promise of HostRun, although a failed run
\* returns before its log has been shown.
ImplementsHostRun == Promise!Spec

-----------------------------------------------------------------------------
(***************************************************************************)
(* Liveness.                                                               *)
(***************************************************************************)
\* A run is reported unless it waits for ever for a pipe that somebody holds
\* open, be it the child or, once the child has exited, a process it started.
ReportedUnlessPipeHeld ==
  \/ <>(report # "none")
  \/ <>[](pc = "select" /\ \E p \in Pipe : <<task, p>> \in open)

-----------------------------------------------------------------------------
(***************************************************************************)
(* What the repository says of these runs, and the code does not do.       *)
(***************************************************************************)
\* test_simple_executor: what a task's command wrote is in the log of its run.
OutputIsShown ==
  outcome = "ok" => \A t \in Task : \A p \in Pipe : read[<<t, p>>] = written[<<t, p>>]
=============================================================================
