------------------------------ MODULE SshApply ------------------------------
(***************************************************************************)
(* One application of a host's plan over SSH: do_apply with the            *)
(* SshExecutor it drives, its log channel and its drain task, and the      *)
(* report its caller prints.  The command line program and the controller  *)
(* run the same steps (there-cli/src/commands/plan.rs and                  *)
(* there-controller/src/executor.rs).                                      *)
(*                                                                         *)
(* The executor awaits at every log message and at every exchange with the *)
(* remote host, so each of these is a step of its own; the drain task and  *)
(* the loss of the SSH session interleave with them.                       *)
(***************************************************************************)
EXTENDS LogChannel

CONSTANTS
  Ensures,     \* the host's plan: for each task, the sequence of its ensures
  ExitStatus,  \* the exit statuses a remote command may report
  MaxFrames    \* bound on the output frames of one remote command

\* The variants of enum Ensure.
EnsureKind == {"FileExists", "DirectoryExists", "FileDoesntExist",
               "DirectoryDoesntExist", "ExeExists"}

\* execute_command returns 511 when the channel closes without an exit status.
NoStatus == 511

\* The caller skips a host whose plan has no task.
ASSUME PlanAssumption == Ensures \in Seq(Seq(EnsureKind)) /\ Ensures # <<>>
ASSUME StatusAssumption == ExitStatus \subseteq Nat /\ 0 \in ExitStatus
ASSUME FramesAssumption == MaxFrames \in Nat

VARIABLES
  pc,         \* where the executor is; "ok" and "err" are its Result
  task,       \* index of the current task in the blueprint
  step,       \* index of its current ensure, or one past the last: its command
  failed,     \* failed_ensures is not empty
  completed,  \* tasks_completed
  frames,     \* output frames of the current command so far
  session,    \* the SSH session: "none", "up", "down"
  outcome,    \* what do_apply returned
  report,     \* what the caller's result loop printed
  ran,        \* history: <<task, step>> of every command the host was given
  codes       \* history: what execute_command returned for each of them

execVars == <<pc, task, step, failed, completed, frames, session, ran, codes>>
applyVars == <<outcome, report>>
vars == <<chanVars, execVars, applyVars>>

NumTasks == Len(Ensures)
IsCheck(t, s) == s <= Len(Ensures[t])

ExecPc == {"setup", "begin", "connect", "auth", "refused", "refusedEnd",
           "task", "ensure", "open", "wait", "blank", "end", "ok", "err"}

TypeOK ==
  /\ ChannelTypeOK
  /\ pc \in ExecPc
  /\ task \in 1..(NumTasks + 1)
  /\ step \in Nat \ {0}
  /\ failed \in BOOLEAN
  /\ completed \in 0..NumTasks
  /\ frames \in 0..MaxFrames
  /\ session \in {"none", "up", "down"}
  /\ outcome \in {"none", "ok", "PlanApplyFailed", "error"}
  /\ report \in {"none", "completed", "failed", "message"}
  /\ ran \in Seq((1..NumTasks) \X (Nat \ {0}))
  /\ codes \in Seq(ExitStatus \cup {NoStatus})

Init ==
  /\ ChannelInit
  /\ pc = "setup"
  /\ task = 1
  /\ step = 1
  /\ failed = FALSE
  /\ completed = 0
  /\ frames = 0
  /\ session = "none"
  /\ outcome = "none"
  /\ report = "none"
  /\ ran = <<>>
  /\ codes = <<>>

-----------------------------------------------------------------------------
(***************************************************************************)
(* Steps of the executor.  An error at any `?` makes execute() return Err  *)
(* at once.                                                                *)
(***************************************************************************)
Fail ==
  /\ pc' = "err"
  /\ UNCHANGED <<task, step, failed, completed, frames, session, ran, codes,
                 applyVars>>

Goto(from, to) ==
  /\ pc = from
  /\ pc' = to
  /\ UNCHANGED applyVars

\* Sink m at `from` and go on at `to`, or return the error of the sink.
SinkAt(from, m, to) ==
  \/ /\ Goto(from, to)
     /\ Sink(m)
     /\ UNCHANGED <<task, step, failed, completed, frames, session, ran, codes>>
  \/ /\ pc = from
     /\ SinkFails
     /\ Fail

Begin == SinkAt("begin", "steps", "connect")

\* thrussh::client::connect
Connect ==
  /\ Goto("connect", "auth")
  /\ session' = "up"
  /\ UNCHANGED <<chanVars, task, step, failed, completed, frames, ran, codes>>

\* authenticate_publickey answered true or false; its error is in RemoteError.
Authenticate ==
  /\ \E accepted \in BOOLEAN :
       Goto("auth", IF accepted THEN "task" ELSE "refused")
  /\ UNCHANGED <<chanVars, task, step, failed, completed, frames, session, ran,
                 codes>>

Refused == SinkAt("refused", "refused", "refusedEnd")

RefusedEnd ==
  \/ /\ Goto("refusedEnd", "err")
     /\ Sink(End)
     /\ UNCHANGED <<task, step, failed, completed, frames, session, ran, codes>>
  \/ /\ pc = "refusedEnd"
     /\ SinkFails
     /\ Fail

\* The head of the loop over the blueprint.
NextTask ==
  \/ task <= NumTasks /\ SinkAt("task", "executing", "ensure")
  \/ task > NumTasks /\ SinkAt("task", "finished", "end")

\* Mutant: the failed ensures are logged by nobody and stop nothing.
NextEnsureForgiving ==
  /\ pc = "ensure"
  /\ \/ IsCheck(task, step) /\ SinkAt("ensure", "ensuring", "open")
     \/ ~IsCheck(task, step) /\ SinkAt("ensure", "command", "open")

\* The head of the loop over the ensures of the task, and the test after it.
NextEnsure ==
  /\ pc = "ensure"
  /\ \/ IsCheck(task, step) /\ SinkAt("ensure", "ensuring", "open")
     \/ ~IsCheck(task, step) /\ ~failed /\ SinkAt("ensure", "command", "open")
     \/ ~IsCheck(task, step) /\ failed /\ SinkAt("ensure", "ensuresFailed", "err")

\* channel_open_session and exec: the host starts the command.
OpenChannel ==
  /\ session = "up"
  /\ Goto("open", "wait")
  /\ ran' = Append(ran, <<task, step>>)
  /\ UNCHANGED <<chanVars, task, step, failed, completed, frames, session,
                 codes>>

\* A Data or ExtendedData frame.
Output ==
  /\ frames < MaxFrames
  /\ \/ /\ Goto("wait", "wait")
        /\ Sink("output")
        /\ frames' = frames + 1
        /\ UNCHANGED <<task, step, failed, completed, session, ran, codes>>
     \/ /\ pc = "wait"
        /\ SinkFails
        /\ Fail

\* The match of ensure_task on the status of an ensure's command.
Passes(kind, status) ==
  IF kind \in {"FileDoesntExist", "DirectoryDoesntExist"}
  THEN status # 0
  ELSE status = 0

\* execute_command returns: at an ExitStatus frame, or with NoStatus when the
\* channel is closed.  The status of an ensure decides; a task's is ignored.
CommandReturns(status) ==
  /\ pc = "wait"
  /\ codes' = Append(codes, status)
  /\ frames' = 0
  /\ \/ /\ IsCheck(task, step)
        /\ Goto("wait", "ensure")
        /\ step' = step + 1
        /\ failed' = (failed \/ ~Passes(Ensures[task][step], status))
     \/ /\ ~IsCheck(task, step)
        /\ Goto("wait", "blank")
        /\ UNCHANGED <<step, failed>>
  /\ UNCHANGED <<chanVars, task, completed, session, ran>>

\* Mutant: the next task begins where the last one stopped.
TaskDoneKeepsStep ==
  \/ /\ Goto("blank", "task")
     /\ Sink("blank")
     /\ task' = task + 1
     /\ completed' = completed + 1
     /\ UNCHANGED <<step, failed, frames, session, ran, codes>>
  \/ /\ pc = "blank"
     /\ SinkFails
     /\ Fail

\* The blank line after a task, and the count of the tasks completed.
TaskDone ==
  \/ /\ Goto("blank", "task")
     /\ Sink("blank")
     /\ task' = task + 1
     /\ step' = 1
     /\ completed' = completed + 1
     /\ UNCHANGED <<failed, frames, session, ran, codes>>
  \/ /\ pc = "blank"
     /\ SinkFails
     /\ Fail

\* Mutant: execute() returns without closing the log.
FinishSilently ==
  /\ Goto("end", "ok")
  /\ UNCHANGED <<chanVars, task, step, failed, completed, frames, session, ran,
                 codes>>

Finish == SinkAt("end", End, "ok")

\* An `?` other than a sink's: connect, authenticate_publickey,
\* channel_open_session, exec, or String::from_utf8 of a frame.
RemoteError ==
  /\ pc \in {"connect", "auth", "open", "wait"}
  /\ Fail
  /\ UNCHANGED chanVars

\* The session ends under the executor: the peer closes it, or nothing arrives
\* for connection_timeout.
SessionLost ==
  /\ session = "up"
  /\ session' = "down"
  /\ UNCHANGED <<chanVars, pc, task, step, failed, completed, frames, ran,
                 codes, applyVars>>

Executor ==
  \/ Begin \/ Connect \/ Authenticate \/ Refused \/ RefusedEnd
  \/ NextTask \/ NextEnsure \/ OpenChannel \/ Output
  \/ \E status \in ExitStatus \cup {NoStatus} : CommandReturns(status)
  \/ TaskDone \/ Finish \/ RemoteError

-----------------------------------------------------------------------------
(***************************************************************************)
(* do_apply around the executor, and the loop of its caller.               *)
(***************************************************************************)
\* The drain task is spawned; the key is read and the executor created, or
\* do_apply returns the error and drops the sender without joining the drain.
Setup ==
  /\ pc = "setup"
  /\ \/ pc' = "begin" /\ UNCHANGED <<chanVars, outcome>>
     \/ pc' = "err" /\ DropSender /\ outcome' = "error"
  /\ UNCHANGED <<task, step, failed, completed, frames, session, ran, codes,
                 report>>

\* Mutant: do_apply returns what the executor did without joining the drain task.
JoinAtOnce ==
  /\ pc \in {"ok", "err"}
  /\ outcome = "none"
  /\ outcome' = IF pc = "ok" THEN "ok" ELSE "error"
  /\ DropSender
  /\ UNCHANGED <<execVars, report>>

\* Mutant: the JoinError of a drain task that panicked is ignored.
JoinIgnoresPanic ==
  /\ pc \in {"ok", "err"}
  /\ outcome = "none"
  /\ drain # "running"
  /\ outcome' = IF pc = "ok" THEN "ok" ELSE "error"
  /\ DropSender
  /\ UNCHANGED <<execVars, report>>

\* join_handle.await and the match on what it joined.  A PlanApplyFailed is
\* rewrapped as a plain message here.  The sender is dropped on return.
Join ==
  /\ pc \in {"ok", "err"}
  /\ outcome = "none"
  /\ drain # "running"
  /\ outcome' = IF drain # "panicked" /\ pc = "ok" THEN "ok" ELSE "error"
  /\ DropSender
  /\ UNCHANGED <<execVars, report>>

\* One turn of the loop over the finished futures.
Report ==
  /\ outcome # "none"
  /\ report = "none"
  /\ report' = CASE outcome = "ok" -> "completed"
                 [] outcome = "PlanApplyFailed" -> "failed"
                 [] outcome = "error" -> "message"
  /\ UNCHANGED <<chanVars, execVars, outcome>>

\* The run is over; nothing is left to do.
Terminated ==
  /\ report # "none"
  /\ drain # "running"
  /\ UNCHANGED vars

Next ==
  \/ Setup \/ Executor \/ SessionLost
  \/ (Drain \/ DrainPanics) /\ UNCHANGED <<execVars, applyVars>>
  \/ Join \/ Report
  \/ Terminated

Spec == Init /\ [][Next]_vars

(***************************************************************************)
(* The runtime keeps polling the main task, in which the executor, the     *)
(* join and the report loop run, and the drain task: this is so as long as *)
(* it has more workers than drain tasks, which poll without ever yielding. *)
(* The remote host answers or the connection times out.  Panics and lost   *)
(* sessions are not assumed to happen.                                     *)
(***************************************************************************)
Fairness ==
  /\ WF_vars(Setup \/ Executor)
  /\ WF_vars(Drain /\ UNCHANGED <<execVars, applyVars>>)
  /\ WF_vars(Join)
  /\ WF_vars(Report)

FairSpec == Spec /\ Fairness

-----------------------------------------------------------------------------
(***************************************************************************)
(* Safety.                                                                 *)
(***************************************************************************)
HasEnd == \E i \in 1..Len(sunk) : sunk[i] = End

\* End closes the stream: no executor path sinks anything after it, so no line
\* can be left in the channel when the drain task leaves its loop.
EndIsFinal ==
  \A i \in 1..Len(sunk) : sunk[i] = End => i = Len(sunk)

\* When do_apply returns Ok, every message of the executor has been drained, the
\* last one is End, and the host was given the whole plan up to the last command.
OkMeansAllShown ==
  outcome = "ok" =>
    /\ received = sunk
    /\ received[Len(received)] = End
    /\ completed = NumTasks
    /\ Len(codes) = Len(ran)
    /\ ran[Len(ran)] = <<NumTasks, Len(Ensures[NumTasks]) + 1>>

\* The command that follows c when nothing fails.
After(c) ==
  IF IsCheck(c[1], c[2]) THEN <<c[1], c[2] + 1>> ELSE <<c[1] + 1, 1>>

\* The host is given the commands of the plan in the order of the blueprint, the
\* ensures of a task before the task, none skipped and none repeated.
RanInOrder ==
  \A i \in 1..Len(ran) : ran[i] = IF i = 1 THEN <<1, 1>> ELSE After(ran[i - 1])

Existence == {"FileExists", "DirectoryExists", "ExeExists"}

\* What came back of its command, c, is no reason to refuse an ensure of kind k.
\* That an ensure of absence asks for no answer at all, NoStatus being one that is
\* not zero, is what the code does; Provision shows that it breaks the promise.
Admits(k, c) == IF k \in Existence THEN c = 0 ELSE c # 0

\* A task's command reaches the host only after each of its ensures was put to
\* the host, earlier in the same run, and did not fail: an ensure of existence was
\* answered with status zero; one of absence was not answered with status zero,
\* be it by another status or by a channel that closed without one.
EnsuredBeforeRun ==
  \A i \in 1..Len(ran) :
    ~IsCheck(ran[i][1], ran[i][2]) =>
      \A e \in 1..Len(Ensures[ran[i][1]]) :
        \E j \in 1..(i - 1) :
          /\ ran[j] = <<ran[i][1], e>>
          /\ Admits(Ensures[ran[i][1]][e], codes[j])

-----------------------------------------------------------------------------
(***************************************************************************)
(* The inductive invariant behind the safety properties.                   *)
(***************************************************************************)
\* The position in the blueprint that each place of the executor implies.
Position ==
  /\ task = completed + 1
  /\ pc \in {"setup", "begin", "connect", "auth", "refused", "refusedEnd",
             "task", "end", "ok"} => step = 1
  /\ pc \in {"ensure", "open", "wait", "blank"} =>
       task <= NumTasks /\ step <= Len(Ensures[task]) + 1
  /\ pc = "blank" => ~IsCheck(task, step)
  /\ pc \in {"end", "ok"} => task = NumTasks + 1

\* The command the host is to be given next.
Upcoming == IF ran = <<>> THEN <<1, 1>> ELSE After(ran[Len(ran)])

\* How the commands given to the host relate to the executor's position.
History ==
  /\ \A i \in 1..Len(ran) : ran[i][2] <= Len(Ensures[ran[i][1]]) + 1
  /\ Len(codes) <= Len(ran) /\ Len(ran) <= Len(codes) + 1
  /\ pc = "wait" => Len(ran) = Len(codes) + 1
  /\ pc \notin {"wait", "err"} => Len(ran) = Len(codes)
  /\ pc \in {"wait", "blank"} => ran # <<>> /\ ran[Len(ran)] = <<task, step>>
  /\ pc \notin {"wait", "blank", "err"} => Upcoming = <<task, step>>

\* What is settled about the ensures of the current task.
Answered ==
  /\ pc \in {"ensure", "open", "wait"} /\ ~failed =>
       \A e \in 1..(step - 1) :
         \E j \in 1..Len(codes) :
           ran[j] = <<task, e>> /\ Admits(Ensures[task][e], codes[j])
  /\ pc \in {"open", "wait"} /\ ~IsCheck(task, step) => ~failed

\* Where End can be, and who still holds the channel.
Closing ==
  /\ pc \notin {"ok", "err"} => ~HasEnd
  /\ pc = "ok" => sunk # <<>> /\ sunk[Len(sunk)] = End
  /\ drain = "ended" <=> received # <<>> /\ received[Len(received)] = End
  /\ txAlive <=> outcome = "none"
  /\ drain = "lost" => ~txAlive
  /\ outcome # "none" => pc \in {"ok", "err"}
  /\ outcome = "ok" => pc = "ok" /\ drain = "ended"

\* Together with the properties they imply these are kept by every step.
IInv ==
  /\ TypeOK
  /\ Fifo
  /\ Position
  /\ History
  /\ RanInOrder
  /\ Answered
  /\ EnsuredBeforeRun
  /\ Closing
  /\ EndIsFinal

-----------------------------------------------------------------------------
(***************************************************************************)
(* Refinement.                                                             *)
(***************************************************************************)
Promise == INSTANCE HostRun WITH shown <- received, verdict <- outcome

\* do_apply keeps the promise of HostRun: the log shown only grows and is closed
\* by End, and Ok is returned once and only after the closed log was shown.
ImplementsHostRun == Promise!Spec

-----------------------------------------------------------------------------
(***************************************************************************)
(* Liveness.                                                               *)
(***************************************************************************)
\* The executor failed without sinking End, and do_apply awaits a drain task
\* that waits for the sender do_apply holds.
Hung ==
  /\ pc = "err"
  /\ outcome = "none"
  /\ drain = "running"
  /\ ~HasEnd

\* The caller hears of every run, except of one that is hung for ever.
ReportedOrHung == <>(report # "none") \/ <>[]Hung

-----------------------------------------------------------------------------
(***************************************************************************)
(* What the repository says of these runs, and the code does not do.       *)
(***************************************************************************)
\* The transcript of README.md: a host that fails is reported, as are the others.
FailureIsReported == pc = "err" ~> report # "none"

\* The doc comment of do_apply, "Returns how many tasks passed": the count it
\* returns is that of the tasks whose command succeeded.
CountIsTasksPassed ==
  outcome = "ok" =>
    \A i \in 1..Len(ran) : ~IsCheck(ran[i][1], ran[i][2]) => codes[i] = 0
=============================================================================
