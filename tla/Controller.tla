----------------------------- MODULE Controller -----------------------------
(***************************************************************************)
(* The controller's jobs and the command line programs that wait for them. *)
(* A program posts a plan (run_plan of http_server.rs), polls the state of *)
(* its job (get_job_status) and prints what is new in it, until the job is *)
(* over (subcommand_apply of commands/plan.rs).  The task of a job drives  *)
(* a run for each mention of a host (apply_plan of executor.rs), and the   *)
(* drain task of a run appends what the executor logs to the job's state.  *)
(*                                                                         *)
(* The job states are in one cache under one mutex.  Nothing is awaited    *)
(* while it is held, so each critical section is one step; what a task     *)
(* carries from one section to the next is the hazard.  How the executor   *)
(* of a run comes to its end is the subject of SshApply, and which runs a  *)
(* job has that of FanOut.                                                 *)
(***************************************************************************)
EXTENDS Naturals, FiniteSets, SequencesExt

CONSTANTS
  Job,        \* the jobs, one for each program that asks
  Host,       \* the names of hosts, under which logs are kept
  RunsOf,     \* the runs of each job
  HostName,   \* the host of each run; two runs may share one
  MaxLines,   \* bound on the messages a run logs
  CacheSize   \* 1000 in the code

Run == UNION {RunsOf[j] : j \in Job}
JobOf(r) == CHOOSE j \in Job : r \in RunsOf[j]

ASSUME RunsAssumption ==
  /\ DOMAIN RunsOf = Job
  /\ \A i, j \in Job : i # j => RunsOf[i] \cap RunsOf[j] = {}
ASSUME HostAssumption == HostName \in [Run -> Host]
ASSUME BoundAssumption == MaxLines \in [Run -> Nat] /\ CacheSize \in Nat \ {0}

VARIABLES
  jobs,     \* the cache: the state of each job in it
  task,     \* where the task of each job is
  exec,     \* how far the executor of each run is
  sunk,     \* how many messages each run has logged
  taken,    \* how many of them its drain task took out of the channel
  drain,    \* what the drain task of each run does
  client,   \* where the program of each job is
  answer,   \* {s} while the program of a job holds the job state s
  offset,   \* log_offsets
  printed   \* what each program has printed, by host

runVars == <<exec, sunk, taken, drain>>
clientVars == <<client, answer, offset, printed>>
vars == <<jobs, task, runVars, clientVars>>

Line == {l \in Run \X Nat : l[2] \in 1..MaxLines[l[1]]}
Status == {"Running", "Completed", "Failed"}
JobState == [logs : [Host -> Seq(Line)], status : Status]

\* "ended": execute() returned and the log was closed; "stuck": it returned an
\* error and the log was not; "broken": do_apply left before there was an executor.
ExecState == {"none", "running", "ended", "stuck", "broken"}
Over == {"completed", "failed", "error"}

TypeOK ==
  /\ DOMAIN jobs \subseteq Job /\ Cardinality(DOMAIN jobs) <= CacheSize
  /\ \A j \in DOMAIN jobs : jobs[j] \in JobState
  /\ task \in [Job -> {"none", "spawned", "driving", "applied", "refused", "done"}]
  /\ exec \in [Run -> ExecState]
  /\ sunk \in [Run -> Nat] /\ \A r \in Run : sunk[r] <= MaxLines[r]
  /\ taken \in [Run -> Nat] /\ \A r \in Run : taken[r] <= sunk[r]
  /\ drain \in [Run -> {"none", "polling", "holding", "done"}]
  /\ client \in [Job -> {"idle", "polling", "printing"} \cup Over]
  /\ \A j \in Job : /\ answer[j] = {} <=> client[j] # "printing"
                    /\ \A s \in answer[j] : s \in JobState
  /\ offset \in [Job -> [Host -> Nat]]
  /\ printed \in [Job -> [Host -> Seq(Line)]]

Init ==
  /\ jobs = <<>>
  /\ task = [j \in Job |-> "none"]
  /\ exec = [r \in Run |-> "none"]
  /\ sunk = [r \in Run |-> 0]
  /\ taken = [r \in Run |-> 0]
  /\ drain = [r \in Run |-> "none"]
  /\ client = [j \in Job |-> "idle"]
  /\ answer = [j \in Job |-> {}]
  /\ offset = [j \in Job |-> [h \in Host |-> 0]]
  /\ printed = [j \in Job |-> [h \in Host |-> <<>>]]

-----------------------------------------------------------------------------
(***************************************************************************)
(* The cache.                                                              *)
(***************************************************************************)
\* An insertion under a new key: the cache, or the shard the key falls into, may
\* be full, and then another job goes.
Insert(j, state) ==
  \E evicted \in SUBSET DOMAIN jobs :
    /\ Cardinality(evicted) <= 1
    /\ Cardinality(DOMAIN jobs \ evicted) < CacheSize
    /\ jobs' = [i \in (DOMAIN jobs \ evicted) \cup {j} |->
                  IF i = j THEN state ELSE jobs[i]]

NewJob == [logs |-> [h \in Host |-> <<>>], status |-> "Running"]

\* Mutant: a job that is not in the cache is made anew.
UpdateOrInsert(j, state) ==
  IF j \in DOMAIN jobs THEN jobs' = [jobs EXCEPT ![j] = state] ELSE Insert(j, NewJob)

\* A copy is read, changed to `state` and inserted again under its key, all under
\* the lock; a job that is gone is not put back.
Update(j, state) ==
  IF j \in DOMAIN jobs THEN jobs' = [jobs EXCEPT ![j] = state] ELSE UNCHANGED jobs

-----------------------------------------------------------------------------
(***************************************************************************)
(* The handlers, and the task of a job.                                    *)
(***************************************************************************)
\* run_plan.  The task is spawned before the lock is let go.  The answer may be
\* lost; the job runs all the same.
RunPlan(j) ==
  /\ client[j] = "idle"
  /\ Insert(j, NewJob)
  /\ task' = [task EXCEPT ![j] = "spawned"]
  /\ \E heard \in {"polling", "error"} : client' = [client EXCEPT ![j] = heard]
  /\ UNCHANGED <<runVars, answer, offset, printed>>

\* apply_plan refuses the host file, or starts to drive the runs.
ApplyPlan(j) ==
  /\ task[j] = "spawned"
  /\ \E way \in {"refused", "driving"} : task' = [task EXCEPT ![j] = way]
  /\ UNCHANGED <<jobs, runVars, clientVars>>

\* Mutant: do_apply returns when its executor does.
ReturnedAtOnce(r) == exec[r] \in {"broken", "ended", "stuck"}

\* do_apply has returned: by the error before the executor, or having joined the
\* drain task.
Returned(r) ==
  \/ exec[r] = "broken"
  \/ exec[r] \in {"ended", "stuck"} /\ drain[r] = "done"

\* apply_plan is Ok when every run has returned, well or not.
Applied(j) ==
  /\ task[j] = "driving"
  /\ \A r \in RunsOf[j] : Returned(r)
  /\ task' = [task EXCEPT ![j] = "applied"]
  /\ UNCHANGED <<jobs, runVars, clientVars>>

\* Mutant: the error of apply_plan is logged and no more.
SetStatusIfOk(j) ==
  /\ task[j] \in {"applied", "refused"}
  /\ IF task[j] = "applied"
     THEN Update(j, [jobs[j] EXCEPT !.status = "Completed"])
     ELSE UNCHANGED jobs
  /\ task' = [task EXCEPT ![j] = "done"]
  /\ UNCHANGED <<runVars, clientVars>>

\* The match on the result of apply_plan.
SetStatus(j) ==
  /\ task[j] \in {"applied", "refused"}
  /\ Update(j, [jobs[j] EXCEPT !.status =
                  IF task[j] = "applied" THEN "Completed" ELSE "Failed"])
  /\ task' = [task EXCEPT ![j] = "done"]
  /\ UNCHANGED <<runVars, clientVars>>

-----------------------------------------------------------------------------
(***************************************************************************)
(* A run: do_apply with its executor and its drain task.                   *)
(***************************************************************************)
\* The first poll of do_apply spawns the drain task.  The key cannot be read, or
\* the executor begins.
StartRun(r) ==
  /\ task[JobOf(r)] = "driving"
  /\ exec[r] = "none"
  /\ drain' = [drain EXCEPT ![r] = "polling"]
  /\ \E way \in {"running", "broken"} : exec' = [exec EXCEPT ![r] = way]
  /\ UNCHANGED <<jobs, task, sunk, taken, clientVars>>

Sink(r) ==
  /\ exec[r] = "running"
  /\ sunk[r] < MaxLines[r]
  /\ sunk' = [sunk EXCEPT ![r] = @ + 1]
  /\ UNCHANGED <<jobs, task, exec, taken, drain, clientVars>>

\* execute() returns, with or without having closed the log.
ExecReturns(r) ==
  /\ exec[r] = "running"
  /\ \E way \in {"ended", "stuck"} : exec' = [exec EXCEPT ![r] = way]
  /\ UNCHANGED <<jobs, task, sunk, taken, drain, clientVars>>

\* Mutant: a message is taken that was not logged.
TakePastSunk(r) ==
  /\ drain[r] = "polling"
  /\ exec[r] = "running"
  /\ taken[r] < MaxLines[r]
  /\ taken' = [taken EXCEPT ![r] = @ + 1]
  /\ drain' = [drain EXCEPT ![r] = "holding"]
  /\ UNCHANGED <<jobs, task, exec, sunk, clientVars>>

\* source() answers the next message; the drain task goes for the lock.  An empty
\* poll appends nothing and is left out.
Take(r) ==
  /\ drain[r] = "polling"
  /\ taken[r] < sunk[r]
  /\ taken' = [taken EXCEPT ![r] = @ + 1]
  /\ drain' = [drain EXCEPT ![r] = "holding"]
  /\ UNCHANGED <<jobs, task, exec, sunk, clientVars>>

\* The message is appended under the host's name, or dropped with the job.
AppendLogs(r) ==
  /\ drain[r] = "holding"
  /\ Update(JobOf(r), [jobs[JobOf(r)] EXCEPT
       !.logs[HostName[r]] = Append(@, <<r, taken[r]>>)])
  /\ drain' = [drain EXCEPT ![r] = "polling"]
  /\ UNCHANGED <<task, exec, sunk, taken, clientVars>>

\* The drain task takes End, or finds that the sender is gone.
DrainEnds(r) ==
  /\ drain[r] = "polling"
  /\ taken[r] = sunk[r]
  /\ exec[r] \in {"ended", "broken"}
  /\ drain' = [drain EXCEPT ![r] = "done"]
  /\ UNCHANGED <<jobs, task, exec, sunk, taken, clientVars>>

-----------------------------------------------------------------------------
(***************************************************************************)
(* The program that waits for a job.                                       *)
(***************************************************************************)
\* get_job_status panics on a job that is not in the cache, and the request fails.
GetJobStatus(j) ==
  /\ client[j] = "polling"
  /\ IF j \in DOMAIN jobs
     THEN /\ answer' = [answer EXCEPT ![j] = {jobs[j]}]
          /\ client' = [client EXCEPT ![j] = "printing"]
     ELSE /\ client' = [client EXCEPT ![j] = "error"]
          /\ UNCHANGED answer
  /\ UNCHANGED <<jobs, task, runVars, offset, printed>>

\* The controller cannot be reached, or its answer is lost.
RequestFails(j) ==
  /\ client[j] = "polling"
  /\ client' = [client EXCEPT ![j] = "error"]
  /\ UNCHANGED <<jobs, task, runVars, answer, offset, printed>>

Verdict(status) ==
  CASE status = "Running" -> "polling"
    [] status = "Completed" -> "completed"
    [] status = "Failed" -> "failed"

\* Mutant: the last line printed is printed again with the new ones.
ShowFromOffset(j) ==
  \E s \in answer[j] :
    /\ client[j] = "printing"
    /\ printed' = [printed EXCEPT ![j] = [h \in Host |->
                     IF Len(s.logs[h]) <= offset[j][h] THEN @[h]
                     ELSE @[h] \o SubSeq(s.logs[h], Max({offset[j][h], 1}),
                                         Len(s.logs[h]))]]
    /\ offset' = [offset EXCEPT ![j] = [h \in Host |-> Max({@[h], Len(s.logs[h])})]]
    /\ answer' = [answer EXCEPT ![j] = {}]
    /\ client' = [client EXCEPT ![j] = Verdict(s.status)]
    /\ UNCHANGED <<jobs, task, runVars>>

\* Mutant: what is new is printed once the job is over.
ShowWhenOver(j) ==
  \E s \in answer[j] :
    /\ client[j] = "printing"
    /\ IF s.status = "Running"
       THEN UNCHANGED <<printed, offset>>
       ELSE /\ printed' = [printed EXCEPT ![j] = s.logs]
            /\ offset' = [offset EXCEPT ![j] = [h \in Host |-> Len(s.logs[h])]]
    /\ answer' = [answer EXCEPT ![j] = {}]
    /\ client' = [client EXCEPT ![j] = Verdict(s.status)]
    /\ UNCHANGED <<jobs, task, runVars>>

\* One turn of the polling loop: what lies beyond the offset of each host, then
\* the status of the same answer.
ShowNew(j) ==
  \E s \in answer[j] :
    /\ client[j] = "printing"
    /\ printed' = [printed EXCEPT ![j] = [h \in Host |->
                     @[h] \o SubSeq(s.logs[h], offset[j][h] + 1, Len(s.logs[h]))]]
    /\ offset' = [offset EXCEPT ![j] = [h \in Host |-> Max({@[h], Len(s.logs[h])})]]
    /\ answer' = [answer EXCEPT ![j] = {}]
    /\ client' = [client EXCEPT ![j] = Verdict(s.status)]
    /\ UNCHANGED <<jobs, task, runVars>>

-----------------------------------------------------------------------------
\* Every program is done, and nothing runs but runs that never end.
Terminated ==
  /\ \A j \in Job : client[j] \in Over
  /\ UNCHANGED vars

JobStep(j) ==
  \/ RunPlan(j) \/ ApplyPlan(j) \/ Applied(j) \/ SetStatus(j)
  \/ GetJobStatus(j) \/ RequestFails(j) \/ ShowNew(j)
RunStep(r) ==
  StartRun(r) \/ Sink(r) \/ ExecReturns(r) \/ Take(r) \/ AppendLogs(r) \/ DrainEnds(r)

Next ==
  \/ \E j \in Job : JobStep(j)
  \/ \E r \in Run : RunStep(r)
  \/ Terminated

Spec == Init /\ [][Next]_vars

(***************************************************************************)
(* The tasks of the controller and the program are polled when they can    *)
(* go on, and the mutex is granted in the order it was asked for, so a     *)
(* drain task gets it however often programs poll.  Nothing is assumed of  *)
(* the executors, nor that requests fail.                                  *)
(***************************************************************************)
Fairness ==
  /\ \A j \in Job : /\ WF_vars(ApplyPlan(j) \/ Applied(j) \/ SetStatus(j))
                    /\ WF_vars(GetJobStatus(j) \/ ShowNew(j))
  /\ \A r \in Run : WF_vars(StartRun(r) \/ DrainEnds(r) \/ Take(r) \/ AppendLogs(r))

FairSpec == Spec /\ Fairness

-----------------------------------------------------------------------------
(***************************************************************************)
(* Safety.                                                                 *)
(***************************************************************************)
\* The messages of run r among the first n lines of a log.
Shown(r, log, n) == {log[k][2] : k \in {m \in 1..n : log[m][1] = r}}
AllShown(r, log) == Shown(r, log, Len(log))

\* A message of r comes after all earlier ones of r, and after no other.
InOrder(r, log) ==
  \A i \in DOMAIN log : log[i][1] = r => Shown(r, log, i - 1) = 1..(log[i][2] - 1)

\* A program prints the messages of a run in the order they were logged, without
\* a gap and none twice, though another run may log under the same host's name
\* and the job may be evicted meanwhile.
PrintedInOrder ==
  \A j \in Job : \A r \in RunsOf[j] :
    LET log == printed[j][HostName[r]]
    IN  InOrder(r, log) /\ AllShown(r, log) \subseteq 1..taken[r]

\* A program that was told its plan is completed has printed every message of
\* every run, and every run has come to its end.
CompletedIsComplete ==
  \A j \in Job : client[j] = "completed" =>
    \A r \in RunsOf[j] :
      Returned(r) /\ AllShown(r, printed[j][HostName[r]]) = 1..sunk[r]

-----------------------------------------------------------------------------
(***************************************************************************)
(* What no step does to a job.                                             *)
(***************************************************************************)
\* While a job is in the cache its logs only grow and its last status stays; once
\* it has left the cache it does not come back.
JobsOnlyGrow ==
  [][\A j \in Job :
       /\ j \in DOMAIN jobs /\ j \in DOMAIN jobs' =>
            /\ \A h \in Host : IsPrefix(jobs[j].logs[h], jobs'[j].logs[h])
            /\ jobs[j].status # "Running" => jobs'[j].status = jobs[j].status
       /\ task[j] # "none" /\ j \notin DOMAIN jobs => j \notin DOMAIN jobs']_vars

-----------------------------------------------------------------------------
(***************************************************************************)
(* Liveness.                                                               *)
(***************************************************************************)
\* A program stops polling, unless a run of its job never returns.
PollingEnds ==
  \A j \in Job :
    \/ client[j] = "polling" ~> client[j] \in Over
    \/ <>[](\E r \in RunsOf[j] : exec[r] \in {"running", "stuck"})

\* Logs are streamed: every message that a run ever logs comes to be printed,
\* though that run, or another of its job, never ends, unless the program could
\* not reach its job.
LogIsStreamed ==
  \A r \in Run :
    <>[](\/ client[JobOf(r)] = "error"
         \/ AllShown(r, printed[JobOf(r)][HostName[r]]) = 1..sunk[r])
=============================================================================
