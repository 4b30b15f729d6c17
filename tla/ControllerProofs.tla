-------------------------- MODULE ControllerProofs --------------------------
(***************************************************************************)
(* Proofs about Controller, for any number of jobs, runs and messages and  *)
(* every size of the cache.                                                *)
(***************************************************************************)
EXTENDS Controller, FiniteSetTheorems, TLAPS

\* TypeOK by the parts that change together.
JobsOK ==
  /\ DOMAIN jobs \subseteq Job
  /\ IsFiniteSet(DOMAIN jobs) /\ Cardinality(DOMAIN jobs) <= CacheSize
  /\ \A j \in DOMAIN jobs : jobs[j] \in JobState

TaskOK == task \in [Job -> {"none", "spawned", "driving", "applied", "refused", "done"}]

RunsOK ==
  /\ exec \in [Run -> ExecState]
  /\ sunk \in [Run -> Nat] /\ \A r \in Run : sunk[r] <= MaxLines[r]
  /\ taken \in [Run -> Nat] /\ \A r \in Run : taken[r] <= sunk[r]
  /\ drain \in [Run -> {"none", "polling", "holding", "done"}]
  /\ \A r \in Run : drain[r] = "holding" => taken[r] # 0

ClientsOK ==
  /\ client \in [Job -> {"idle", "polling", "printing"} \cup Over]
  /\ \A j \in Job : /\ answer[j] = {} <=> client[j] # "printing"
                    /\ \A s \in answer[j] : s \in JobState
  /\ DOMAIN answer = Job
  /\ offset \in [Job -> [Host -> Nat]]
  /\ printed \in [Job -> [Host -> Seq(Line)]]

\* A job is in the cache only after it was asked for.
Asked ==
  \A j \in Job :
    /\ client[j] = "idle" => task[j] = "none"
    /\ task[j] = "none" => j \notin DOMAIN jobs

\* Nothing decides the status of a job before its task does.
Undecided == \A j \in DOMAIN jobs : task[j] # "done" => jobs[j].status = "Running"

IInv == JobsOK /\ TaskOK /\ RunsOK /\ ClientsOK /\ Asked /\ Undecided

-----------------------------------------------------------------------------
(***************************************************************************)
(* Runs and jobs.                                                          *)
(***************************************************************************)
\* A run has its job, and its lines are typed.
LEMMA RunFacts ==
  ASSUME NEW r \in Run
  PROVE  /\ JobOf(r) \in Job
         /\ HostName[r] \in Host
         /\ MaxLines[r] \in Nat
         /\ \A n \in 1..MaxLines[r] : <<r, n>> \in Line
<1>1. \E j \in Job : r \in RunsOf[j]
  BY DEF Run
<1>2. JobOf(r) \in Job
  BY <1>1 DEF JobOf
<1> QED
  BY <1>2, HostAssumption, BoundAssumption DEF Line

LEMMA NewJobTyped == NewJob \in JobState /\ NewJob.status = "Running"
<1>1. <<>> \in Seq(Line)
  OBVIOUS
<1> QED
  BY <1>1 DEF NewJob, JobState, Status

-----------------------------------------------------------------------------
(***************************************************************************)
(* What the operations on the cache do.                                    *)
(***************************************************************************)
\* An insertion keeps the bound, and what was not evicted.
LEMMA InsertEffect ==
  ASSUME JobsOK, NEW j \in Job, NEW state \in JobState, Insert(j, state)
  PROVE  /\ JobsOK'
         /\ j \in DOMAIN jobs' /\ jobs'[j] = state
         /\ DOMAIN jobs' \subseteq DOMAIN jobs \cup {j}
         /\ \A i \in DOMAIN jobs' : i # j => jobs'[i] = jobs[i]
<1>1. PICK evicted \in SUBSET DOMAIN jobs :
        /\ Cardinality(DOMAIN jobs \ evicted) < CacheSize
        /\ jobs' = [i \in (DOMAIN jobs \ evicted) \cup {j} |->
                      IF i = j THEN state ELSE jobs[i]]
  BY DEF Insert
<1> DEFINE kept == DOMAIN jobs \ evicted
<1>2. /\ DOMAIN jobs' = kept \cup {j} /\ jobs'[j] = state
      /\ \A i \in DOMAIN jobs' : i # j => jobs'[i] = jobs[i] /\ i \in DOMAIN jobs
  BY <1>1
<1>3. IsFiniteSet(kept) /\ Cardinality(kept) \in Nat
  BY FS_Subset, FS_CardinalityType DEF JobsOK
<1> HIDE DEF kept
<1>4. /\ IsFiniteSet(kept \cup {j})
      /\ Cardinality(kept \cup {j}) <= Cardinality(kept) + 1
      /\ Cardinality(kept \cup {j}) \in Nat
  BY <1>3, FS_AddElement, FS_CardinalityType
<1>5. Cardinality(DOMAIN jobs') <= CacheSize
  BY <1>1, <1>2, <1>3, <1>4, BoundAssumption DEF kept
<1>6. \A i \in DOMAIN jobs' : i \in Job /\ jobs'[i] \in JobState
  BY <1>2 DEF JobsOK, kept
<1> QED
  BY <1>2, <1>4, <1>5, <1>6 DEF JobsOK

\* An update touches one job, which must be there.
LEMMA UpdateEffect ==
  ASSUME JobsOK, NEW j \in Job, NEW state, Update(j, state),
         j \in DOMAIN jobs => state \in JobState
  PROVE  /\ JobsOK'
         /\ DOMAIN jobs' = DOMAIN jobs
         /\ j \in DOMAIN jobs => jobs'[j] = state
         /\ \A i \in DOMAIN jobs : i # j => jobs'[i] = jobs[i]
<1>1. /\ DOMAIN jobs' = DOMAIN jobs
      /\ j \in DOMAIN jobs => jobs'[j] = state
      /\ \A i \in DOMAIN jobs : i # j => jobs'[i] = jobs[i]
  BY DEF Update
<1>2. \A i \in DOMAIN jobs' : jobs'[i] \in JobState
  BY <1>1 DEF JobsOK
<1> QED
  BY <1>1, <1>2 DEF JobsOK

\* What SetStatus writes, and what AppendLogs does.
LEMMA StatusTyped ==
  ASSUME NEW s \in JobState, NEW status \in Status
  PROVE  /\ [s EXCEPT !.status = status] \in JobState
         /\ [s EXCEPT !.status = status].status = status
         /\ [s EXCEPT !.status = status].logs = s.logs
BY DEF JobState

LEMMA AppendTyped ==
  ASSUME NEW s \in JobState, NEW h \in Host, NEW line \in Line
  PROVE  LET after == [s EXCEPT !.logs[h] = Append(@, line)]
         IN  /\ after \in JobState
             /\ after.status = s.status
             /\ \A k \in Host : IsPrefix(s.logs[k], after.logs[k])
<1> DEFINE after == [s EXCEPT !.logs[h] = Append(@, line)]
           longer == Append(s.logs[h], line)
<1>1. s.logs \in [Host -> Seq(Line)] /\ s.status \in Status /\ s.logs[h] \in Seq(Line)
  BY DEF JobState
<1>2. longer \in Seq(Line)
  BY <1>1
<1>3. /\ after = [s EXCEPT !.logs = [s.logs EXCEPT ![h] = longer]]
      /\ s \in [logs : [Host -> Seq(Line)], status : Status]
  BY DEF JobState
<1>4. [s.logs EXCEPT ![h] = longer] \in [Host -> Seq(Line)]
  BY <1>1, <1>2
<1> HIDE DEF after, longer
<1>5. /\ after \in JobState /\ after.status = s.status
      /\ after.logs = [s.logs EXCEPT ![h] = longer]
  BY <1>3, <1>4 DEF JobState
<1>6. \A log \in Seq(Line) : IsPrefix(log, log)
  BY DEF IsPrefix
<1>7. IsPrefix(s.logs[h], longer)
  <2> DEFINE log == s.logs[h]
  <2>1. /\ Len(log) \in Nat /\ Len(longer) = Len(log) + 1
        /\ \A i \in 1..Len(log) : longer[i] = log[i]
    BY <1>1 DEF longer
  <2>2. SubSeq(log, 1, Len(log)) = [i \in 1..Len(log) |-> log[i]]
    BY <1>1
  <2>3. SubSeq(longer, 1, Len(log)) = [i \in 1..Len(log) |-> longer[i]]
    BY <1>2, <2>1
  <2>4. [i \in 1..Len(log) |-> log[i]] = [i \in 1..Len(log) |-> longer[i]]
    BY <2>1
  <2> HIDE DEF log, longer
  <2>5. IsPrefix(log, longer)
    BY <2>1, <2>2, <2>3, <2>4 DEF IsPrefix
  <2> QED
    BY <2>5 DEF log
<1>8. ASSUME NEW k \in Host PROVE IsPrefix(s.logs[k], after.logs[k])
  <2>1. CASE k = h
    BY <1>1, <1>5, <1>7, <2>1
  <2>2. CASE k # h
    <3>1. after.logs[k] = s.logs[k] /\ s.logs[k] \in Seq(Line)
      BY <1>1, <1>5, <2>2
    <3> QED
      BY <1>6, <3>1
  <2> QED
    BY <2>1, <2>2
<1> QED
  BY <1>5, <1>8 DEF after

-----------------------------------------------------------------------------
(***************************************************************************)
(* The invariant, and what no step does to a job.                          *)
(***************************************************************************)
Grows ==
  \A j \in Job :
    /\ j \in DOMAIN jobs /\ j \in DOMAIN jobs' =>
         /\ \A h \in Host : IsPrefix(jobs[j].logs[h], jobs'[j].logs[h])
         /\ jobs[j].status # "Running" => jobs'[j].status = jobs[j].status
    /\ task[j] # "none" /\ j \notin DOMAIN jobs => j \notin DOMAIN jobs'

LEMMA InitIInv == Init => IInv
<1> SUFFICES ASSUME Init PROVE IInv
  OBVIOUS
<1> USE DEF Init
<1>1. DOMAIN jobs = {}
  OBVIOUS
<1>2. JobsOK
  BY <1>1, FS_EmptySet, BoundAssumption DEF JobsOK
<1>3. TaskOK
  BY DEF TaskOK
<1>4. RunsOK
  <2>1. \A r \in Run : MaxLines[r] \in Nat
    BY BoundAssumption
  <2> QED
    BY <2>1 DEF RunsOK, ExecState
<1>5. ClientsOK
  <2>1. <<>> \in Seq(Line)
    OBVIOUS
  <2> QED
    BY <2>1 DEF ClientsOK
<1>6. Asked /\ Undecided
  BY <1>1 DEF Asked, Undecided
<1> QED
  BY <1>2, <1>3, <1>4, <1>5, <1>6 DEF IInv

\* A job of which nothing changes has grown.
LEMMA Unchanged ==
  ASSUME JobsOK, NEW j \in DOMAIN jobs, NEW h \in Host
  PROVE  IsPrefix(jobs[j].logs[h], jobs[j].logs[h])
<1>1. jobs[j].logs[h] \in Seq(Line)
  BY DEF JobsOK, JobState
<1> QED
  BY <1>1 DEF IsPrefix

LEMMA SameJobsGrow ==
  ASSUME JobsOK, UNCHANGED jobs
  PROVE  JobsOK' /\ Grows
BY Unchanged DEF JobsOK, Grows

LEMMA RunPlanKeeps ==
  ASSUME IInv, NEW j \in Job, RunPlan(j)
  PROVE  IInv' /\ Grows
<1>1. /\ JobsOK'
      /\ j \in DOMAIN jobs' /\ jobs'[j] = NewJob
      /\ DOMAIN jobs' \subseteq DOMAIN jobs \cup {j}
      /\ \A i \in DOMAIN jobs' : i # j => jobs'[i] = jobs[i]
  BY InsertEffect, NewJobTyped DEF IInv, RunPlan
<1>2. task[j] = "none" /\ j \notin DOMAIN jobs
  BY DEF IInv, Asked, RunPlan
<1>3. /\ task'[j] = "spawned" /\ \A i \in Job : i # j => task'[i] = task[i]
      /\ TaskOK'
  BY DEF IInv, TaskOK, RunPlan
<1>4. RunsOK'
  BY DEF IInv, RunsOK, RunPlan, runVars
<1>5. /\ ClientsOK' /\ client'[j] # "idle"
      /\ \A i \in Job : i # j => client'[i] = client[i]
  BY DEF IInv, ClientsOK, RunPlan, Over
<1>6. Asked'
  BY <1>1, <1>3, <1>5 DEF IInv, Asked
<1>7. Undecided'
  BY <1>1, <1>3, NewJobTyped DEF IInv, Undecided, JobsOK
<1>8. Grows
  BY <1>1, <1>2, Unchanged DEF IInv, Grows
<1> QED
  BY <1>1, <1>3, <1>4, <1>5, <1>6, <1>7, <1>8 DEF IInv

LEMMA TaskStepKeeps ==
  ASSUME IInv, NEW j \in Job, ApplyPlan(j) \/ Applied(j)
  PROVE  IInv' /\ Grows
<1>1. JobsOK' /\ Grows
  BY SameJobsGrow DEF IInv, ApplyPlan, Applied
<1>2. /\ TaskOK' /\ task[j] \notin {"none", "done"} /\ task'[j] \notin {"none", "done"}
      /\ \A i \in Job : i # j => task'[i] = task[i]
  BY DEF IInv, TaskOK, ApplyPlan, Applied
<1>3. RunsOK'
  BY DEF IInv, RunsOK, ApplyPlan, Applied, runVars
<1>4. ClientsOK'
  BY DEF IInv, ClientsOK, ApplyPlan, Applied, clientVars
<1>5. Asked' /\ Undecided'
  BY <1>2 DEF IInv, JobsOK, Asked, Undecided, ApplyPlan, Applied, clientVars
<1> QED
  BY <1>1, <1>2, <1>3, <1>4, <1>5 DEF IInv

\* The status is decided once.
LEMMA SetStatusKeeps ==
  ASSUME IInv, NEW j \in Job, SetStatus(j)
  PROVE  IInv' /\ Grows
<1> DEFINE status == IF task[j] = "applied" THEN "Completed" ELSE "Failed"
           after == [jobs[j] EXCEPT !.status = status]
<1>1. status \in Status
  BY DEF Status
<1> HIDE DEF status
<1>2. j \in DOMAIN jobs => after \in JobState /\ after.logs = jobs[j].logs
  BY <1>1, StatusTyped DEF IInv, JobsOK
<1>3. Update(j, after)
  BY DEF SetStatus, status
<1> HIDE DEF after
<1>4. /\ JobsOK'
      /\ DOMAIN jobs' = DOMAIN jobs
      /\ j \in DOMAIN jobs => jobs'[j] = after
      /\ \A i \in DOMAIN jobs : i # j => jobs'[i] = jobs[i]
  BY <1>2, <1>3, UpdateEffect DEF IInv
<1>5. /\ TaskOK' /\ task[j] \notin {"none", "done"} /\ task'[j] = "done"
      /\ \A i \in Job : i # j => task'[i] = task[i]
  BY DEF IInv, TaskOK, SetStatus
<1>6. RunsOK'
  BY DEF IInv, RunsOK, SetStatus, runVars
<1>7. ClientsOK'
  BY DEF IInv, ClientsOK, SetStatus, clientVars
<1>8. Asked' /\ Undecided'
  BY <1>4, <1>5 DEF IInv, JobsOK, Asked, Undecided, SetStatus, clientVars
<1>9. Grows
  <2>1. j \in DOMAIN jobs => jobs[j].status = "Running"
    BY <1>5 DEF IInv, Undecided
  <2>2. ASSUME NEW i \in Job, i \in DOMAIN jobs, i \in DOMAIN jobs'
        PROVE  /\ \A h \in Host : IsPrefix(jobs[i].logs[h], jobs'[i].logs[h])
               /\ jobs[i].status # "Running" => jobs'[i].status = jobs[i].status
    <3>1. jobs'[i].logs = jobs[i].logs
      BY <1>2, <1>4, <2>2
    <3>2. jobs[i].status # "Running" => jobs'[i].status = jobs[i].status
      BY <1>4, <2>1, <2>2
    <3> QED
      BY <3>1, <3>2, <2>2, Unchanged DEF IInv
  <2> QED
    BY <1>4, <2>2 DEF Grows
<1> QED
  BY <1>4, <1>5, <1>6, <1>7, <1>8, <1>9 DEF IInv

\* The steps of a run that leave the job states alone.
LEMMA RunStepKeeps ==
  ASSUME IInv, NEW r \in Run,
         StartRun(r) \/ Sink(r) \/ ExecReturns(r) \/ Take(r) \/ DrainEnds(r)
  PROVE  IInv' /\ Grows
<1> USE DEF StartRun, Sink, ExecReturns, Take, DrainEnds
<1>1. JobsOK' /\ Grows
  BY SameJobsGrow DEF IInv
<1>2. ClientsOK' /\ TaskOK'
  BY DEF IInv, ClientsOK, TaskOK, clientVars
<1>3. Asked' /\ Undecided'
  BY DEF IInv, Asked, Undecided, clientVars
<1>4. RunsOK'
  <2>1. /\ RunsOK /\ MaxLines[r] \in Nat
        /\ sunk[r] \in Nat /\ taken[r] \in Nat
    BY RunFacts DEF IInv, RunsOK
  <2>2. CASE StartRun(r) \/ ExecReturns(r)
    BY <2>1, <2>2 DEF RunsOK, ExecState
  <2>3. CASE Sink(r)
    BY <2>1, <2>3 DEF RunsOK
  <2>4. CASE Take(r)
    BY <2>1, <2>4 DEF RunsOK
  <2>5. CASE DrainEnds(r)
    BY <2>1, <2>5 DEF RunsOK
  <2> QED
    BY <2>2, <2>3, <2>4, <2>5
<1> QED
  BY <1>1, <1>2, <1>3, <1>4 DEF IInv

\* What the drain task held is appended, or dropped.
LEMMA AppendKeeps ==
  ASSUME IInv, NEW r \in Run, AppendLogs(r)
  PROVE  IInv' /\ Grows
<1> DEFINE j == JobOf(r)
           after == [jobs[j] EXCEPT !.logs[HostName[r]] = Append(@, <<r, taken[r]>>)]
<1>1. /\ j \in Job /\ HostName[r] \in Host
      /\ taken[r] \in 1..MaxLines[r] /\ <<r, taken[r]>> \in Line
  <2>1. /\ taken[r] \in Nat /\ sunk[r] \in Nat /\ MaxLines[r] \in Nat
        /\ taken[r] <= sunk[r] /\ sunk[r] <= MaxLines[r] /\ taken[r] # 0
    BY RunFacts DEF IInv, RunsOK, AppendLogs
  <2> QED
    BY <2>1, RunFacts
<1>2. Update(j, after)
  BY DEF AppendLogs
<1>3. j \in DOMAIN jobs => jobs[j] \in JobState
  BY DEF IInv, JobsOK
<1>4. j \in DOMAIN jobs =>
        /\ after \in JobState
        /\ after.status = jobs[j].status
        /\ \A k \in Host : IsPrefix(jobs[j].logs[k], after.logs[k])
  BY <1>1, <1>3, AppendTyped
<1> HIDE DEF after, j
<1>5. /\ JobsOK'
      /\ DOMAIN jobs' = DOMAIN jobs
      /\ j \in DOMAIN jobs => jobs'[j] = after
      /\ \A i \in DOMAIN jobs : i # j => jobs'[i] = jobs[i]
  BY <1>1, <1>2, <1>4, UpdateEffect DEF IInv
<1>6. RunsOK'
  BY DEF IInv, RunsOK, AppendLogs
<1>7. ClientsOK' /\ TaskOK'
  BY DEF IInv, ClientsOK, TaskOK, AppendLogs, clientVars
<1>8. Asked'
  BY <1>5 DEF IInv, Asked, AppendLogs, clientVars
<1>9. Undecided'
  BY <1>4, <1>5 DEF IInv, Undecided, AppendLogs
<1>10. Grows
  BY <1>4, <1>5, Unchanged DEF IInv, Grows
<1> QED
  BY <1>5, <1>6, <1>7, <1>8, <1>9, <1>10 DEF IInv

LEMMA MaxOfTwo == \A m, n \in Nat : Max({m, n}) \in Nat
<1> TAKE m, n \in Nat
<1>1. \E x \in {m, n} : \A y \in {m, n} : x >= y
  OBVIOUS
<1>2. Max({m, n}) \in {m, n}
  BY <1>1 DEF Max
<1> QED
  BY <1>2

\* What a program holds is a job state, and so is what it prints.
LEMMA ClientStepKeeps ==
  ASSUME IInv, NEW j \in Job, GetJobStatus(j) \/ RequestFails(j) \/ ShowNew(j)
  PROVE  IInv' /\ Grows
<1>1. JobsOK' /\ Grows
  BY SameJobsGrow DEF IInv, GetJobStatus, RequestFails, ShowNew
<1>2. RunsOK' /\ TaskOK' /\ Undecided'
  BY DEF IInv, RunsOK, TaskOK, Undecided, GetJobStatus, RequestFails, ShowNew, runVars
<1>3. ClientsOK' /\ client'[j] # "idle" /\ \A i \in Job : i # j => client'[i] = client[i]
  <2>1. CASE GetJobStatus(j)
    <3>1. CASE j \in DOMAIN jobs
      <4>1. /\ jobs[j] \in JobState /\ ClientsOK
            /\ answer' = [answer EXCEPT ![j] = {jobs[j]}]
            /\ client' = [client EXCEPT ![j] = "printing"]
            /\ UNCHANGED <<offset, printed>>
        BY <2>1, <3>1 DEF IInv, JobsOK, GetJobStatus
      <4>2. /\ answer'[j] = {jobs[j]} /\ client'[j] = "printing" /\ DOMAIN answer' = Job
            /\ \A i \in Job : i # j => client'[i] = client[i] /\ answer'[i] = answer[i]
        BY <4>1 DEF ClientsOK
      <4>3. \A i \in Job : /\ answer'[i] = {} <=> client'[i] # "printing"
                           /\ \A s \in answer'[i] : s \in JobState
        BY <4>1, <4>2 DEF ClientsOK
      <4> QED
        BY <4>1, <4>2, <4>3 DEF ClientsOK
    <3>2. CASE j \notin DOMAIN jobs
      BY <2>1, <3>2 DEF IInv, ClientsOK, GetJobStatus, Over
    <3> QED
      BY <3>1, <3>2
  <2>2. CASE RequestFails(j)
    BY <2>2 DEF IInv, ClientsOK, RequestFails, Over
  <2>3. CASE ShowNew(j)
    <3>1. PICK s \in answer[j] :
            /\ client[j] = "printing"
            /\ printed' = [printed EXCEPT ![j] = [h \in Host |->
                 @[h] \o SubSeq(s.logs[h], offset[j][h] + 1, Len(s.logs[h]))]]
            /\ offset' = [offset EXCEPT ![j] =
                 [h \in Host |-> Max({@[h], Len(s.logs[h])})]]
            /\ answer' = [answer EXCEPT ![j] = {}]
            /\ client' = [client EXCEPT ![j] = Verdict(s.status)]
      BY <2>3 DEF ShowNew
    <3>2. s.logs \in [Host -> Seq(Line)] /\ s.status \in Status
      BY DEF IInv, ClientsOK, JobState
    <3>3. Verdict(s.status) \in {"polling", "completed", "failed"}
      BY <3>2 DEF Verdict, Status
    <3>4. ASSUME NEW h \in Host
          PROVE  /\ printed[j][h] \o SubSeq(s.logs[h], offset[j][h] + 1, Len(s.logs[h]))
                       \in Seq(Line)
                 /\ Max({offset[j][h], Len(s.logs[h])}) \in Nat
      <4>1. /\ s.logs[h] \in Seq(Line) /\ Len(s.logs[h]) \in Nat
            /\ offset[j][h] \in Nat /\ printed[j][h] \in Seq(Line)
        BY <3>2 DEF IInv, ClientsOK
      <4>2. SubSeq(s.logs[h], offset[j][h] + 1, Len(s.logs[h])) \in Seq(Line)
        BY <4>1
      <4>3. \A a, b \in Seq(Line) : a \o b \in Seq(Line)
        OBVIOUS
      <4>4. Max({offset[j][h], Len(s.logs[h])}) \in Nat
        BY <4>1, MaxOfTwo
      <4> QED
        BY <4>1, <4>2, <4>3, <4>4
    <3>5. printed' \in [Job -> [Host -> Seq(Line)]] /\ offset' \in [Job -> [Host -> Nat]]
      BY <3>1, <3>4 DEF IInv, ClientsOK
    <3>6. /\ client' \in [Job -> {"idle", "polling", "printing"} \cup Over]
          /\ client'[j] \notin {"idle", "printing"} /\ answer'[j] = {}
          /\ DOMAIN answer' = Job
          /\ \A i \in Job : i # j => client'[i] = client[i] /\ answer'[i] = answer[i]
      BY <3>1, <3>3 DEF IInv, ClientsOK, Over
    <3> QED
      BY <3>5, <3>6 DEF IInv, ClientsOK
  <2> QED
    BY <2>1, <2>2, <2>3
<1>4. Asked'
  BY <1>3 DEF IInv, Asked, GetJobStatus, RequestFails, ShowNew
<1> QED
  BY <1>1, <1>2, <1>3, <1>4 DEF IInv

LEMMA NextIInv == IInv /\ [Next]_vars => IInv' /\ Grows
<1> SUFFICES ASSUME IInv, [Next]_vars PROVE IInv' /\ Grows
  OBVIOUS
<1>1. CASE UNCHANGED vars
  <2>1. JobsOK' /\ Grows
    BY <1>1, SameJobsGrow DEF IInv, vars
  <2> QED
    BY <1>1, <2>1 DEF IInv, TaskOK, RunsOK, ClientsOK, Asked, Undecided,
       vars, runVars, clientVars
<1>2. ASSUME NEW j \in Job, JobStep(j) PROVE IInv' /\ Grows
  BY <1>2, RunPlanKeeps, TaskStepKeeps, SetStatusKeeps, ClientStepKeeps DEF JobStep
<1>3. ASSUME NEW r \in Run, RunStep(r) PROVE IInv' /\ Grows
  BY <1>3, RunStepKeeps, AppendKeeps DEF RunStep
<1> QED
  BY <1>1, <1>2, <1>3 DEF Next, Terminated

THEOREM ControllerInvariance == Spec => []IInv
<1>1. IInv /\ [Next]_vars => IInv'
  BY NextIInv
<1> QED
  BY InitIInv, <1>1, PTL DEF Spec

-----------------------------------------------------------------------------
(***************************************************************************)
(* Logs: sequences of lines, and what of a run is among them.              *)
(***************************************************************************)
\* A prefix is shorter and agrees where it is defined.
LEMMA PrefixMeans ==
  ASSUME NEW a \in Seq(Line), NEW b \in Seq(Line)
  PROVE  IsPrefix(a, b) <=> Len(a) <= Len(b) /\ \A i \in 1..Len(a) : a[i] = b[i]
<1>1. Len(a) \in Nat /\ Len(b) \in Nat
  OBVIOUS
<1>2. SubSeq(a, 1, Len(a)) = [i \in 1..Len(a) |-> a[i]]
  BY <1>1
<1>3. Len(a) <= Len(b) => SubSeq(b, 1, Len(a)) = [i \in 1..Len(a) |-> b[i]]
  BY <1>1
<1>4. [i \in 1..Len(a) |-> a[i]] = [i \in 1..Len(a) |-> b[i]]
        <=> \A i \in 1..Len(a) : a[i] = b[i]
  <2>1. ASSUME [i \in 1..Len(a) |-> a[i]] = [i \in 1..Len(a) |-> b[i]], NEW k \in 1..Len(a)
        PROVE  a[k] = b[k]
    <3>1. [i \in 1..Len(a) |-> a[i]][k] = [i \in 1..Len(a) |-> b[i]][k]
      BY <2>1
    <3> QED
      BY <3>1
  <2> QED
    BY <2>1
<1> QED
  BY <1>2, <1>3, <1>4 DEF IsPrefix

LEMMA PrefixOfPrefix ==
  ASSUME NEW a \in Seq(Line), NEW b \in Seq(Line), NEW c \in Seq(Line),
         IsPrefix(a, b), IsPrefix(b, c)
  PROVE  IsPrefix(a, c)
<1>1. Len(a) \in Nat /\ Len(b) \in Nat /\ Len(c) \in Nat
  OBVIOUS
<1>2. Len(a) <= Len(b) /\ \A i \in 1..Len(a) : a[i] = b[i]
  BY PrefixMeans
<1>3. Len(b) <= Len(c) /\ \A i \in 1..Len(b) : b[i] = c[i]
  BY PrefixMeans
<1>4. Len(a) <= Len(c) /\ \A i \in 1..Len(a) : a[i] = c[i]
  BY <1>1, <1>2, <1>3
<1> QED
  BY <1>4, PrefixMeans

LEMMA PrefixOfItself ==
  ASSUME NEW a \in Seq(Line)
  PROVE  IsPrefix(a, a) /\ IsPrefix(<<>>, a)
<1>1. Len(a) \in Nat /\ <<>> \in Seq(Line) /\ Len(<<>>) = 0
  OBVIOUS
<1>2. IsPrefix(a, a)
  BY <1>1, PrefixMeans
<1>3. IsPrefix(<<>>, a) <=> Len(<<>>) <= Len(a) /\ \A i \in 1..Len(<<>>) : <<>>[i] = a[i]
  BY <1>1, PrefixMeans
<1> QED
  BY <1>1, <1>2, <1>3

\* What follows a prefix makes it whole.
LEMMA CatchingUp ==
  ASSUME NEW a \in Seq(Line), NEW b \in Seq(Line), IsPrefix(a, b)
  PROVE  a \o SubSeq(b, Len(a) + 1, Len(b)) = b
<1> DEFINE rest == SubSeq(b, Len(a) + 1, Len(b))
           all == a \o rest
<1>1. Len(a) \in Nat /\ Len(b) \in Nat
  OBVIOUS
<1>2. Len(a) <= Len(b) /\ \A i \in 1..Len(a) : a[i] = b[i]
  BY PrefixMeans
<1>3. /\ rest \in Seq(Line) /\ Len(rest) = Len(b) - Len(a)
      /\ \A i \in 1..Len(rest) : rest[i] = b[Len(a) + i]
  BY <1>1, <1>2
<1> HIDE DEF rest
<1>4. /\ all \in Seq(Line) /\ Len(all) = Len(a) + Len(rest)
      /\ \A i \in 1..Len(all) : all[i] = IF i <= Len(a) THEN a[i] ELSE rest[i - Len(a)]
  BY <1>1, <1>3
<1> HIDE DEF all
<1>5. Len(all) = Len(b)
  BY <1>1, <1>2, <1>3, <1>4
<1>6. ASSUME NEW i \in 1..Len(b) PROVE all[i] = b[i]
  <2>1. CASE i <= Len(a)
    BY <1>1, <1>2, <1>4, <1>5, <2>1
  <2>2. CASE ~(i <= Len(a))
    <3>1. i - Len(a) \in 1..Len(rest) /\ Len(a) + (i - Len(a)) = i
      BY <1>1, <1>2, <1>3, <2>2
    <3> QED
      BY <1>3, <1>4, <1>5, <2>2, <3>1
  <2> QED
    BY <2>1, <2>2
<1>7. all = b
  BY <1>4, <1>5, <1>6
<1> QED
  BY <1>7 DEF all, rest

\* Logs that agree up to a line have shown the same.
LEMMA SameShown ==
  ASSUME NEW a, NEW b, NEW n \in Nat, NEW r,
         \A i \in 1..n : a[i] = b[i]
  PROVE  Shown(r, a, n) = Shown(r, b, n)
BY DEF Shown

LEMMA ShownAfterAppend ==
  ASSUME NEW log \in Seq(Line), NEW r \in Run, NEW n \in Nat, <<r, n>> \in Line, NEW q
  PROVE  LET longer == Append(log, <<r, n>>)
         IN  /\ AllShown(q, longer) = AllShown(q, log) \cup (IF q = r THEN {n} ELSE {})
             /\ InOrder(q, log) /\ (q = r => AllShown(q, log) = 1..(n - 1))
                  => InOrder(q, longer)
<1> DEFINE longer == Append(log, <<r, n>>)
<1>1. /\ Len(log) \in Nat /\ Len(longer) = Len(log) + 1
      /\ DOMAIN log = 1..Len(log) /\ DOMAIN longer = 1..(Len(log) + 1)
      /\ \A i \in 1..Len(log) : longer[i] = log[i]
      /\ longer[Len(log) + 1] = <<r, n>>
  OBVIOUS
<1> HIDE DEF longer
<1>2. longer[Len(log) + 1][1] = r /\ longer[Len(log) + 1][2] = n
  BY <1>1
<1>3. AllShown(q, longer) = AllShown(q, log) \cup (IF q = r THEN {n} ELSE {})
  <2>1. 1..(Len(log) + 1) = (1..Len(log)) \cup {Len(log) + 1}
    BY <1>1
  <2>2. AllShown(q, longer) =
          {longer[k][2] : k \in {m \in (1..Len(log)) \cup {Len(log) + 1} : longer[m][1] = q}}
    BY <1>1, <2>1 DEF AllShown, Shown
  <2>3. AllShown(q, log) = {longer[k][2] : k \in {m \in 1..Len(log) : longer[m][1] = q}}
    BY <1>1, SameShown DEF AllShown, Shown
  <2>4. CASE q = r
    BY <1>2, <2>2, <2>3, <2>4
  <2>5. CASE q # r
    BY <1>2, <2>2, <2>3, <2>5
  <2> QED
    BY <2>4, <2>5
<1>4. ASSUME InOrder(q, log), q = r => AllShown(q, log) = 1..(n - 1),
             NEW i \in DOMAIN longer, longer[i][1] = q
      PROVE  Shown(q, longer, i - 1) = 1..(longer[i][2] - 1)
  <2>1. i - 1 \in Nat /\ i - 1 <= Len(log)
    BY <1>1
  <2>2. \A k \in 1..(i - 1) : longer[k] = log[k]
    BY <1>1, <2>1
  <2>3. Shown(q, longer, i - 1) = Shown(q, log, i - 1)
    BY <2>1, <2>2, SameShown
  <2>4. CASE i \in 1..Len(log)
    BY <1>1, <1>4, <2>3, <2>4 DEF InOrder
  <2>5. CASE i = Len(log) + 1
    <3>1. i - 1 = Len(log) /\ q = r /\ longer[i][2] = n
      BY <1>1, <1>2, <1>4, <2>5
    <3> QED
      BY <1>4, <2>3, <3>1 DEF AllShown
  <2> QED
    BY <1>1, <2>4, <2>5
<1>5. InOrder(q, log) /\ (q = r => AllShown(q, log) = 1..(n - 1)) => InOrder(q, longer)
  BY <1>4 DEF InOrder
<1> QED
  BY <1>3, <1>5 DEF longer

-----------------------------------------------------------------------------
(***************************************************************************)
(* The invariant of the logs.                                              *)
(***************************************************************************)
\* How many messages of a run its drain task is done with.
Gone(r) == IF drain[r] = "holding" THEN taken[r] - 1 ELSE taken[r]

\* An executor and its drain task begin together, and the drain task is done when
\* it has taken what was logged.
RunsInStep ==
  \A r \in Run :
    /\ exec[r] = "none" <=> drain[r] = "none"
    /\ exec[r] \in {"none", "broken"} => sunk[r] = 0
    /\ drain[r] = "done" => exec[r] \in {"ended", "broken"} /\ taken[r] = sunk[r]
    /\ exec[r] # "none" => task[JobOf(r)] \in {"driving", "applied", "done"}

\* What a program has printed is the beginning of what it holds, and that of
\* what the job has.
Chain ==
  \A j \in Job : \A h \in Host :
    /\ Len(printed[j][h]) = offset[j][h]
    /\ client[j] = "idle" => printed[j][h] = <<>>
    /\ \A s \in answer[j] : IsPrefix(printed[j][h], s.logs[h])
    /\ j \in DOMAIN jobs =>
         /\ IsPrefix(printed[j][h], jobs[j].logs[h])
         /\ \A s \in answer[j] : IsPrefix(s.logs[h], jobs[j].logs[h])

\* The log of a job in the cache has every message its drain tasks are done with.
JobLogs ==
  \A j \in DOMAIN jobs : \A r \in RunsOf[j] :
    /\ InOrder(r, jobs[j].logs[HostName[r]])
    /\ AllShown(r, jobs[j].logs[HostName[r]]) = 1..Gone(r)

HeldLogs ==
  \A j \in Job : \A s \in answer[j] : \A r \in RunsOf[j] :
    /\ InOrder(r, s.logs[HostName[r]])
    /\ AllShown(r, s.logs[HostName[r]]) \subseteq 1..taken[r]

\* Wherever the status Completed is, all runs of the job have returned.
Finished ==
  \A j \in Job : \A r \in RunsOf[j] :
    /\ task[j] = "applied" => Returned(r)
    /\ j \in DOMAIN jobs /\ jobs[j].status = "Completed" => Returned(r)
    /\ \A s \in answer[j] : s.status = "Completed" =>
         Returned(r) /\ AllShown(r, s.logs[HostName[r]]) = 1..sunk[r]

LogInv ==
  /\ RunsInStep /\ Chain /\ JobLogs /\ HeldLogs /\ Finished
  /\ PrintedInOrder /\ CompletedIsComplete

LEMMA RunsOfJob ==
  ASSUME NEW j \in Job, NEW r \in RunsOf[j]
  PROVE  r \in Run /\ JobOf(r) = j
<1>1. r \in Run
  BY DEF Run
<1>2. JobOf(r) \in Job /\ r \in RunsOf[JobOf(r)]
  BY DEF JobOf
<1> QED
  BY <1>1, <1>2, RunsAssumption

\* A run that has returned logs no more, and its drain task holds nothing.
LEMMA ReturnedFacts ==
  ASSUME IInv, RunsInStep, NEW r \in Run, Returned(r)
  PROVE  exec[r] # "running" /\ drain[r] # "holding" /\ taken[r] = sunk[r]
<1>1. /\ taken[r] \in Nat /\ sunk[r] \in Nat /\ taken[r] <= sunk[r]
      /\ drain[r] = "holding" => taken[r] # 0
  BY DEF IInv, RunsOK
<1> QED
  BY <1>1 DEF Returned, RunsInStep

LEMMA InitLogInv == Init => LogInv
<1> SUFFICES ASSUME Init PROVE LogInv
  OBVIOUS
<1> USE DEF Init
<1>1. DOMAIN jobs = {} /\ \A j \in Job : answer[j] = {} /\ client[j] = "idle"
  OBVIOUS
<1>2. RunsInStep
  BY DEF RunsInStep
<1>3. Chain
  BY <1>1 DEF Chain
<1>4. JobLogs /\ HeldLogs
  BY <1>1 DEF JobLogs, HeldLogs
<1>5. Finished /\ CompletedIsComplete
  BY <1>1 DEF Finished, CompletedIsComplete
<1>6. PrintedInOrder
  <2> SUFFICES ASSUME NEW j \in Job, NEW r \in RunsOf[j]
               PROVE  InOrder(r, <<>>) /\ AllShown(r, <<>>) \subseteq 1..taken[r]
    BY RunsOfJob, RunFacts DEF PrintedInOrder
  <2>1. Len(<<>>) = 0 /\ DOMAIN <<>> = {} /\ 1..0 = {}
    OBVIOUS
  <2> QED
    BY <2>1 DEF InOrder, AllShown, Shown
<1> QED
  BY <1>2, <1>3, <1>4, <1>5, <1>6 DEF LogInv

-----------------------------------------------------------------------------
(***************************************************************************)
(* The steps that leave the logs alone.                                    *)
(***************************************************************************)
LEMMA LogsStay ==
  ASSUME IInv, LogInv, IInv', RunsInStep',
         UNCHANGED <<jobs, clientVars>>,
         \A r \in Run : taken[r] <= taken'[r] /\ Gone(r)' = Gone(r),
         \A r \in Run : Returned(r) => Returned(r)' /\ sunk'[r] = sunk[r],
         \A j \in Job : task'[j] = "applied" => \A r \in RunsOf[j] : Returned(r)'
  PROVE  LogInv'
<1>1. UNCHANGED <<jobs, client, answer, offset, printed>>
  BY DEF clientVars
<1>2. Chain'
  BY <1>1 DEF LogInv, Chain
<1>3. ASSUME NEW j \in Job, NEW r \in RunsOf[j]
      PROVE  /\ r \in Run /\ 1..taken[r] \subseteq 1..taken'[r]
             /\ Gone(r)' = Gone(r)
             /\ Returned(r) => Returned(r)' /\ sunk'[r] = sunk[r]
  <2>1. r \in Run
    BY RunsOfJob
  <2>2. taken[r] \in Nat /\ taken'[r] \in Nat
    BY <2>1 DEF IInv, RunsOK
  <2> QED
    BY <2>1, <2>2
<1>4. JobLogs'
  BY <1>1, <1>3 DEF LogInv, JobLogs, IInv, JobsOK
<1>5. HeldLogs'
  BY <1>1, <1>3 DEF LogInv, HeldLogs
<1>6. Finished'
  BY <1>1, <1>3 DEF LogInv, Finished
<1>7. PrintedInOrder'
  BY <1>1, <1>3 DEF LogInv, PrintedInOrder
<1>8. CompletedIsComplete'
  BY <1>1, <1>3 DEF LogInv, CompletedIsComplete
<1> QED
  BY <1>2, <1>4, <1>5, <1>6, <1>7, <1>8 DEF LogInv

LEMMA TaskStepKeepsLogs ==
  ASSUME IInv, LogInv, NEW j \in Job, ApplyPlan(j) \/ Applied(j)
  PROVE  LogInv'
<1>1. IInv'
  BY TaskStepKeeps
<1>2. /\ UNCHANGED <<jobs, clientVars, exec, sunk, taken, drain>>
      /\ task[j] \in {"spawned", "driving"}
      /\ task'[j] \in {"refused", "driving", "applied"}
      /\ task[j] = "driving" => task'[j] = "applied" /\ \A r \in RunsOf[j] : Returned(r)
      /\ task[j] = "spawned" => task'[j] # "applied"
      /\ \A i \in Job : i # j => task'[i] = task[i]
  BY DEF IInv, TaskOK, ApplyPlan, Applied, runVars
<1>3. RunsInStep'
  <2> SUFFICES ASSUME NEW q \in Run
               PROVE  exec[q] # "none" => task'[JobOf(q)] \in {"driving", "applied", "done"}
    BY <1>2 DEF LogInv, RunsInStep
  <2>1. /\ JobOf(q) \in Job
        /\ exec[q] # "none" => task[JobOf(q)] \in {"driving", "applied", "done"}
    BY RunFacts DEF LogInv, RunsInStep
  <2> QED
    BY <1>2, <2>1
<1>4. \A r \in Run : /\ taken[r] <= taken'[r] /\ Gone(r)' = Gone(r)
                      /\ (Returned(r)' <=> Returned(r)) /\ sunk'[r] = sunk[r]
  BY <1>2 DEF IInv, RunsOK, Gone, Returned
<1>5. \A i \in Job : task'[i] = "applied" => \A r \in RunsOf[i] : Returned(r)'
  BY <1>2, <1>4, RunsOfJob DEF LogInv, Finished
<1> QED
  BY <1>1, <1>2, <1>3, <1>4, <1>5, LogsStay

LEMMA RunStepKeepsLogs ==
  ASSUME IInv, LogInv, NEW r \in Run,
         StartRun(r) \/ Sink(r) \/ ExecReturns(r) \/ Take(r) \/ DrainEnds(r)
  PROVE  LogInv'
<1>1. IInv'
  BY RunStepKeeps
<1>2. UNCHANGED <<jobs, clientVars, task>>
  BY DEF StartRun, Sink, ExecReturns, Take, DrainEnds
<1>3. /\ \A q \in Run : sunk[q] \in Nat /\ taken[q] \in Nat
      /\ exec \in [Run -> ExecState]
      /\ sunk \in [Run -> Nat] /\ taken \in [Run -> Nat] /\ taken[r] <= sunk[r]
      /\ drain \in [Run -> {"none", "polling", "holding", "done"}]
  BY DEF IInv, RunsOK
<1>4. /\ exec[r] = "none" <=> drain[r] = "none"
      /\ exec[r] \in {"none", "broken"} => sunk[r] = 0
      /\ drain[r] = "done" => exec[r] \in {"ended", "broken"} /\ taken[r] = sunk[r]
      /\ exec[r] # "none" => task[JobOf(r)] \in {"driving", "applied", "done"}
  BY DEF LogInv, RunsInStep
<1>5. \A q \in Run : q # r =>
        /\ exec'[q] = exec[q] /\ sunk'[q] = sunk[q]
        /\ taken'[q] = taken[q] /\ drain'[q] = drain[q]
  BY <1>3 DEF StartRun, Sink, ExecReturns, Take, DrainEnds
<1>6. /\ exec'[r] = "none" <=> drain'[r] = "none"
      /\ exec'[r] \in {"none", "broken"} => sunk'[r] = 0
      /\ drain'[r] = "done" => exec'[r] \in {"ended", "broken"} /\ taken'[r] = sunk'[r]
      /\ exec'[r] # "none" => task[JobOf(r)] \in {"driving", "applied", "done"}
      /\ taken[r] <= taken'[r] /\ Gone(r)' = Gone(r)
      /\ Returned(r) => Returned(r)' /\ sunk'[r] = sunk[r]
  <2>1. CASE StartRun(r)
    BY <1>3, <1>4, <2>1 DEF StartRun, Gone, Returned
  <2>2. CASE Sink(r)
    BY <1>3, <1>4, <2>2 DEF Sink, Gone, Returned
  <2>3. CASE ExecReturns(r)
    BY <1>3, <1>4, <2>3 DEF ExecReturns, Gone, Returned
  <2>4. CASE Take(r)
    BY <1>3, <1>4, <2>4 DEF Take, Gone, Returned
  <2>5. CASE DrainEnds(r)
    BY <1>3, <1>4, <2>5 DEF DrainEnds, Gone, Returned
  <2> QED
    BY <2>1, <2>2, <2>3, <2>4, <2>5
<1>7. RunsInStep'
  BY <1>2, <1>5, <1>6 DEF LogInv, RunsInStep
<1>8. ASSUME NEW q \in Run
      PROVE  taken[q] <= taken'[q] /\ Gone(q)' = Gone(q)
  BY <1>3, <1>5, <1>6 DEF Gone
<1>9. ASSUME NEW q \in Run, Returned(q)
      PROVE  Returned(q)' /\ sunk'[q] = sunk[q]
  <2>1. CASE q = r
    BY <1>6, <1>9, <2>1
  <2>2. CASE q # r
    BY <1>5, <1>9, <2>2 DEF Returned
  <2> QED
    BY <2>1, <2>2
<1>10. ASSUME NEW i \in Job, task'[i] = "applied", NEW q \in RunsOf[i] PROVE Returned(q)'
  <2>1. task[i] = "applied" /\ q \in Run
    BY <1>2, <1>10, RunsOfJob
  <2>2. Returned(q)
    BY <2>1 DEF LogInv, Finished
  <2> QED
    BY <1>9, <2>1, <2>2
<1> QED
  BY <1>1, <1>2, <1>7, <1>8, <1>9, <1>10, LogsStay

-----------------------------------------------------------------------------
(***************************************************************************)
(* The steps that change the cache, and the turns of the polling loop.     *)
(***************************************************************************)
LEMMA EmptyLog ==
  ASSUME NEW r
  PROVE  InOrder(r, <<>>) /\ AllShown(r, <<>>) = {}
<1>1. Len(<<>>) = 0 /\ DOMAIN <<>> = {} /\ 1..0 = {}
  OBVIOUS
<1> QED
  BY <1>1 DEF InOrder, AllShown, Shown

\* A job begins with empty logs, and none of its runs has logged anything.
LEMMA RunPlanKeepsLogs ==
  ASSUME IInv, LogInv, NEW j \in Job, RunPlan(j)
  PROVE  LogInv'
<1>1. /\ jobs'[j] = NewJob
      /\ DOMAIN jobs' \subseteq DOMAIN jobs \cup {j}
      /\ \A i \in DOMAIN jobs' : i # j => i \in DOMAIN jobs /\ jobs'[i] = jobs[i]
  BY InsertEffect, NewJobTyped DEF IInv, RunPlan
<1>2. /\ UNCHANGED <<exec, sunk, taken, drain, answer, offset, printed>>
      /\ client[j] = "idle" /\ client'[j] \in {"polling", "error"}
      /\ \A i \in Job : i # j => client'[i] = client[i] /\ task'[i] = task[i]
      /\ task[j] = "none" /\ task'[j] = "spawned"
  BY DEF IInv, ClientsOK, TaskOK, Asked, RunPlan, runVars
<1>3. answer[j] = {} /\ DOMAIN jobs' \subseteq Job
  BY <1>1, <1>2 DEF IInv, ClientsOK, JobsOK
<1>4. NewJob.status = "Running" /\ \A h \in Host : NewJob.logs[h] = <<>>
  BY DEF NewJob
<1>5. RunsInStep'
  <2> SUFFICES ASSUME NEW q \in Run
               PROVE  exec[q] # "none" => task'[JobOf(q)] \in {"driving", "applied", "done"}
    BY <1>2 DEF LogInv, RunsInStep
  <2>1. /\ JobOf(q) \in Job
        /\ exec[q] # "none" => task[JobOf(q)] \in {"driving", "applied", "done"}
    BY RunFacts DEF LogInv, RunsInStep
  <2> QED
    BY <1>2, <2>1
<1>6. Chain'
  <2> SUFFICES ASSUME NEW i \in Job, NEW h \in Host
               PROVE  /\ Len(printed[i][h]) = offset[i][h]
                      /\ client'[i] = "idle" => printed[i][h] = <<>>
                      /\ \A s \in answer[i] : IsPrefix(printed[i][h], s.logs[h])
                      /\ i \in DOMAIN jobs' =>
                           /\ IsPrefix(printed[i][h], jobs'[i].logs[h])
                           /\ \A s \in answer[i] : IsPrefix(s.logs[h], jobs'[i].logs[h])
    BY <1>2 DEF Chain
  <2>1. /\ Len(printed[i][h]) = offset[i][h]
        /\ client[i] = "idle" => printed[i][h] = <<>>
        /\ \A s \in answer[i] : IsPrefix(printed[i][h], s.logs[h])
        /\ i \in DOMAIN jobs =>
             /\ IsPrefix(printed[i][h], jobs[i].logs[h])
             /\ \A s \in answer[i] : IsPrefix(s.logs[h], jobs[i].logs[h])
    BY DEF LogInv, Chain
  <2>2. CASE i # j
    BY <1>1, <1>2, <2>1, <2>2
  <2>3. CASE i = j
    <3>1. <<>> \in Seq(Line)
      OBVIOUS
    <3>2. IsPrefix(<<>>, <<>>)
      BY <3>1, PrefixOfItself
    <3> QED
      BY <1>1, <1>2, <1>3, <1>4, <2>1, <2>3, <3>2
  <2> QED
    BY <2>2, <2>3
<1>7. JobLogs'
  <2> SUFFICES ASSUME NEW i \in DOMAIN jobs', NEW r \in RunsOf[i]
               PROVE  /\ InOrder(r, jobs'[i].logs[HostName[r]])
                      /\ AllShown(r, jobs'[i].logs[HostName[r]]) = 1..Gone(r)'
    BY DEF JobLogs
  <2>1. i \in Job /\ r \in Run /\ JobOf(r) = i /\ HostName[r] \in Host /\ Gone(r)' = Gone(r)
    BY <1>2, <1>3, RunsOfJob, RunFacts DEF Gone
  <2>2. CASE i # j
    BY <1>1, <2>1, <2>2 DEF LogInv, JobLogs
  <2>3. CASE i = j
    <3>1. exec[r] = "none" /\ drain[r] = "none" /\ sunk[r] = 0
      BY <1>2, <2>1, <2>3 DEF LogInv, RunsInStep
    <3>2. Gone(r) = 0
      BY <2>1, <3>1 DEF IInv, RunsOK, Gone
    <3> QED
      BY <1>1, <1>4, <2>1, <2>3, <3>2, EmptyLog
  <2> QED
    BY <2>2, <2>3
<1>8. HeldLogs'
  BY <1>2 DEF LogInv, HeldLogs
<1>9. Finished'
  <2> SUFFICES ASSUME NEW i \in Job, NEW r \in RunsOf[i]
               PROVE  /\ task'[i] = "applied" => Returned(r)
                      /\ i \in DOMAIN jobs' /\ jobs'[i].status = "Completed" => Returned(r)
                      /\ \A s \in answer[i] : s.status = "Completed" =>
                           Returned(r) /\ AllShown(r, s.logs[HostName[r]]) = 1..sunk[r]
    BY <1>2 DEF Finished, Returned
  <2> QED
    BY <1>1, <1>2, <1>3, <1>4 DEF LogInv, Finished
<1>10. PrintedInOrder'
  BY <1>2 DEF LogInv, PrintedInOrder
<1>11. CompletedIsComplete'
  BY <1>2 DEF LogInv, CompletedIsComplete, Returned
<1> QED
  BY <1>5, <1>6, <1>7, <1>8, <1>9, <1>10, <1>11 DEF LogInv

\* The status Completed is written when the runs have returned.
LEMMA SetStatusKeepsLogs ==
  ASSUME IInv, LogInv, NEW j \in Job, SetStatus(j)
  PROVE  LogInv'
<1> DEFINE status == IF task[j] = "applied" THEN "Completed" ELSE "Failed"
           after == [jobs[j] EXCEPT !.status = status]
<1>1. status \in Status
  BY DEF Status
<1>2. status = "Completed" => task[j] = "applied"
  OBVIOUS
<1>3. Update(j, after)
  BY DEF SetStatus
<1> HIDE DEF status
<1>4. j \in DOMAIN jobs =>
        after \in JobState /\ after.logs = jobs[j].logs /\ after.status = status
  BY <1>1, StatusTyped DEF IInv, JobsOK
<1> HIDE DEF after
<1>5. /\ DOMAIN jobs' = DOMAIN jobs
      /\ j \in DOMAIN jobs => jobs'[j] = after
      /\ \A i \in DOMAIN jobs : i # j => jobs'[i] = jobs[i]
  BY <1>3, <1>4, UpdateEffect DEF IInv
<1>6. \A i \in DOMAIN jobs :
        /\ jobs'[i].logs = jobs[i].logs
        /\ jobs'[i].status = "Completed" =>
             jobs[i].status = "Completed" \/ task[i] = "applied"
  BY <1>2, <1>4, <1>5
<1>7. /\ UNCHANGED <<exec, sunk, taken, drain, client, answer, offset, printed>>
      /\ \A i \in Job : i # j => task'[i] = task[i]
      /\ task'[j] = "done"
  BY DEF IInv, TaskOK, SetStatus, runVars, clientVars
<1>8. RunsInStep'
  <2> SUFFICES ASSUME NEW q \in Run
               PROVE  exec[q] # "none" => task'[JobOf(q)] \in {"driving", "applied", "done"}
    BY <1>7 DEF LogInv, RunsInStep
  <2>1. /\ JobOf(q) \in Job
        /\ exec[q] # "none" => task[JobOf(q)] \in {"driving", "applied", "done"}
    BY RunFacts DEF LogInv, RunsInStep
  <2> QED
    BY <1>7, <2>1
<1>9. Chain'
  BY <1>5, <1>6, <1>7 DEF LogInv, Chain
<1>10. JobLogs'
  <2>1. \A r : Gone(r)' = Gone(r)
    BY <1>7 DEF Gone
  <2> QED
    BY <1>5, <1>6, <2>1 DEF LogInv, JobLogs
<1>11. HeldLogs'
  BY <1>7 DEF LogInv, HeldLogs
<1>12. Finished'
  <2> SUFFICES ASSUME NEW i \in Job, NEW r \in RunsOf[i]
               PROVE  /\ task'[i] = "applied" => Returned(r)
                      /\ i \in DOMAIN jobs' /\ jobs'[i].status = "Completed" => Returned(r)
                      /\ \A s \in answer[i] : s.status = "Completed" =>
                           Returned(r) /\ AllShown(r, s.logs[HostName[r]]) = 1..sunk[r]
    BY <1>7 DEF Finished, Returned
  <2>1. /\ task[i] = "applied" => Returned(r)
        /\ i \in DOMAIN jobs /\ jobs[i].status = "Completed" => Returned(r)
        /\ \A s \in answer[i] : s.status = "Completed" =>
             Returned(r) /\ AllShown(r, s.logs[HostName[r]]) = 1..sunk[r]
    BY DEF LogInv, Finished
  <2> QED
    BY <1>5, <1>6, <1>7, <2>1
<1>13. PrintedInOrder'
  BY <1>7 DEF LogInv, PrintedInOrder
<1>14. CompletedIsComplete'
  BY <1>7 DEF LogInv, CompletedIsComplete, Returned
<1> QED
  BY <1>8, <1>9, <1>10, <1>11, <1>12, <1>13, <1>14 DEF LogInv

\* The message a drain task held is the next one of its run in the job's log.
LEMMA AppendKeepsLogs ==
  ASSUME IInv, LogInv, NEW r \in Run, AppendLogs(r)
  PROVE  LogInv'
<1> DEFINE j == JobOf(r)
           line == <<r, taken[r]>>
           after == [jobs[j] EXCEPT !.logs[HostName[r]] = Append(@, line)]
<1>1. /\ j \in Job /\ HostName[r] \in Host
      /\ taken[r] \in Nat \ {0} /\ line \in Line
  <2>1. /\ taken[r] \in Nat /\ sunk[r] \in Nat /\ MaxLines[r] \in Nat
        /\ taken[r] <= sunk[r] /\ sunk[r] <= MaxLines[r] /\ taken[r] # 0
    BY RunFacts DEF IInv, RunsOK, AppendLogs
  <2> QED
    BY <2>1, RunFacts
<1>2. Update(j, after)
  BY DEF AppendLogs
<1>3. j \in DOMAIN jobs => jobs[j] \in JobState /\ jobs[j].logs \in [Host -> Seq(Line)]
  BY DEF IInv, JobsOK, JobState
<1>4. j \in DOMAIN jobs =>
        /\ after \in JobState
        /\ after.status = jobs[j].status
        /\ \A k \in Host : IsPrefix(jobs[j].logs[k], after.logs[k])
  BY <1>1, <1>3, AppendTyped
<1>5. j \in DOMAIN jobs =>
        /\ after.logs[HostName[r]] = Append(jobs[j].logs[HostName[r]], line)
        /\ \A k \in Host : k # HostName[r] => after.logs[k] = jobs[j].logs[k]
  <2> SUFFICES ASSUME j \in DOMAIN jobs
               PROVE  /\ after.logs[HostName[r]] = Append(jobs[j].logs[HostName[r]], line)
                      /\ \A k \in Host : k # HostName[r] => after.logs[k] = jobs[j].logs[k]
    OBVIOUS
  <2>1. jobs[j] \in [logs : [Host -> Seq(Line)], status : Status]
    BY <1>3 DEF JobState
  <2> HIDE DEF j, line
  <2>2. after.logs =
          [jobs[j].logs EXCEPT ![HostName[r]] = Append(jobs[j].logs[HostName[r]], line)]
    BY <2>1
  <2> QED
    BY <1>1, <1>3, <2>2
<1> HIDE DEF after, j
<1>6. /\ JobsOK' /\ DOMAIN jobs' = DOMAIN jobs
      /\ j \in DOMAIN jobs => jobs'[j] = after
      /\ \A i \in DOMAIN jobs : i # j => jobs'[i] = jobs[i]
  BY <1>1, <1>2, <1>4, UpdateEffect DEF IInv
<1>7. /\ UNCHANGED <<task, exec, sunk, taken, client, answer, offset, printed>>
      /\ drain[r] = "holding" /\ drain'[r] = "polling"
      /\ \A q \in Run : q # r => drain'[q] = drain[q]
  BY DEF IInv, RunsOK, AppendLogs, clientVars
<1>8. \A i \in DOMAIN jobs : /\ jobs'[i].status = jobs[i].status
                             /\ \A k \in Host : IsPrefix(jobs[i].logs[k], jobs'[i].logs[k])
  BY <1>4, <1>6, Unchanged DEF IInv
<1>9. ASSUME NEW q \in Run, Returned(q) PROVE Returned(q)'
  BY <1>7, <1>9, ReturnedFacts DEF LogInv, Returned
<1>10. RunsInStep'
  <2>1. exec[r] # "none"
    BY <1>7 DEF LogInv, RunsInStep
  <2> QED
    BY <1>7, <2>1 DEF LogInv, RunsInStep
<1>11. Chain'
  <2> SUFFICES ASSUME NEW i \in Job, NEW h \in Host, i \in DOMAIN jobs
               PROVE  /\ IsPrefix(printed[i][h], jobs'[i].logs[h])
                      /\ \A s \in answer[i] : IsPrefix(s.logs[h], jobs'[i].logs[h])
    BY <1>6, <1>7 DEF LogInv, Chain
  <2>1. /\ jobs[i].logs[h] \in Seq(Line) /\ jobs'[i].logs[h] \in Seq(Line)
        /\ printed[i][h] \in Seq(Line)
        /\ \A s \in answer[i] : s.logs[h] \in Seq(Line)
    BY <1>6 DEF IInv, JobsOK, ClientsOK, JobState
  <2>2. /\ IsPrefix(printed[i][h], jobs[i].logs[h])
        /\ \A s \in answer[i] : IsPrefix(s.logs[h], jobs[i].logs[h])
    BY DEF LogInv, Chain
  <2> QED
    BY <1>8, <2>1, <2>2, PrefixOfPrefix
<1>12. JobLogs'
  <2> SUFFICES ASSUME NEW i \in DOMAIN jobs, NEW q \in RunsOf[i]
               PROVE  /\ InOrder(q, jobs'[i].logs[HostName[q]])
                      /\ AllShown(q, jobs'[i].logs[HostName[q]]) = 1..Gone(q)'
    BY <1>6 DEF JobLogs
  <2>1. i \in Job /\ q \in Run /\ JobOf(q) = i /\ HostName[q] \in Host
    BY RunsOfJob, RunFacts DEF IInv, JobsOK
  <2>2. /\ InOrder(q, jobs[i].logs[HostName[q]])
        /\ AllShown(q, jobs[i].logs[HostName[q]]) = 1..Gone(q)
    BY DEF LogInv, JobLogs
  <2>3. q # r => Gone(q)' = Gone(q)
    BY <1>7, <2>1 DEF Gone
  <2>4. Gone(r) = taken[r] - 1 /\ Gone(r)' = taken[r]
    BY <1>7 DEF Gone
  <2>5. CASE i # j \/ HostName[q] # HostName[r]
    <3>1. jobs'[i].logs[HostName[q]] = jobs[i].logs[HostName[q]]
      BY <1>5, <1>6, <2>1, <2>5
    <3>2. q # r
      BY <2>1, <2>5 DEF j
    <3> QED
      BY <2>2, <2>3, <3>1, <3>2
  <2>6. CASE i = j /\ HostName[q] = HostName[r]
    <3> DEFINE log == jobs[i].logs[HostName[q]]
    <3>1. log \in Seq(Line) /\ jobs'[i].logs[HostName[q]] = Append(log, <<r, taken[r]>>)
      BY <1>1, <1>3, <1>5, <1>6, <2>6
    <3> HIDE DEF log
    <3>2. q = r => AllShown(q, log) = 1..(taken[r] - 1)
      BY <2>2, <2>4 DEF log
    <3>3. /\ AllShown(q, Append(log, <<r, taken[r]>>))
               = AllShown(q, log) \cup (IF q = r THEN {taken[r]} ELSE {})
          /\ InOrder(q, Append(log, <<r, taken[r]>>))
      <4>1. InOrder(q, log)
        BY <2>2 DEF log
      <4>2. taken[r] \in Nat /\ <<r, taken[r]>> \in Line
        BY <1>1
      <4> QED
        BY <3>1, <3>2, <4>1, <4>2, ShownAfterAppend
    <3>4. q = r => AllShown(q, Append(log, <<r, taken[r]>>)) = 1..taken[r]
      <4>1. \A n \in Nat \ {0} : (1..(n - 1)) \cup {n} = 1..n
        OBVIOUS
      <4> QED
        BY <1>1, <3>2, <3>3, <4>1
    <3>5. q # r => AllShown(q, Append(log, <<r, taken[r]>>)) = 1..Gone(q)
      BY <2>2, <3>3 DEF log
    <3> QED
      BY <2>3, <2>4, <3>1, <3>3, <3>4, <3>5
  <2> QED
    BY <2>5, <2>6
<1>13. HeldLogs'
  BY <1>7 DEF LogInv, HeldLogs
<1>14. Finished'
  <2> SUFFICES ASSUME NEW i \in Job, NEW q \in RunsOf[i]
               PROVE  /\ task[i] = "applied" => Returned(q)'
                      /\ i \in DOMAIN jobs /\ jobs'[i].status = "Completed" => Returned(q)'
                      /\ \A s \in answer[i] : s.status = "Completed" =>
                           Returned(q)' /\ AllShown(q, s.logs[HostName[q]]) = 1..sunk[q]
    BY <1>6, <1>7 DEF Finished
  <2>1. /\ task[i] = "applied" => Returned(q)
        /\ i \in DOMAIN jobs /\ jobs[i].status = "Completed" => Returned(q)
        /\ \A s \in answer[i] : s.status = "Completed" =>
             Returned(q) /\ AllShown(q, s.logs[HostName[q]]) = 1..sunk[q]
    BY DEF LogInv, Finished
  <2>2. q \in Run
    BY RunsOfJob
  <2> QED
    BY <1>8, <1>9, <2>1, <2>2
<1>15. PrintedInOrder'
  BY <1>7 DEF LogInv, PrintedInOrder
<1>16. CompletedIsComplete'
  <2> SUFFICES ASSUME NEW i \in Job, client[i] = "completed", NEW q \in RunsOf[i]
               PROVE  Returned(q)' /\ AllShown(q, printed[i][HostName[q]]) = 1..sunk[q]
    BY <1>7 DEF CompletedIsComplete
  <2>1. q \in Run /\ Returned(q) /\ AllShown(q, printed[i][HostName[q]]) = 1..sunk[q]
    BY RunsOfJob DEF LogInv, CompletedIsComplete
  <2> QED
    BY <1>9, <2>1
<1> QED
  BY <1>10, <1>11, <1>12, <1>13, <1>14, <1>15, <1>16 DEF LogInv

\* A program is answered with the job's state of the moment.
LEMMA GetJobStatusKeepsLogs ==
  ASSUME IInv, LogInv, NEW j \in Job, GetJobStatus(j) \/ RequestFails(j)
  PROVE  LogInv'
<1>1. /\ UNCHANGED <<jobs, task, exec, sunk, taken, drain, offset, printed>>
      /\ client[j] = "polling" /\ client'[j] \in {"printing", "error"}
      /\ \A i \in Job : i # j => client'[i] = client[i] /\ answer'[i] = answer[i]
      /\ \A s \in answer'[j] : j \in DOMAIN jobs /\ s = jobs[j]
  <2>1. /\ client \in [Job -> {"idle", "polling", "printing"} \cup Over] /\ DOMAIN answer = Job
        /\ client[j] = "polling" => answer[j] = {}
    BY DEF IInv, ClientsOK
  <2>2. CASE GetJobStatus(j)
    <3>1. CASE j \in DOMAIN jobs
      BY <2>1, <2>2, <3>1 DEF GetJobStatus, runVars
    <3>2. CASE j \notin DOMAIN jobs
      BY <2>1, <2>2, <3>2 DEF GetJobStatus, runVars
    <3> QED
      BY <3>1, <3>2
  <2>3. CASE RequestFails(j)
    BY <2>1, <2>3 DEF RequestFails, runVars
  <2> QED
    BY <2>2, <2>3
<1>2. \A r : (Returned(r)' <=> Returned(r)) /\ Gone(r)' = Gone(r)
  BY <1>1 DEF Returned, Gone
<1>3. RunsInStep'
  BY <1>1 DEF LogInv, RunsInStep
<1>4. Chain'
  <2> SUFFICES ASSUME NEW i \in Job, NEW h \in Host
               PROVE  /\ Len(printed[i][h]) = offset[i][h]
                      /\ client'[i] = "idle" => printed[i][h] = <<>>
                      /\ \A s \in answer'[i] : IsPrefix(printed[i][h], s.logs[h])
                      /\ i \in DOMAIN jobs =>
                           /\ IsPrefix(printed[i][h], jobs[i].logs[h])
                           /\ \A s \in answer'[i] : IsPrefix(s.logs[h], jobs[i].logs[h])
    BY <1>1 DEF Chain
  <2>1. /\ Len(printed[i][h]) = offset[i][h]
        /\ client[i] = "idle" => printed[i][h] = <<>>
        /\ \A s \in answer[i] : IsPrefix(printed[i][h], s.logs[h])
        /\ i \in DOMAIN jobs =>
             /\ IsPrefix(printed[i][h], jobs[i].logs[h])
             /\ \A s \in answer[i] : IsPrefix(s.logs[h], jobs[i].logs[h])
    BY DEF LogInv, Chain
  <2>2. i \in DOMAIN jobs => IsPrefix(jobs[i].logs[h], jobs[i].logs[h])
    BY Unchanged DEF IInv
  <2> QED
    BY <1>1, <2>1, <2>2
<1>5. JobLogs'
  BY <1>1, <1>2 DEF LogInv, JobLogs
<1>6. ASSUME NEW r \in RunsOf[j], j \in DOMAIN jobs
      PROVE  /\ InOrder(r, jobs[j].logs[HostName[r]])
             /\ AllShown(r, jobs[j].logs[HostName[r]]) \subseteq 1..taken[r]
             /\ jobs[j].status = "Completed" =>
                  Returned(r) /\ AllShown(r, jobs[j].logs[HostName[r]]) = 1..sunk[r]
  <2>1. /\ InOrder(r, jobs[j].logs[HostName[r]])
        /\ AllShown(r, jobs[j].logs[HostName[r]]) = 1..Gone(r)
        /\ jobs[j].status = "Completed" => Returned(r)
    BY <1>6 DEF LogInv, JobLogs, Finished
  <2>2. r \in Run /\ taken[r] \in Nat
    BY RunsOfJob DEF IInv, RunsOK
  <2>3. 1..Gone(r) \subseteq 1..taken[r]
    BY <2>2 DEF Gone
  <2>4. Returned(r) => Gone(r) = sunk[r]
    BY <2>2, ReturnedFacts DEF LogInv, Gone
  <2> QED
    BY <2>1, <2>3, <2>4
<1>7. HeldLogs'
  <2> SUFFICES ASSUME NEW i \in Job, NEW s \in answer'[i], NEW r \in RunsOf[i]
               PROVE  /\ InOrder(r, s.logs[HostName[r]])
                      /\ AllShown(r, s.logs[HostName[r]]) \subseteq 1..taken[r]
    BY <1>1 DEF HeldLogs
  <2> QED
    BY <1>1, <1>6 DEF LogInv, HeldLogs
<1>8. Finished'
  <2> SUFFICES ASSUME NEW i \in Job, NEW r \in RunsOf[i]
               PROVE  /\ task[i] = "applied" => Returned(r)
                      /\ i \in DOMAIN jobs /\ jobs[i].status = "Completed" => Returned(r)
                      /\ \A s \in answer'[i] : s.status = "Completed" =>
                           Returned(r) /\ AllShown(r, s.logs[HostName[r]]) = 1..sunk[r]
    BY <1>1 DEF Finished, Returned
  <2> QED
    BY <1>1, <1>6 DEF LogInv, Finished
<1>9. PrintedInOrder'
  BY <1>1 DEF LogInv, PrintedInOrder
<1>10. CompletedIsComplete'
  BY <1>1 DEF LogInv, CompletedIsComplete, Returned
<1> QED
  BY <1>3, <1>4, <1>5, <1>7, <1>8, <1>9, <1>10 DEF LogInv

LEMMA MaxIsUpper == \A m, n \in Nat : m <= n => Max({m, n}) = n
<1> TAKE m, n \in Nat
<1>1. m <= n => \A x \in {m, n} : (\A y \in {m, n} : x >= y) <=> x = n
  OBVIOUS
<1> QED
  BY <1>1 DEF Max

\* A turn of the loop brings what is printed up to what the program holds.
LEMMA ShowNewKeepsLogs ==
  ASSUME IInv, LogInv, NEW j \in Job, ShowNew(j)
  PROVE  LogInv'
<1>1. PICK s \in answer[j] :
        /\ client[j] = "printing"
        /\ printed' = [printed EXCEPT ![j] = [h \in Host |->
             @[h] \o SubSeq(s.logs[h], offset[j][h] + 1, Len(s.logs[h]))]]
        /\ offset' = [offset EXCEPT ![j] = [h \in Host |-> Max({@[h], Len(s.logs[h])})]]
        /\ answer' = [answer EXCEPT ![j] = {}]
        /\ client' = [client EXCEPT ![j] = Verdict(s.status)]
        /\ UNCHANGED <<jobs, task, exec, sunk, taken, drain>>
  BY DEF ShowNew, runVars
<1>2. s.logs \in [Host -> Seq(Line)] /\ s.status \in Status
  BY DEF IInv, ClientsOK, JobState
<1>3. ASSUME NEW h \in Host
      PROVE  printed'[j][h] = s.logs[h] /\ offset'[j][h] = Len(s.logs[h])
  <2>1. /\ s.logs[h] \in Seq(Line) /\ printed[j][h] \in Seq(Line)
        /\ offset[j][h] = Len(printed[j][h]) /\ IsPrefix(printed[j][h], s.logs[h])
    BY <1>2 DEF IInv, ClientsOK, LogInv, Chain
  <2>2. printed'[j][h] = printed[j][h] \o SubSeq(s.logs[h], offset[j][h] + 1, Len(s.logs[h]))
    BY <1>1 DEF IInv, ClientsOK
  <2>3. offset'[j][h] = Max({offset[j][h], Len(s.logs[h])})
    BY <1>1 DEF IInv, ClientsOK
  <2>4. printed'[j][h] = s.logs[h]
    BY <2>1, <2>2, CatchingUp
  <2>5. Len(printed[j][h]) \in Nat /\ Len(s.logs[h]) \in Nat
    BY <2>1
  <2>6. Len(printed[j][h]) <= Len(s.logs[h])
    BY <2>1, PrefixMeans
  <2>7. offset'[j][h] = Len(s.logs[h])
    BY <2>1, <2>3, <2>5, <2>6, MaxIsUpper
  <2> QED
    BY <2>4, <2>7
<1>4. /\ answer'[j] = {} /\ client'[j] = Verdict(s.status)
      /\ \A i \in Job : i # j => /\ client'[i] = client[i] /\ answer'[i] = answer[i]
                                 /\ printed'[i] = printed[i] /\ offset'[i] = offset[i]
  BY <1>1 DEF IInv, ClientsOK
<1>5. client'[j] # "idle" /\ (client'[j] = "completed" => s.status = "Completed")
  BY <1>2, <1>4 DEF Verdict, Status
<1>6. \A r : (Returned(r)' <=> Returned(r)) /\ Gone(r)' = Gone(r)
  BY <1>1 DEF Returned, Gone
<1>7. RunsInStep'
  BY <1>1 DEF LogInv, RunsInStep
<1>8. Chain'
  <2> SUFFICES ASSUME NEW i \in Job, NEW h \in Host
               PROVE  /\ Len(printed'[i][h]) = offset'[i][h]
                      /\ client'[i] = "idle" => printed'[i][h] = <<>>
                      /\ \A t \in answer'[i] : IsPrefix(printed'[i][h], t.logs[h])
                      /\ i \in DOMAIN jobs =>
                           /\ IsPrefix(printed'[i][h], jobs[i].logs[h])
                           /\ \A t \in answer'[i] : IsPrefix(t.logs[h], jobs[i].logs[h])
    BY <1>1 DEF Chain
  <2>1. CASE i = j
    <3>1. j \in DOMAIN jobs => IsPrefix(s.logs[h], jobs[j].logs[h])
      BY DEF LogInv, Chain
    <3> QED
      BY <1>3, <1>4, <1>5, <2>1, <3>1
  <2>2. CASE i # j
    BY <1>4, <2>2 DEF LogInv, Chain
  <2> QED
    BY <2>1, <2>2
<1>9. JobLogs'
  BY <1>1, <1>6 DEF LogInv, JobLogs
<1>10. HeldLogs'
  <2> SUFFICES ASSUME NEW i \in Job, NEW t \in answer'[i], NEW r \in RunsOf[i]
               PROVE  /\ InOrder(r, t.logs[HostName[r]])
                      /\ AllShown(r, t.logs[HostName[r]]) \subseteq 1..taken[r]
    BY <1>1 DEF HeldLogs
  <2> QED
    BY <1>4 DEF LogInv, HeldLogs
<1>11. Finished'
  <2> SUFFICES ASSUME NEW i \in Job, NEW r \in RunsOf[i]
               PROVE  /\ task[i] = "applied" => Returned(r)
                      /\ i \in DOMAIN jobs /\ jobs[i].status = "Completed" => Returned(r)
                      /\ \A t \in answer'[i] : t.status = "Completed" =>
                           Returned(r) /\ AllShown(r, t.logs[HostName[r]]) = 1..sunk[r]
    BY <1>1 DEF Finished, Returned
  <2> QED
    BY <1>4 DEF LogInv, Finished
<1>12. PrintedInOrder'
  <2> SUFFICES ASSUME NEW i \in Job, NEW r \in RunsOf[i]
               PROVE  /\ InOrder(r, printed'[i][HostName[r]])
                      /\ AllShown(r, printed'[i][HostName[r]]) \subseteq 1..taken[r]
    BY <1>1 DEF PrintedInOrder
  <2>1. HostName[r] \in Host
    BY RunsOfJob, RunFacts
  <2>2. CASE i = j
    BY <1>3, <2>1, <2>2 DEF LogInv, HeldLogs
  <2>3. CASE i # j
    BY <1>4, <2>3 DEF LogInv, PrintedInOrder
  <2> QED
    BY <2>2, <2>3
<1>13. CompletedIsComplete'
  <2> SUFFICES ASSUME NEW i \in Job, client'[i] = "completed", NEW r \in RunsOf[i]
               PROVE  Returned(r) /\ AllShown(r, printed'[i][HostName[r]]) = 1..sunk[r]
    BY <1>1 DEF CompletedIsComplete, Returned
  <2>1. HostName[r] \in Host
    BY RunsOfJob, RunFacts
  <2>2. CASE i = j
    BY <1>3, <1>5, <2>1, <2>2 DEF LogInv, Finished
  <2>3. CASE i # j
    BY <1>4, <2>3 DEF LogInv, CompletedIsComplete
  <2> QED
    BY <2>2, <2>3
<1> QED
  BY <1>7, <1>8, <1>9, <1>10, <1>11, <1>12, <1>13 DEF LogInv

LEMMA NextLogInv == IInv /\ LogInv /\ [Next]_vars => LogInv'
<1> SUFFICES ASSUME IInv, LogInv, [Next]_vars PROVE LogInv'
  OBVIOUS
<1>1. CASE UNCHANGED vars
  <2>1. UNCHANGED <<jobs, task, exec, sunk, taken, drain, client, answer, offset, printed>>
    BY <1>1 DEF vars, runVars, clientVars
  <2> QED
    BY <2>1 DEF LogInv, RunsInStep, Chain, JobLogs, HeldLogs, Finished, Returned, Gone,
       PrintedInOrder, CompletedIsComplete
<1>2. ASSUME NEW j \in Job, JobStep(j) PROVE LogInv'
  BY <1>2, RunPlanKeepsLogs, TaskStepKeepsLogs, SetStatusKeepsLogs,
     GetJobStatusKeepsLogs, ShowNewKeepsLogs DEF JobStep
<1>3. ASSUME NEW r \in Run, RunStep(r) PROVE LogInv'
  BY <1>3, RunStepKeepsLogs, AppendKeepsLogs DEF RunStep
<1> QED
  BY <1>1, <1>2, <1>3 DEF Next, Terminated

\* The invariant of the logs, on top of that of the job states.
THEOREM LogInvariance == Spec => []LogInv
<1> QED
  BY InitLogInv, NextLogInv, ControllerInvariance, PTL DEF Spec

-----------------------------------------------------------------------------
(***************************************************************************)
(* The theorems.                                                           *)
(***************************************************************************)
\* Every variable keeps its type, and the cache its bound: a message is appended
\* to a job's state under the name of a host, and what a program holds is a job's
\* state of some earlier moment.
THEOREM ControllerTypeCorrect == Spec => []TypeOK
<1>1. IInv => TypeOK
  BY DEF IInv, JobsOK, TaskOK, RunsOK, ClientsOK, TypeOK
<1> QED
  BY <1>1, ControllerInvariance, PTL

\* No writer of a job's state undoes another: logs grow, a status once decided
\* stays, and a job that the cache has lost does not come back.
THEOREM JobsGrow == Spec => JobsOnlyGrow
<1>1. IInv /\ [Next]_vars => [Grows]_vars
  BY NextIInv
<1> QED
  BY <1>1, ControllerInvariance, PTL DEF Spec, JobsOnlyGrow, Grows

\* What a program prints of a run is what the run logged, from its first message
\* on, in order, without a gap and none twice: AppendLogs may run between any two
\* polls, another run may append under the same host's name, and the cache may
\* evict the job between two answers.
THEOREM PrintsInOrder == Spec => []PrintedInOrder
<1>1. LogInv => PrintedInOrder
  BY DEF LogInv
<1> QED
  BY <1>1, LogInvariance, PTL

\* The verdict "completed" reaches a program only when every run of its job has
\* returned, and by then the program has printed the last message of each.
THEOREM CompletedMeansComplete == Spec => []CompletedIsComplete
<1>1. LogInv => CompletedIsComplete
  BY DEF LogInv
<1> QED
  BY <1>1, LogInvariance, PTL
=============================================================================
