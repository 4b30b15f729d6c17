-------------------------- MODULE LocalApplyProofs --------------------------
(***************************************************************************)
(* The safety of one application on this machine, for every plan, every    *)
(* capacity of the log channel and any behaviour of the children.          *)
(***************************************************************************)
EXTENDS LocalApply, LogChannelProofs, FiniteSetTheorems

\* Where the task of the executor has a child.
WithChild == {"poll", "select", "emit", "blank"}

\* The executor's place tells how far it is in the plan.
Position ==
  /\ completed = task - 1
  /\ task <= NumTasks => step <= Len(Ensures[task]) + 1
  /\ pc = "check" => task <= NumTasks /\ IsCheck(task, step)
  /\ pc \in WithChild => task <= NumTasks /\ ~IsCheck(task, step) /\ ~failed
  /\ pc \in {"end", "ok"} => task = NumTasks + 1

\* Each task before this one has had its child, and none after it.
Spawned ==
  /\ Len(spawned) \in {task - 1, task}
  /\ pc \in WithChild => Len(spawned) = task
  /\ pc \notin WithChild \cup {"err"} => Len(spawned) = task - 1
  /\ \A i \in 1..Len(spawned) : spawned[i] = i

\* Without a failure, every ensure of this task that was looked at has passed.
Answered ==
  ~failed /\ task <= NumTasks => \A e \in 1..(step - 1) : <<task, e>> \in passed

\* Only tasks that were spawned have children.
Children == \A t \in Task : t \in alive => t <= Len(spawned)

\* The loop is left with the child alive only at the end of both pipes.
LeftAtEof == pc = "blank" /\ task \in alive => \A p \in Pipe : AtEof(p)

\* The sender lives until do_apply returns, and Ok comes after End was drained.
Closing ==
  /\ ClosedAtEnd
  /\ txAlive <=> outcome = "none"
  /\ drain = "lost" => ~txAlive
  /\ outcome = "ok" => drain = "ended"

\* End is logged last.  As long as the log is not lost, what was logged of the
\* chunks that were read is all but the one in the executor's hand.
InHand == IF pc = "emit" THEN 1 ELSE 0

Logged ==
  /\ Fifo
  /\ \A i \in 1..Len(sunk) : sunk[i] = End => i = Len(sunk) /\ pc = "ok"
  /\ drain = "ended" => chan = <<>> /\ pc = "ok"
  /\ drain \in {"running", "ended"} => Outputs(sunk) + InHand = Cardinality(ChunksRead)

IInv ==
  /\ TypeOK /\ Position /\ Spawned /\ Answered /\ EnsuredBeforeSpawn
  /\ Children /\ OrphansAreSilent /\ LeftAtEof /\ Closing /\ Logged

-----------------------------------------------------------------------------
(***************************************************************************)
(* The plan, and the channel.                                              *)
(***************************************************************************)
LEMMA PlanFacts ==
  /\ NumTasks \in Nat \ {0}
  /\ \A t \in 1..NumTasks : Len(Ensures[t]) \in Nat
  /\ "poll" \in WithChild /\ "ensure" \notin WithChild
<1>1. NumTasks \in Nat \ {0}
  BY PlanAssumption, EmptySeq, LenProperties DEF NumTasks
<1>2. ASSUME NEW t \in 1..NumTasks PROVE Len(Ensures[t]) \in Nat
  <2>1. Ensures[t] \in Seq(EnsureKind)
    BY PlanAssumption, ElementOfSeq DEF NumTasks
  <2> QED
    BY <2>1, LenProperties
<1> QED
  BY <1>1, <1>2 DEF WithChild

\* The channel changes only by steps of the log pipeline.
LEMMA NextIsChannelStep == ASSUME [Next]_vars PROVE ChannelStep
<1>1. ASSUME NEW from, NEW to, NEW m \in Message, SinkAt(from, m, to)
      PROVE  ChannelStep
  BY <1>1 DEF SinkAt, ChannelStep
<1>2. CASE Begin \/ Steps \/ NextEnsure \/ EnsuresFailed \/ AllDone \/ Finish
  BY <1>1, <1>2 DEF Begin, Steps, NextEnsure, EnsuresFailed, AllDone, Finish,
     Message, Batch, End
<1>3. CASE Emit \/ TaskDone
  BY <1>3 DEF Emit, TaskDone, ChannelStep, Message, Batch, End
<1>4. CASE Check \/ Spawn \/ Poll \/ ReadChunk \/ PipesEnd
  BY <1>4 DEF Check, Spawn, Poll, ReadChunk, PipesEnd, ChannelStep
<1>5. CASE Child \/ Report \/ UNCHANGED vars
  BY <1>5 DEF Child, ChildWrites, ChildCloses, ChildExits, Report, ChannelStep, vars
<1>6. CASE ReturnError \/ Join
  BY <1>6 DEF ReturnError, Join, ChannelStep
<1>7. CASE (Drain \/ DrainPanics) /\ UNCHANGED <<execVars, childVars, applyVars>>
  BY <1>7 DEF ChannelStep
<1> QED
  BY <1>2, <1>3, <1>4, <1>5, <1>6, <1>7 DEF Next, Executor, Terminated

-----------------------------------------------------------------------------
(***************************************************************************)
(* What the steps do to the executor's variables.                          *)
(***************************************************************************)
\* A step at which the executor goes from one await to the next, in its task.
Moves ==
  /\ UNCHANGED <<task, step, failed, completed, spawned, passed, childVars, applyVars>>
  /\ \/ pc' = "err"
     \/ pc = "applying" /\ pc' = "steps"
     \/ pc = "steps" /\ pc' = "ensure"
     \/ pc = "ensure" /\ pc' = "check" /\ task <= NumTasks /\ IsCheck(task, step)
     \/ pc = "ensure" /\ pc' = "end" /\ task > NumTasks
     \/ pc = "end" /\ pc' = "ok"
     \/ pc = "poll" /\ pc' = "select"
     \/ pc = "poll" /\ pc' = "blank" /\ task \notin alive
     \/ pc = "select" /\ pc' = "blank" /\ \A p \in Pipe : AtEof(p)
     \/ pc = "emit" /\ pc' = "poll"
  /\ pc \in {"applying", "steps", "ensure", "end", "poll", "select", "emit"}

LEMMA ExecutorSteps ==
  ASSUME Executor
  PROVE  Moves \/ Check \/ Spawn \/ ReadChunk \/ TaskDone
<1> USE DEF SinkAt, Goto, Moves, applyVars
<1>1. CASE Begin \/ Steps \/ NextEnsure
  BY <1>1 DEF Begin, Steps, NextEnsure
<1>2. CASE EnsuresFailed \/ AllDone \/ Finish
  BY <1>2 DEF EnsuresFailed, AllDone, Finish
<1>3. CASE Poll \/ PipesEnd \/ Emit
  BY <1>3 DEF Poll, PipesEnd, Emit
<1> QED
  BY <1>1, <1>2, <1>3 DEF Executor

\* The other steps leave the executor where it is.
LEMMA OtherSteps ==
  ASSUME [Next]_vars, ~Executor PROVE UNCHANGED execVars
<1> QED
  BY DEF Next, Child, ChildWrites, ChildCloses, ChildExits, ReturnError, Join, Report,
         Terminated, vars

LEMMA OthersLeaveChildren ==
  ASSUME [Next]_vars, ~Executor, ~Child PROVE UNCHANGED childVars
<1> QED
  BY DEF Next, ReturnError, Join, Report, Terminated, vars

\* What a child does: nothing is opened or read, and only this task's pipes are
\* written, while somebody holds them open.
LEMMA ChildSteps ==
  ASSUME TypeOK, Child
  PROVE  /\ UNCHANGED <<execVars, chanVars, applyVars, read>>
         /\ alive' \subseteq alive /\ open' \subseteq open
         /\ written' \in [Task \X Pipe -> 0..MaxChunks]
         /\ \A t \in Task : \A p \in Pipe :
              written'[<<t, p>>] = written[<<t, p>>] \/ (t = task /\ <<t, p>> \in open)
<1> USE ChunksAssumption DEF TypeOK
<1>1. ASSUME NEW t \in Task, ChildExits(t)
      PROVE  /\ UNCHANGED <<execVars, chanVars, applyVars, read, written>>
             /\ alive' \subseteq alive /\ open' \subseteq open
  BY <1>1 DEF ChildExits
<1>2. ASSUME NEW t \in Task, NEW p \in Pipe, ChildCloses(t, p)
      PROVE  /\ UNCHANGED <<execVars, chanVars, applyVars, read, written>>
             /\ alive' \subseteq alive /\ open' \subseteq open
  BY <1>2 DEF ChildCloses
<1>3. ASSUME NEW t \in Task, NEW p \in Pipe, ChildWrites(t, p)
      PROVE  /\ UNCHANGED <<execVars, chanVars, applyVars, read, alive, open>>
             /\ written' \in [Task \X Pipe -> 0..MaxChunks]
             /\ \A u \in Task : \A q \in Pipe :
                  written'[<<u, q>>] = written[<<u, q>>] \/ (u = task /\ <<u, q>> \in open)
  <2>1. /\ <<t, p>> \in open /\ t = task /\ <<t, p>> \in Task \X Pipe
        /\ written[<<t, p>>] \in 0..MaxChunks /\ written[<<t, p>>] < MaxChunks
        /\ written' = [written EXCEPT ![<<t, p>>] = written[<<t, p>>] + 1]
    BY <1>3 DEF ChildWrites
  <2>2. written' \in [Task \X Pipe -> 0..MaxChunks]
    BY <2>1
  <2>3. ASSUME NEW u \in Task, NEW q \in Pipe, <<u, q>> # <<t, p>>
        PROVE  written'[<<u, q>>] = written[<<u, q>>]
    BY <2>1, <2>3
  <2>4. \A u \in Task : \A q \in Pipe : <<u, q>> = <<t, p>> => u = task /\ <<u, q>> \in open
    BY <2>1
  <2> QED
    BY <1>3, <2>2, <2>3, <2>4 DEF ChildWrites
<1> QED
  BY <1>1, <1>2, <1>3 DEF Child

-----------------------------------------------------------------------------
(***************************************************************************)
(* Each part of the invariant is kept.                                     *)
(***************************************************************************)
LEMMA PositionStep ==
  ASSUME TypeOK, Position, [Next]_vars PROVE Position'
<1> USE PlanFacts DEF Position, WithChild, IsCheck
<1>types. task \in 1..(NumTasks + 1) /\ step \in Nat \ {0}
  BY DEF TypeOK
<1>1. CASE Moves
  BY <1>1, <1>types DEF Moves
<1>2. CASE Check
  BY <1>2, <1>types DEF Check, Goto
<1>3. CASE Spawn
  BY <1>3, <1>types DEF Spawn, Goto
<1>4. CASE ReadChunk
  BY <1>4, <1>types DEF ReadChunk, Goto
<1>5. CASE TaskDone
  BY <1>5, <1>types DEF TaskDone, Goto
<1>6. CASE UNCHANGED execVars
  BY <1>6 DEF execVars
<1> QED
  BY <1>1, <1>2, <1>3, <1>4, <1>5, <1>6, ExecutorSteps, OtherSteps

LEMMA TypeStep ==
  ASSUME TypeOK, Position, [Next]_vars PROVE TypeOK'
<1>0. ChannelTypeOK'
  BY NextIsChannelStep, ChannelTypeStep DEF TypeOK
<1>1. /\ pc' \in ExecPc
      /\ task' \in 1..(NumTasks + 1)
      /\ step' \in Nat \ {0}
      /\ completed' \in 0..NumTasks
  <2> USE PlanFacts DEF TypeOK, Position, WithChild, IsCheck, ExecPc
  <2>1. CASE Moves
    BY <2>1 DEF Moves
  <2>2. CASE Check \/ Spawn \/ ReadChunk
    BY <2>2 DEF Check, Spawn, ReadChunk, Goto
  <2>3. CASE TaskDone
    BY <2>3 DEF TaskDone, Goto
  <2>4. CASE UNCHANGED execVars
    BY <2>4 DEF execVars
  <2> QED
    BY <2>1, <2>2, <2>3, <2>4, ExecutorSteps, OtherSteps
<1>2. failed' \in BOOLEAN
  <2>1. CASE Check
    BY <2>1 DEF Check, TypeOK
  <2>2. CASE Moves \/ Spawn \/ ReadChunk \/ TaskDone \/ UNCHANGED execVars
    BY <2>2 DEF Moves, Spawn, ReadChunk, TaskDone, execVars, TypeOK
  <2> QED
    BY <2>1, <2>2, ExecutorSteps, OtherSteps
<1>3. spawned' \in Seq(Task) /\ passed' \subseteq Task \X Nat
  <2>1. CASE Spawn
    <3>1. task \in Task
      BY <2>1, PlanFacts DEF Spawn, TypeOK, Task
    <3>2. Append(spawned, task) \in Seq(Task)
      BY <3>1, AppendProperties DEF TypeOK
    <3>3. spawned' \in {spawned, Append(spawned, task)} /\ passed' = passed
      BY <2>1 DEF Spawn
    <3> QED
      BY <3>2, <3>3 DEF TypeOK
  <2>2. CASE Check
    <3>1. task \in Task /\ step \in Nat
      BY <2>2, PlanFacts DEF Check, Goto, Position, TypeOK, Task
    <3> QED
      BY <2>2, <3>1 DEF Check, TypeOK
  <2>3. CASE Moves \/ ReadChunk \/ TaskDone \/ UNCHANGED execVars
    BY <2>3 DEF Moves, ReadChunk, TaskDone, execVars, TypeOK
  <2> QED
    BY <2>1, <2>2, <2>3, ExecutorSteps, OtherSteps
<1>4. /\ alive' \subseteq Task
      /\ open' \subseteq Task \X Pipe
      /\ written' \in [Task \X Pipe -> 0..MaxChunks]
      /\ read' \in [Task \X Pipe -> 0..MaxChunks]
  <2>1. CASE Spawn
    <3>1. task \in Task
      BY <2>1, PlanFacts DEF Spawn, TypeOK, Task
    <3> QED
      BY <2>1, <3>1 DEF Spawn, TypeOK
  <2>2. CASE ReadChunk
    <3>1. PICK p \in Pipe : /\ read[<<task, p>>] < written[<<task, p>>]
                            /\ read' = [read EXCEPT ![<<task, p>>] = @ + 1]
      BY <2>2 DEF ReadChunk
    <3>2. <<task, p>> \in Task \X Pipe
      BY <2>2, PlanFacts DEF ReadChunk, Goto, Position, WithChild, TypeOK, Task
    <3>3. read[<<task, p>>] + 1 \in 0..MaxChunks
      BY <3>1, <3>2, ChunksAssumption DEF TypeOK
    <3> QED
      BY <2>2, <3>1, <3>2, <3>3 DEF ReadChunk, TypeOK
  <2>3. CASE Child
    BY <2>3, ChildSteps DEF TypeOK
  <2>4. CASE Moves \/ Check \/ TaskDone \/ UNCHANGED childVars
    BY <2>4 DEF Moves, Check, TaskDone, childVars, TypeOK
  <2> QED
    BY <2>1, <2>2, <2>3, <2>4, ExecutorSteps, OthersLeaveChildren
<1>5. outcome' \in {"none", "ok", "error"} /\ report' \in {"none", "completed", "message"}
  <2>1. CASE ReturnError \/ Join \/ Report
    BY <2>1 DEF ReturnError, Join, Report, TypeOK
  <2>2. CASE ~(ReturnError \/ Join \/ Report)
    <3>1. UNCHANGED applyVars
      BY <2>2, ExecutorSteps, ChildSteps
      DEF Next, Moves, Check, Spawn, ReadChunk, TaskDone, Goto, Terminated, vars
    <3> QED
      BY <3>1 DEF applyVars, TypeOK
  <2> QED
    BY <2>1, <2>2
<1> QED
  BY <1>0, <1>1, <1>2, <1>3, <1>4, <1>5 DEF TypeOK

LEMMA SpawnedStep ==
  ASSUME TypeOK, Position, Spawned, [Next]_vars PROVE Spawned'
<1> USE DEF Spawned, WithChild
<1>1. CASE Moves
  BY <1>1 DEF Moves
<1>2. CASE Check \/ ReadChunk
  BY <1>2 DEF Check, ReadChunk, Goto
<1>3. CASE TaskDone
  BY <1>3 DEF TaskDone, Goto, TypeOK
<1>4. CASE Spawn
  <2>1. CASE pc' = "err" /\ spawned' = spawned
    BY <1>4, <2>1 DEF Spawn, Goto
  <2>2. CASE pc' = "poll" /\ spawned' = Append(spawned, task)
    <3>1. /\ Len(Append(spawned, task)) = Len(spawned) + 1
          /\ \A i \in 1..Len(spawned) : Append(spawned, task)[i] = spawned[i]
          /\ Append(spawned, task)[Len(spawned) + 1] = task
          /\ Len(spawned) \in Nat
      BY <1>4, PlanFacts, AppendProperties, LenProperties DEF Spawn, TypeOK, Task
    <3>2. Len(spawned) = task - 1 /\ task \in Nat /\ task' = task
      BY <1>4 DEF Spawn, Goto, TypeOK
    <3>3. Len(spawned') = task
      BY <2>2, <3>1, <3>2
    <3>4. \A i \in 1..Len(spawned') : spawned'[i] = i
      BY <2>2, <3>1, <3>2
    <3> QED
      BY <2>2, <3>2, <3>3, <3>4
  <2> QED
    BY <1>4, <2>1, <2>2 DEF Spawn, Goto
<1>5. CASE UNCHANGED execVars
  BY <1>5 DEF execVars
<1> QED
  BY <1>1, <1>2, <1>3, <1>4, <1>5, ExecutorSteps, OtherSteps

LEMMA AnsweredStep ==
  ASSUME TypeOK, Position, Answered, [Next]_vars PROVE Answered'
<1> USE DEF Answered
<1>1. CASE Moves \/ Spawn \/ ReadChunk
  BY <1>1 DEF Moves, Spawn, ReadChunk
<1>2. CASE Check
  <2>1. CASE failed' \/ step' = step
    BY <1>2, <2>1 DEF Check, TypeOK
  <2>2. CASE ~failed' /\ step' # step
    <3>1. /\ step' = step + 1 /\ task' = task /\ ~failed /\ step \in Nat
          /\ passed' = passed \cup {<<task, step>>}
      BY <1>2, <2>2 DEF Check, TypeOK
    <3>2. \A e \in 1..(step' - 1) : e \in 1..(step - 1) \/ e = step
      BY <3>1
    <3> QED
      BY <3>1, <3>2
  <2> QED
    BY <2>1, <2>2
<1>3. CASE TaskDone
  BY <1>3 DEF TaskDone, Goto, SinkFails
<1>4. CASE UNCHANGED execVars
  BY <1>4 DEF execVars
<1> QED
  BY <1>1, <1>2, <1>3, <1>4, ExecutorSteps, OtherSteps

LEMMA EnsuredBeforeSpawnStep ==
  ASSUME TypeOK, Position, Spawned, Answered, EnsuredBeforeSpawn, [Next]_vars
  PROVE  EnsuredBeforeSpawn'
<1>1. passed \subseteq passed'
  <2>1. CASE Check
    BY <2>1 DEF Check
  <2>2. CASE Moves \/ Spawn \/ ReadChunk \/ TaskDone \/ UNCHANGED execVars
    BY <2>2 DEF Moves, Spawn, ReadChunk, TaskDone, execVars
  <2> QED
    BY <2>1, <2>2, ExecutorSteps, OtherSteps
<1>2. CASE spawned' = spawned
  BY <1>1, <1>2 DEF EnsuredBeforeSpawn
<1>3. CASE Spawn /\ spawned' # spawned
  <2>1. /\ Len(spawned') = Len(spawned) + 1 /\ Len(spawned) \in Nat
        /\ \A i \in 1..Len(spawned) : spawned'[i] = spawned[i]
        /\ spawned'[Len(spawned) + 1] = task
    <3>1. spawned' = Append(spawned, task) /\ task \in Task
      BY <1>3, PlanFacts DEF Spawn, TypeOK, Task
    <3> QED
      BY <3>1, AppendProperties, LenProperties DEF TypeOK
  <2>2. Len(spawned) + 1 = task
    BY <1>3, <2>1 DEF Spawn, Goto, Spawned, WithChild, TypeOK
  <2>3. \A e \in 1..Len(Ensures[task]) : <<task, e>> \in passed
    <3>1. task \in 1..NumTasks /\ step = Len(Ensures[task]) + 1
      BY <1>3, PlanFacts DEF Spawn, Position, IsCheck, TypeOK
    <3>2. Len(Ensures[task]) \in Nat
      BY <3>1, PlanFacts
    <3> QED
      BY <1>3, <3>1, <3>2 DEF Spawn, Answered
  <2>4. ASSUME NEW i \in 1..Len(spawned')
        PROVE  spawned'[i] = i /\ \A e \in 1..Len(Ensures[i]) : <<i, e>> \in passed'
    <3>1. CASE i \in 1..Len(spawned)
      BY <1>1, <2>1, <3>1 DEF EnsuredBeforeSpawn
    <3>2. CASE i = task
      BY <1>1, <2>1, <2>2, <2>3, <3>2
    <3> QED
      BY <2>1, <2>2, <3>1, <3>2
  <2> QED
    BY <2>4 DEF EnsuredBeforeSpawn
<1>4. CASE Moves \/ Check \/ ReadChunk \/ TaskDone \/ UNCHANGED execVars
  BY <1>2, <1>4 DEF Moves, Check, ReadChunk, TaskDone, execVars
<1> QED
  BY <1>2, <1>3, <1>4, ExecutorSteps, OtherSteps

-----------------------------------------------------------------------------
(***************************************************************************)
(* The children.                                                           *)
(***************************************************************************)
LEMMA ChildrenStep ==
  ASSUME TypeOK, Position, Spawned, Children, [Next]_vars PROVE Children'
<1> USE DEF Children
<1>1. CASE Spawn
  <2>1. spawned' # spawned => spawned' = Append(spawned, task) /\ alive' = alive \cup {task}
    BY <1>1 DEF Spawn
  <2>2. CASE spawned' = spawned /\ alive' = alive
    BY <2>2
  <2>3. CASE spawned' = Append(spawned, task) /\ alive' = alive \cup {task}
    <3>1. Len(spawned') = Len(spawned) + 1 /\ Len(spawned) \in Nat
      BY <1>1, <2>3, PlanFacts, AppendProperties, LenProperties DEF Spawn, TypeOK, Task
    <3>2. Len(spawned) + 1 = task
      BY <1>1, <3>1 DEF Spawn, Goto, Spawned, WithChild, TypeOK
    <3> QED
      BY <2>3, <3>1, <3>2 DEF Task
  <2> QED
    BY <1>1, <2>2, <2>3 DEF Spawn
<1>2. CASE Child
  BY <1>2, ChildSteps DEF execVars
<1>3. CASE Moves \/ Check \/ ReadChunk \/ TaskDone
  BY <1>3 DEF Moves, Check, ReadChunk, TaskDone, childVars
<1>4. CASE UNCHANGED <<execVars, childVars>>
  BY <1>4 DEF execVars, childVars
<1> QED
  BY <1>1, <1>2, <1>3, <1>4, ExecutorSteps, OtherSteps, OthersLeaveChildren

LEMMA LeftAtEofStep ==
  ASSUME TypeOK, LeftAtEof, [Next]_vars PROVE LeftAtEof'
<1> USE DEF LeftAtEof, AtEof
<1>1. CASE Moves
  BY <1>1 DEF Moves, childVars
<1>2. CASE Check \/ ReadChunk \/ Spawn
  BY <1>2 DEF Check, ReadChunk, Spawn, Goto
<1>3. CASE TaskDone
  BY <1>3 DEF TaskDone, Goto
<1>4. CASE Child
  <2> SUFFICES ASSUME pc' = "blank", task' \in alive', NEW p \in Pipe
               PROVE  /\ <<task', p>> \notin open'
                      /\ read'[<<task', p>>] = written'[<<task', p>>]
    OBVIOUS
  <2>1. pc = "blank" /\ task' = task /\ task \in alive /\ task \in Task
    BY <1>4, ChildSteps DEF execVars, TypeOK
  <2>2. <<task, p>> \notin open /\ read[<<task, p>>] = written[<<task, p>>]
    BY <2>1
  <2> QED
    BY <1>4, <2>1, <2>2, ChildSteps
<1>5. CASE UNCHANGED <<execVars, childVars>>
  BY <1>5 DEF execVars, childVars
<1> QED
  BY <1>1, <1>2, <1>3, <1>4, <1>5, ExecutorSteps, OtherSteps, OthersLeaveChildren

LEMMA OrphansStep ==
  ASSUME TypeOK, Position, Spawned, Children, LeftAtEof, OrphansAreSilent, [Next]_vars
  PROVE  OrphansAreSilent'
<1> SUFFICES ASSUME NEW t \in Task, t < task', t \in alive', NEW p \in Pipe
             PROVE  <<t, p>> \notin open' /\ read'[<<t, p>>] = written'[<<t, p>>]
  BY DEF OrphansAreSilent
<1>types. t \in Nat /\ task \in Nat
  BY PlanFacts DEF Task, TypeOK
<1>1. CASE UNCHANGED childVars /\ task' = task
  BY <1>1 DEF OrphansAreSilent, childVars
<1>2. CASE Moves \/ Check
  BY <1>1, <1>2 DEF Moves, Check
<1>3. CASE Spawn
  <2>1. t # task /\ t \in alive /\ t < task
    BY <1>3, <1>types DEF Spawn
  <2>2. <<t, p>> \notin open /\ read[<<t, p>>] = written[<<t, p>>]
    BY <2>1 DEF OrphansAreSilent
  <2>3. open' \subseteq open \cup ({task} \X Pipe) /\ UNCHANGED <<read, written>>
    BY <1>3 DEF Spawn
  <2> QED
    BY <2>1, <2>2, <2>3
<1>4. CASE ReadChunk
  <2>1. t < task /\ t \in alive /\ UNCHANGED <<open, written>>
    BY <1>4 DEF ReadChunk
  <2>2. <<t, p>> \notin open /\ read[<<t, p>>] = written[<<t, p>>]
    BY <2>1 DEF OrphansAreSilent
  <2>3. PICK q \in Pipe : read' = [read EXCEPT ![<<task, q>>] = @ + 1]
    BY <1>4 DEF ReadChunk
  <2>4. <<t, p>> # <<task, q>> /\ <<t, p>> \in Task \X Pipe
    BY <1>types, <2>1
  <2>5. read'[<<t, p>>] = read[<<t, p>>]
    BY <2>3, <2>4 DEF TypeOK
  <2> QED
    BY <2>1, <2>2, <2>5
<1>5. CASE TaskDone
  <2>1. pc = "blank" /\ UNCHANGED childVars /\ task' \in {task, task + 1}
    BY <1>5 DEF TaskDone, Goto
  <2>2. CASE t = task
    BY <2>1, <2>2 DEF LeftAtEof, AtEof, childVars
  <2>3. CASE t < task
    BY <2>1, <2>3 DEF OrphansAreSilent, childVars
  <2> QED
    BY <1>types, <2>1, <2>2, <2>3
<1>6. CASE Child
  <2>1. task' = task /\ t \in alive
    BY <1>6, ChildSteps DEF execVars
  <2>2. <<t, p>> \notin open /\ read[<<t, p>>] = written[<<t, p>>]
    BY <2>1 DEF OrphansAreSilent
  <2> QED
    BY <1>6, <2>2, ChildSteps
<1>7. CASE UNCHANGED execVars /\ UNCHANGED childVars
  BY <1>1, <1>7 DEF execVars
<1> QED
  BY <1>2, <1>3, <1>4, <1>5, <1>6, <1>7, ExecutorSteps, OtherSteps, OthersLeaveChildren

-----------------------------------------------------------------------------
(***************************************************************************)
(* The end of the log.                                                     *)
(***************************************************************************)
LEMMA ClosingStep ==
  ASSUME TypeOK, Closing, [Next]_vars PROVE Closing'
<1>1. ClosedAtEnd'
  BY NextIsChannelStep, ClosedAtEndStep DEF Closing, TypeOK
<1>2. CASE UNCHANGED <<outcome, txAlive, drain>>
  BY <1>1, <1>2 DEF Closing
<1>3. CASE ReturnError \/ Join
  BY <1>1, <1>3 DEF ReturnError, Join, DropSender, Closing, TypeOK, ChannelTypeOK, DrainState
<1>4. CASE (Drain \/ DrainPanics) /\ UNCHANGED <<execVars, childVars, applyVars>>
  BY <1>1, <1>4 DEF Closing, applyVars, Drain, DrainBatch, DrainEnd, DrainEmpty, DrainLost,
     DrainPanics, TakeHead, chanVars
<1>5. ASSUME Executor PROVE UNCHANGED <<outcome, txAlive, drain>>
  <2> USE DEF Goto, applyVars, chanVars
  <2>1. ASSUME NEW from, NEW m, NEW to, SinkAt(from, m, to)
        PROVE  UNCHANGED <<outcome, txAlive, drain>>
    BY <2>1 DEF SinkAt, Sink, SinkFails
  <2>2. CASE Begin \/ Steps \/ NextEnsure \/ EnsuresFailed \/ AllDone \/ Finish
    BY <2>1, <2>2 DEF Begin, Steps, NextEnsure, EnsuresFailed, AllDone, Finish
  <2>3. CASE Emit \/ TaskDone
    BY <2>3 DEF Emit, TaskDone, Sink, SinkFails
  <2>4. CASE Check \/ Spawn \/ Poll \/ ReadChunk \/ PipesEnd
    BY <2>4 DEF Check, Spawn, Poll, ReadChunk, PipesEnd
  <2> QED
    BY <1>5, <2>2, <2>3, <2>4 DEF Executor
<1>6. CASE Child \/ Report \/ UNCHANGED vars
  BY <1>2, <1>6, ChildSteps DEF Report, vars, chanVars, applyVars
<1> QED
  BY <1>2, <1>3, <1>4, <1>5, <1>6 DEF Next, Terminated

-----------------------------------------------------------------------------
(***************************************************************************)
(* The output in the log.                                                  *)
(***************************************************************************)
\* One more message is one more output, or none.
LEMMA OutputsAfterAppend ==
  ASSUME NEW log \in Seq(Message), NEW m \in Message
  PROVE  /\ Outputs(log) \in Nat
         /\ Outputs(Append(log, m)) = Outputs(log) + (IF m = "output" THEN 1 ELSE 0)
<1> DEFINE longer == Append(log, m)
           places == {i \in DOMAIN log : log[i] = "output"}
<1>1. /\ Len(log) \in Nat /\ DOMAIN log = 1..Len(log)
      /\ DOMAIN longer = 1..(Len(log) + 1)
      /\ \A i \in 1..Len(log) : longer[i] = log[i]
      /\ longer[Len(log) + 1] = m
  BY AppendProperties, LenProperties
<1> HIDE DEF longer
<1>2. IsFiniteSet(places)
  <2>1. IsFiniteSet(1..Len(log)) /\ places \subseteq 1..Len(log)
    BY <1>1, FS_Interval
  <2> HIDE DEF places
  <2> QED
    BY <2>1, FS_Subset
<1>3. Len(log) + 1 \notin places
  BY <1>1
<1>4. {i \in DOMAIN longer : longer[i] = "output"}
        = IF m = "output" THEN places \cup {Len(log) + 1} ELSE places
  BY <1>1
<1> HIDE DEF places
<1>5. /\ Cardinality(places) \in Nat
      /\ Cardinality(places \cup {Len(log) + 1}) = Cardinality(places) + 1
  BY <1>2, <1>3, FS_AddElement, FS_CardinalityType
<1>6. Outputs(log) = Cardinality(places)
  BY DEF Outputs, places
<1>7. Outputs(longer) =
        IF m = "output" THEN Cardinality(places \cup {Len(log) + 1}) ELSE Cardinality(places)
  BY <1>4 DEF Outputs
<1> QED
  BY <1>5, <1>6, <1>7 DEF longer

\* One turn of select! is one more chunk.
LEMMA OneMoreChunk ==
  ASSUME TypeOK, NEW p \in Task \X Pipe, read[p] < MaxChunks,
         read' = [read EXCEPT ![p] = @ + 1]
  PROVE  Cardinality(ChunksRead)' = Cardinality(ChunksRead) + 1
<1> DEFINE chunk == <<p, read[p] + 1>>
           before == ChunksRead
<1>1. /\ \A q \in Task \X Pipe : read[q] \in Nat
      /\ read'[p] = read[p] + 1 /\ \A q \in Task \X Pipe : q # p => read'[q] = read[q]
      /\ chunk \in (Task \X Pipe) \X (1..MaxChunks)
  BY ChunksAssumption DEF TypeOK
<1>2. chunk \notin before
  BY <1>1 DEF ChunksRead
<1>3. ChunksRead' = before \cup {chunk}
  <2>1. ASSUME NEW q \in Task \X Pipe, NEW n \in 1..MaxChunks
        PROVE  n <= read'[q] <=> n <= read[q] \/ <<q, n>> = chunk
    <3>1. CASE q = p
      BY <1>1, <3>1
    <3>2. CASE q # p
      BY <1>1, <3>2
    <3> QED
      BY <3>1, <3>2
  <2> HIDE DEF chunk
  <2>2. \A c \in (Task \X Pipe) \X (1..MaxChunks) :
          /\ c = <<c[1], c[2]>> /\ c[1] \in Task \X Pipe /\ c[2] \in 1..MaxChunks
    OBVIOUS
  <2>3. \A c \in (Task \X Pipe) \X (1..MaxChunks) :
          c[2] <= read'[c[1]] <=> c[2] <= read[c[1]] \/ c = chunk
    BY <2>1, <2>2
  <2> QED
    BY <1>1, <2>3 DEF ChunksRead
<1>4. IsFiniteSet(before)
  <2>1. IsFiniteSet(Task) /\ IsFiniteSet(1..MaxChunks)
    BY PlanFacts, ChunksAssumption, FS_Interval DEF Task
  <2>2. IsFiniteSet({"stdout", "stderr"})
    <3>1. IsFiniteSet({"stdout"}) /\ IsFiniteSet({"stdout"} \cup {"stderr"})
      BY FS_Singleton, FS_AddElement
    <3>2. {"stdout"} \cup {"stderr"} = {"stdout", "stderr"}
      OBVIOUS
    <3> QED
      BY <3>1, <3>2
  <2>3. IsFiniteSet((Task \X Pipe) \X (1..MaxChunks))
    BY <2>1, <2>2, FS_Product DEF Pipe
  <2>4. before \subseteq (Task \X Pipe) \X (1..MaxChunks)
    BY DEF ChunksRead
  <2> HIDE DEF before
  <2> QED
    BY <2>3, <2>4, FS_Subset
<1> HIDE DEF before, chunk
<1>5. Cardinality(before \cup {chunk}) = Cardinality(before) + 1
  BY <1>2, <1>4, FS_AddElement
<1> QED
  BY <1>3, <1>5 DEF before

\* A message that is neither End nor output, sent between two places where no
\* chunk is in hand.
LEMMA SinkOther ==
  ASSUME TypeOK, Logged, NEW m \in Message, Sink(m), m # "output",
         pc \notin {"emit", "ok"}, pc' # "emit", m = End <=> pc' = "ok", read' = read
  PROVE  Logged'
<1>1. Fifo'
  BY FifoStep DEF Logged, TypeOK, ChannelStep
<1>2. /\ sunk' = Append(sunk, m) /\ sunk \in Seq(Message)
      /\ drain = "running" /\ drain' = "running"
  BY DEF Sink, TypeOK, ChannelTypeOK
<1>3. /\ Len(sunk) \in Nat /\ Len(sunk') = Len(sunk) + 1 /\ sunk'[Len(sunk) + 1] = m
      /\ \A i \in 1..Len(sunk) : sunk'[i] = sunk[i]
  BY <1>2, AppendProperties, LenProperties
<1>4. \A i \in 1..Len(sunk') : sunk'[i] = End => i = Len(sunk') /\ pc' = "ok"
  BY <1>3 DEF Logged
<1>5. Outputs(sunk') = Outputs(sunk)
  BY <1>2, OutputsAfterAppend
<1>6. Cardinality(ChunksRead)' = Cardinality(ChunksRead) /\ InHand = 0 /\ InHand' = 0
  BY DEF ChunksRead, InHand
<1> QED
  BY <1>1, <1>2, <1>4, <1>5, <1>6 DEF Logged

\* The chunk in hand is logged.
LEMMA SinkOutput ==
  ASSUME TypeOK, Logged, Sink("output"), pc = "emit", pc' = "poll", read' = read
  PROVE  Logged'
<1>0. "output" \in Message /\ "output" # End
  BY DEF Message, Batch, End
<1>1. Fifo'
  BY <1>0, FifoStep DEF Logged, TypeOK, ChannelStep
<1>2. /\ sunk' = Append(sunk, "output") /\ sunk \in Seq(Message)
      /\ drain = "running" /\ drain' = "running"
  BY DEF Sink, TypeOK, ChannelTypeOK
<1>3. /\ Len(sunk) \in Nat /\ Len(sunk') = Len(sunk) + 1
      /\ sunk'[Len(sunk) + 1] = "output"
      /\ \A i \in 1..Len(sunk) : sunk'[i] = sunk[i]
  BY <1>0, <1>2, AppendProperties, LenProperties
<1>4. \A i \in 1..Len(sunk') : sunk'[i] = End => i = Len(sunk') /\ pc' = "ok"
  BY <1>0, <1>3 DEF Logged
<1>5. Outputs(sunk') = Outputs(sunk) + 1 /\ Outputs(sunk) \in Nat
  BY <1>0, <1>2, OutputsAfterAppend
<1>6. Cardinality(ChunksRead)' = Cardinality(ChunksRead) /\ InHand = 1 /\ InHand' = 0
  BY DEF ChunksRead, InHand
<1> QED
  BY <1>1, <1>2, <1>4, <1>5, <1>6 DEF Logged

\* Once the drain task is gone, nothing more is logged.
LEMMA NothingLogged ==
  ASSUME TypeOK, Logged, UNCHANGED chanVars, read' = read,
         pc = "ok" => pc' = "ok",
         drain \notin {"running", "ended"} \/ (pc = "emit" <=> pc' = "emit")
  PROVE  Logged'
<1>1. /\ UNCHANGED <<chan, txAlive, drain, sunk, received>>
  BY DEF chanVars
<1>2. Cardinality(ChunksRead)' = Cardinality(ChunksRead)
  BY DEF ChunksRead
<1>3. drain \in {"running", "ended"} => InHand' = InHand
  BY DEF InHand
<1> QED
  BY <1>1, <1>2, <1>3 DEF Logged, Fifo

\* A chunk is taken in hand.
LEMMA ReadLogged ==
  ASSUME TypeOK, Position, Logged, ReadChunk
  PROVE  Logged'
<1>1. PICK p \in Pipe : /\ read[<<task, p>>] < written[<<task, p>>]
                        /\ read' = [read EXCEPT ![<<task, p>>] = @ + 1]
  BY DEF ReadChunk
<1>2. <<task, p>> \in Task \X Pipe
  BY PlanFacts DEF ReadChunk, Goto, Position, WithChild, TypeOK, Task
<1>3. read[<<task, p>>] < MaxChunks
  BY <1>1, <1>2, ChunksAssumption DEF TypeOK
<1>4. Cardinality(ChunksRead)' = Cardinality(ChunksRead) + 1
  BY <1>1, <1>2, <1>3, OneMoreChunk
<1>5. /\ UNCHANGED <<chan, txAlive, drain, sunk, received>>
      /\ pc = "select" /\ pc' = "emit"
  BY DEF ReadChunk, Goto, chanVars
<1>6. Outputs(sunk) \in Nat /\ InHand = 0 /\ InHand' = 1
  <2>1. sunk \in Seq(Message) /\ End \in Message
    BY DEF TypeOK, ChannelTypeOK, Message
  <2> QED
    BY <1>5, <2>1, OutputsAfterAppend DEF InHand
<1> QED
  BY <1>4, <1>5, <1>6 DEF Logged, Fifo

\* The drain task takes End when nothing is queued behind it.
LEMMA DrainLogged ==
  ASSUME TypeOK, Logged, Drain \/ DrainPanics, UNCHANGED <<execVars, childVars>>
  PROVE  Logged'
<1>1. Fifo' /\ ChannelTypeOK'
  BY FifoStep, ChannelTypeStep DEF Logged, TypeOK, ChannelStep
<1>2. /\ pc' = pc /\ read' = read /\ sunk' = sunk
      /\ Cardinality(ChunksRead)' = Cardinality(ChunksRead) /\ InHand' = InHand
      /\ drain = "running"
  BY DEF execVars, childVars, ChunksRead, InHand, Drain, DrainPanics, DrainBatch, DrainEnd,
     DrainEmpty, DrainLost, TakeHead, chanVars
<1>3. drain' = "ended" => chan' = <<>> /\ pc = "ok"
  <2> SUFFICES ASSUME drain' = "ended" PROVE chan' = <<>> /\ pc = "ok"
    OBVIOUS
  <2>1. DrainEnd
    BY <1>2 DEF Drain, DrainPanics, DrainBatch, DrainEmpty, DrainLost, chanVars
  <2>2. /\ chan # <<>> /\ Head(chan) = End /\ chan' = Tail(chan)
        /\ chan \in Seq(Message) /\ received \in Seq(Message)
        /\ sunk = received \o chan
    BY <1>2, <2>1 DEF DrainEnd, TakeHead, TypeOK, ChannelTypeOK, Logged, Fifo
  <2>3. /\ Len(chan) \in Nat \ {0} /\ Len(received) \in Nat
        /\ Len(Tail(chan)) = Len(chan) - 1 /\ Tail(chan) \in Seq(Message)
        /\ chan[1] = Head(chan)
    BY <2>2, HeadTailProperties, LenProperties, EmptySeq
  <2>4. /\ Len(sunk) = Len(received) + Len(chan)
        /\ sunk[Len(received) + 1] = End
    BY <2>2, <2>3, ConcatProperties
  <2>5. Len(received) + 1 = Len(sunk) /\ pc = "ok"
    BY <2>3, <2>4 DEF Logged
  <2>6. Len(chan') = 0
    BY <2>2, <2>3, <2>4, <2>5
  <2> QED
    BY <2>2, <2>3, <2>5, <2>6, EmptySeq
<1> QED
  BY <1>1, <1>2, <1>3 DEF Logged

LEMMA LoggedStep ==
  ASSUME TypeOK, Position, Logged, [Next]_vars PROVE Logged'
<1>1. ASSUME NEW from, NEW m \in Message \ {"output"}, NEW to, SinkAt(from, m, to),
             from \notin {"emit", "ok"}, to # "emit", m = End <=> to = "ok",
             UNCHANGED childVars
      PROVE  Logged'
  <2>1. CASE Sink(m) /\ pc = from /\ pc' = to
    BY <1>1, <2>1, SinkOther DEF childVars
  <2>2. CASE SinkFails /\ pc = from /\ pc' = "err"
    BY <1>1, <2>2, NothingLogged DEF SinkFails, childVars
  <2> QED
    BY <1>1, <2>1, <2>2 DEF SinkAt, Goto
<1>2. CASE Begin \/ Steps \/ NextEnsure \/ EnsuresFailed \/ AllDone \/ Finish
  <2> USE <1>1 DEF Message, Batch, End
  <2>1. CASE Begin \/ Steps
    BY <2>1 DEF Begin, Steps, SinkAt
  <2>2. CASE NextEnsure \/ EnsuresFailed
    BY <2>2 DEF NextEnsure, EnsuresFailed, SinkAt
  <2>3. CASE AllDone \/ Finish
    BY <2>3 DEF AllDone, Finish, SinkAt
  <2> QED
    BY <1>2, <2>1, <2>2, <2>3
<1>3. CASE Emit
  <2>1. pc = "emit" /\ pc' = "poll" /\ read' = read
    BY <1>3 DEF Emit, Goto, childVars
  <2>2. CASE Sink("output")
    BY <2>1, <2>2, SinkOutput
  <2>3. CASE SinkFails
    <3>1. drain \notin {"running", "ended"}
      BY <2>1, <2>3 DEF SinkFails, Logged
    <3> QED
      BY <2>1, <2>3, <3>1, NothingLogged DEF SinkFails
  <2> QED
    BY <1>3, <2>2, <2>3 DEF Emit
<1>4. CASE TaskDone
  <2>1. CASE Sink("blank") /\ pc = "blank" /\ pc' = "ensure"
    BY <1>4, <2>1, SinkOther DEF TaskDone, childVars, Message, Batch, End
  <2>2. CASE SinkFails /\ pc = "blank" /\ pc' = "err"
    BY <1>4, <2>2, NothingLogged DEF TaskDone, SinkFails, childVars
  <2> QED
    BY <1>4, <2>1, <2>2 DEF TaskDone, Goto
<1>5. CASE Check \/ Spawn \/ Poll \/ PipesEnd
  <2>1. /\ UNCHANGED chanVars /\ read' = read
        /\ pc \notin {"emit", "ok"} /\ pc' # "emit"
    BY <1>5 DEF Check, Spawn, Poll, PipesEnd, Goto, childVars
  <2> QED
    BY <2>1, NothingLogged
<1>6. CASE ReadChunk
  BY <1>6, ReadLogged
<1>7. CASE Child \/ Report \/ UNCHANGED vars
  <2>1. UNCHANGED chanVars /\ read' = read /\ pc' = pc
    BY <1>7, ChildSteps DEF Report, vars, execVars, childVars
  <2> QED
    BY <2>1, NothingLogged
<1>8. CASE ReturnError \/ Join
  <2>1. UNCHANGED <<chan, drain, sunk, received, pc, read>>
    BY <1>8 DEF ReturnError, Join, DropSender, execVars, childVars
  <2>2. Cardinality(ChunksRead)' = Cardinality(ChunksRead) /\ InHand' = InHand
    BY <2>1 DEF ChunksRead, InHand
  <2> QED
    BY <2>1, <2>2 DEF Logged, Fifo
<1>9. CASE (Drain \/ DrainPanics) /\ UNCHANGED <<execVars, childVars, applyVars>>
  BY <1>9, DrainLogged
<1> QED
  BY <1>2, <1>3, <1>4, <1>5, <1>6, <1>7, <1>8, <1>9 DEF Next, Executor, Terminated

-----------------------------------------------------------------------------
(***************************************************************************)
(* The theorems.                                                           *)
(***************************************************************************)
LEMMA InitIInv == Init => IInv
<1> SUFFICES ASSUME Init PROVE IInv
  OBVIOUS
<1> USE DEF Init, ChannelInit
<1>0. /\ NumTasks \in Nat \ {0} /\ Len(<<>>) = 0
      /\ \A S : <<>> \in Seq(S)
  BY PlanFacts, EmptySeq
<1>1. ChannelTypeOK
  BY <1>0, CapacityAssumption DEF ChannelTypeOK, DrainState
<1>2. TypeOK
  <2>1. [p \in Task \X Pipe |-> 0] \in [Task \X Pipe -> 0..MaxChunks]
    BY ChunksAssumption
  <2>2. /\ written \in [Task \X Pipe -> 0..MaxChunks]
        /\ read \in [Task \X Pipe -> 0..MaxChunks]
    BY <2>1
  <2>3. pc \in ExecPc /\ spawned \in Seq(Task)
    BY <1>0 DEF ExecPc
  <2>4. /\ task \in 1..(NumTasks + 1)
        /\ step \in Nat \ {0}
        /\ completed \in 0..NumTasks
    BY <1>0
  <2>5. /\ failed \in BOOLEAN
        /\ outcome \in {"none", "ok", "error"}
        /\ report \in {"none", "completed", "message"}
        /\ passed \subseteq Task \X Nat
        /\ alive \subseteq Task
        /\ open \subseteq Task \X Pipe
    OBVIOUS
  <2> QED
    BY <1>1, <2>2, <2>3, <2>4, <2>5 DEF TypeOK
<1>3. Position
  BY PlanFacts DEF Position, WithChild
<1>4. Spawned /\ EnsuredBeforeSpawn /\ Answered
  BY <1>0 DEF Spawned, WithChild, EnsuredBeforeSpawn, Answered
<1>5. Children /\ OrphansAreSilent /\ LeftAtEof
  BY DEF Children, OrphansAreSilent, LeftAtEof
<1>6. Closing
  BY DEF Closing, ClosedAtEnd
<1>7. Logged
  <2>1. Fifo
    BY <1>0, ConcatEmptySeq DEF Fifo
  <2>2. Outputs(sunk) = 0
    <3>1. {i \in DOMAIN sunk : sunk[i] = "output"} = {}
      BY <1>0
    <3> QED
      BY <3>1, FS_EmptySet DEF Outputs
  <2>3. Cardinality(ChunksRead) = 0
    <3>1. ChunksRead = {}
      BY DEF ChunksRead
    <3> QED
      BY <3>1, FS_EmptySet
  <2> QED
    BY <1>0, <2>1, <2>2, <2>3 DEF Logged, InHand
<1> QED
  BY <1>2, <1>3, <1>4, <1>5, <1>6, <1>7 DEF IInv

LEMMA NextIInv == IInv /\ [Next]_vars => IInv'
<1> SUFFICES ASSUME IInv, [Next]_vars PROVE IInv'
  OBVIOUS
<1> USE DEF IInv
<1>1. TypeOK' /\ Position'
  BY TypeStep, PositionStep
<1>2. Spawned' /\ Answered' /\ EnsuredBeforeSpawn'
  BY SpawnedStep, AnsweredStep, EnsuredBeforeSpawnStep
<1>3. Children' /\ LeftAtEof' /\ OrphansAreSilent'
  BY ChildrenStep, LeftAtEofStep, OrphansStep
<1>4. Closing' /\ Logged'
  BY ClosingStep, LoggedStep
<1> QED
  BY <1>1, <1>2, <1>3, <1>4

LEMMA LocalInvariance == Spec => []IInv
  BY InitIInv, NextIInv, PTL DEF Spec

\* Whatever the children do, the executor stays in its plan, takes no more chunks
\* than were written, and never overfills the channel.
THEOREM LocalTypeCorrect == Spec => []TypeOK
  BY LocalInvariance, PTL DEF IInv

\* In any plan, a child is spawned for the tasks in their order, each once, and
\* only when every ensure of the task has passed.
THEOREM EnsuresGuardSpawns == Spec => []EnsuredBeforeSpawn
  BY LocalInvariance, PTL DEF IInv

\* A child that outlives its task has closed its pipes and was read to the end.
THEOREM OrphansHaveNoOutput == Spec => []OrphansAreSilent
  BY LocalInvariance, PTL DEF IInv

\* A run that returns Ok has carried out its whole plan, and what was shown of it
\* holds one message for every chunk that was read: emit() ignores the error of
\* the sink, but meets one only when the drain task is gone without End, and then
\* do_apply does not return Ok.
THEOREM OkMeansShown == Spec => []OkShowsWhatWasRead
<1>1. IInv => OkShowsWhatWasRead
  <2> SUFFICES ASSUME IInv, outcome = "ok"
               PROVE  /\ received[Len(received)] = End
                      /\ completed = NumTasks
                      /\ Outputs(received) = Cardinality(ChunksRead)
    BY DEF OkShowsWhatWasRead
  <2>1. drain = "ended" /\ received[Len(received)] = End
    BY DEF IInv, Closing, ClosedAtEnd
  <2>2. chan = <<>> /\ pc = "ok" /\ sunk = received \o chan
    BY <2>1 DEF IInv, Logged, Fifo
  <2>3. sunk = received /\ received \in Seq(Message) /\ End \in Message
    BY <2>2, ConcatEmptySeq DEF IInv, TypeOK, ChannelTypeOK, Message
  <2>4. Outputs(received) = Cardinality(ChunksRead)
    BY <2>1, <2>2, <2>3, OutputsAfterAppend DEF IInv, Logged, InHand
  <2>5. completed = NumTasks
    BY <2>2, PlanFacts DEF IInv, Position
  <2> QED
    BY <2>1, <2>4, <2>5
<1> QED
  BY <1>1, LocalInvariance, PTL

-----------------------------------------------------------------------------
(***************************************************************************)
(* Refinement: do_apply on this machine implements HostRun.                *)
(***************************************************************************)
\* Only the two returns of do_apply set its outcome.
LEMMA OutcomeChanges ==
  ASSUME TypeOK, [Next]_vars, ~ReturnError, ~Join PROVE outcome' = outcome
<1>1. CASE Executor
  BY <1>1, ExecutorSteps
  DEF Moves, Check, Spawn, ReadChunk, TaskDone, Goto, applyVars
<1>2. CASE ~Executor
  BY <1>2, ChildSteps DEF Next, Report, Terminated, vars, applyVars
<1> QED
  BY <1>1, <1>2

\* The drain task shows messages only while the run is neither closed nor good;
\* the log of a failed run may still be shown after its verdict.
LEMMA StepRefines ==
  IInv /\ [Next]_vars => [Promise!Next]_(Promise!vars)
<1> SUFFICES ASSUME IInv, [Next]_vars
             PROVE  Promise!Next \/ UNCHANGED Promise!vars
  OBVIOUS
<1> USE DEF Promise!Next, Promise!vars, Promise!Show, Promise!ReturnOk,
            Promise!ReturnError, Promise!Closed
<1>0. TypeOK /\ Closing
  BY DEF IInv
<1>1. CASE outcome' # outcome
  <2>1. CASE ReturnError
    BY <2>1 DEF ReturnError, DropSender
  <2>2. CASE Join
    BY <1>0, <2>2 DEF Join, DropSender, Closing, ClosedAtEnd, TypeOK, ChannelTypeOK, DrainState
  <2> QED
    BY <1>0, <1>1, <2>1, <2>2, OutcomeChanges
<1>2. CASE outcome' = outcome /\ received' # received
  <2>1. CASE TakeHead /\ drain = "running"
    <3>1. Head(chan) \in Message
      BY <1>0, <2>1, HeadTailProperties DEF TakeHead, TypeOK, ChannelTypeOK
    <3> QED
      BY <1>0, <1>2, <2>1, <3>1 DEF TakeHead, Closing, ClosedAtEnd
  <2> QED
    BY <1>2, <2>1, NextIsChannelStep DEF ChannelStep, Sink, SinkFails,
       DropSender, Drain, DrainBatch, DrainEnd, DrainEmpty, DrainLost,
       DrainPanics, chanVars
<1> QED
  BY <1>1, <1>2

\* One application on this machine keeps what HostRun promises, for every plan,
\* every capacity and whatever the children do.
THEOREM LocalRefinement == Spec => ImplementsHostRun
<1>1. Init => Promise!Init
  BY DEF Init, ChannelInit, Promise!Init
<1>2. IInv /\ [Next]_vars => [Promise!Next]_(Promise!vars)
  BY StepRefines
<1> QED
  BY <1>1, <1>2, LocalInvariance, PTL DEF Spec, ImplementsHostRun, Promise!Spec
=============================================================================
