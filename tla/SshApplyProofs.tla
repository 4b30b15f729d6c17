--------------------------- MODULE SshApplyProofs ---------------------------
(***************************************************************************)
(* The safety of one application over SSH, for every plan, every set of    *)
(* exit statuses and every capacity of the log channel.                    *)
(***************************************************************************)
EXTENDS SshApply, LogChannelProofs

\* The caller skips hosts without tasks.
LEMMA NumTasksPositive == NumTasks \in Nat \ {0}
  BY PlanAssumption, EmptySeq, LenProperties DEF NumTasks

\* The ensures of a task are a sequence of the variants of enum Ensure.
LEMMA EnsuresOfTask ==
  ASSUME NEW t \in 1..NumTasks
  PROVE  /\ Ensures[t] \in Seq(EnsureKind)
         /\ Len(Ensures[t]) \in Nat
  BY PlanAssumption, ElementOfSeq, LenProperties DEF NumTasks

\* The channel changes only by steps of the log pipeline.
LEMMA NextIsChannelStep == ASSUME [Next]_vars PROVE ChannelStep
<1>1. ASSUME NEW from, NEW to, NEW m \in Message, SinkAt(from, m, to)
      PROVE  ChannelStep
  BY <1>1 DEF SinkAt, ChannelStep
<1>2. CASE Begin \/ Refused \/ NextTask \/ NextEnsure \/ Finish
  BY <1>1, <1>2 DEF Begin, Refused, NextTask, NextEnsure, Finish, Message,
     Batch, End
<1>3. CASE RefusedEnd \/ Output \/ TaskDone
  BY <1>3 DEF RefusedEnd, Output, TaskDone, ChannelStep, Message, Batch, End
<1>4. CASE Setup
  BY <1>4 DEF Setup, ChannelStep
<1>5. CASE Connect \/ Authenticate \/ OpenChannel \/ RemoteError \/ SessionLost
           \/ Report \/ Terminated
  BY <1>5 DEF Connect, Authenticate, OpenChannel, RemoteError, SessionLost,
     Report, Terminated, ChannelStep, vars
<1>6. ASSUME NEW status, CommandReturns(status) PROVE ChannelStep
  BY <1>6 DEF CommandReturns, ChannelStep
<1>7. CASE Join
  BY <1>7 DEF Join, ChannelStep
<1>8. CASE (Drain \/ DrainPanics) /\ UNCHANGED <<execVars, applyVars>>
  BY <1>8 DEF ChannelStep
<1>9. CASE UNCHANGED vars
  BY <1>9 DEF vars, ChannelStep
<1> QED
  BY <1>2, <1>3, <1>4, <1>5, <1>6, <1>7, <1>8, <1>9 DEF Next, Executor

-----------------------------------------------------------------------------
\* Types.
PlaceTypeOK ==
  /\ pc \in ExecPc
  /\ task \in 1..(NumTasks + 1)
  /\ step \in Nat \ {0}
  /\ completed \in 0..NumTasks
  /\ frames \in 0..MaxFrames
  /\ session \in {"none", "up", "down"}
  /\ outcome \in {"none", "ok", "PlanApplyFailed", "error"}
  /\ report \in {"none", "completed", "failed", "message"}

\* Every step keeps the types of the variables that are no histories.
LEMMA PlaceTypeStep ==
  ASSUME PlaceTypeOK, Position, [Next]_vars PROVE PlaceTypeOK'
<1> USE NumTasksPositive, FramesAssumption
    DEF PlaceTypeOK, Fail, Goto, applyVars, ExecPc
<1>1. ASSUME NEW from, NEW m, NEW to \in ExecPc, SinkAt(from, m, to)
      PROVE  PlaceTypeOK'
  BY <1>1 DEF SinkAt
<1>2. CASE Begin \/ Refused \/ NextTask \/ NextEnsure \/ Finish
  BY <1>1, <1>2 DEF Begin, Refused, NextTask, NextEnsure, Finish
<1>3. CASE RefusedEnd \/ Connect \/ Authenticate \/ RemoteError
  BY <1>3 DEF RefusedEnd, Connect, Authenticate, RemoteError
<1>4. CASE SessionLost \/ Setup \/ OpenChannel
  BY <1>4 DEF SessionLost, Setup, OpenChannel
<1>5. CASE Output
  BY <1>5 DEF Output
<1>6. ASSUME NEW status, CommandReturns(status)
      PROVE  PlaceTypeOK'
  BY <1>6 DEF CommandReturns
<1>7. CASE TaskDone
  BY <1>7 DEF TaskDone, Position
<1>8. CASE Join \/ Report
  BY <1>8 DEF Join, Report, execVars
<1>9. CASE (Drain \/ DrainPanics) /\ UNCHANGED <<execVars, applyVars>>
  BY <1>9 DEF execVars
<1>10. CASE UNCHANGED vars
  BY <1>10 DEF vars, execVars
<1> QED
  BY <1>2, <1>3, <1>4, <1>5, <1>6, <1>7, <1>8, <1>9, <1>10
  DEF Next, Executor, Terminated

Given == (1..NumTasks) \X (Nat \ {0})

HistoryTypeOK ==
  /\ ran \in Seq(Given)
  /\ codes \in Seq(ExitStatus \cup {NoStatus})

\* Every step keeps the types of the two histories.
LEMMA HistoryTypeStep ==
  ASSUME PlaceTypeOK, HistoryTypeOK, Position, [Next]_vars
  PROVE  HistoryTypeOK'
<1> USE DEF HistoryTypeOK, Fail
<1>1. ASSUME NEW from, NEW m, NEW to, SinkAt(from, m, to) PROVE HistoryTypeOK'
  BY <1>1 DEF SinkAt
<1>2. CASE Begin \/ Refused \/ NextTask \/ NextEnsure \/ Finish
  BY <1>1, <1>2 DEF Begin, Refused, NextTask, NextEnsure, Finish
<1>3. CASE RefusedEnd \/ Connect \/ Authenticate \/ RemoteError \/ SessionLost
           \/ Setup \/ Output \/ TaskDone
  BY <1>3 DEF RefusedEnd, Connect, Authenticate, RemoteError, SessionLost,
     Setup, Output, TaskDone
<1>4. CASE OpenChannel
  <2>1. <<task, step>> \in Given
    BY <1>4, NumTasksPositive DEF OpenChannel, Goto, PlaceTypeOK, Position, Given
  <2>2. Append(ran, <<task, step>>) \in Seq(Given)
    BY <2>1, AppendProperties
  <2> QED
    BY <1>4, <2>2 DEF OpenChannel
<1>5. ASSUME NEW status \in ExitStatus \cup {NoStatus}, CommandReturns(status)
      PROVE  HistoryTypeOK'
  <2>1. Append(codes, status) \in Seq(ExitStatus \cup {NoStatus})
    BY AppendProperties
  <2>2. codes' = Append(codes, status) /\ ran' = ran
    BY <1>5 DEF CommandReturns
  <2> QED
    BY <2>1, <2>2
<1>6. CASE \/ Join \/ Report \/ UNCHANGED vars
           \/ (Drain \/ DrainPanics) /\ UNCHANGED <<execVars, applyVars>>
  BY <1>6 DEF Join, Report, execVars, vars
<1> QED
  BY <1>2, <1>3, <1>4, <1>5, <1>6 DEF Next, Executor, Terminated

\* Every step keeps `failed` a Boolean.
LEMMA FailedTypeStep ==
  ASSUME failed \in BOOLEAN, [Next]_vars PROVE failed' \in BOOLEAN
<1> USE DEF Fail
<1>1. ASSUME NEW from, NEW m, NEW to, SinkAt(from, m, to) PROVE failed' \in BOOLEAN
  BY <1>1 DEF SinkAt
<1>2. CASE Begin \/ Refused \/ NextTask \/ NextEnsure \/ Finish
  BY <1>1, <1>2 DEF Begin, Refused, NextTask, NextEnsure, Finish
<1>3. CASE RefusedEnd \/ Connect \/ Authenticate \/ RemoteError \/ SessionLost
           \/ Setup \/ Output \/ TaskDone \/ OpenChannel
  BY <1>3 DEF RefusedEnd, Connect, Authenticate, RemoteError, SessionLost,
     Setup, Output, TaskDone, OpenChannel
<1>4. ASSUME NEW status, CommandReturns(status) PROVE failed' \in BOOLEAN
  <2>1. \/ failed' = (failed \/ ~Passes(Ensures[task][step], status))
        \/ failed' = failed
    BY <1>4, Zenon DEF CommandReturns
  <2>2. (failed \/ ~Passes(Ensures[task][step], status)) \in BOOLEAN
    BY Zenon
  <2> QED
    BY <2>1, <2>2, Zenon
<1>5. CASE \/ Join \/ Report \/ UNCHANGED vars
           \/ (Drain \/ DrainPanics) /\ UNCHANGED <<execVars, applyVars>>
  BY <1>5 DEF Join, Report, execVars, vars
<1> QED
  BY <1>2, <1>3, <1>4, <1>5 DEF Next, Executor, Terminated

\* Every step keeps the type invariant.
LEMMA TypeStep == ASSUME TypeOK, Position, [Next]_vars PROVE TypeOK'
<1>1. ChannelTypeOK'
  BY NextIsChannelStep, ChannelTypeStep DEF TypeOK
<1>2. PlaceTypeOK /\ HistoryTypeOK
  BY DEF TypeOK, PlaceTypeOK, HistoryTypeOK, Given
<1>3. PlaceTypeOK' /\ HistoryTypeOK'
  BY <1>2, PlaceTypeStep, HistoryTypeStep
<1>4. failed' \in BOOLEAN
  BY FailedTypeStep DEF TypeOK
<1> QED
  BY <1>1, <1>3, <1>4 DEF TypeOK, PlaceTypeOK, HistoryTypeOK, Given

-----------------------------------------------------------------------------
\* The executor's place tells how far it is in the plan.
LEMMA PositionStep == ASSUME TypeOK, Position, [Next]_vars PROVE Position'
<1> USE DEF Position, Fail, Goto, IsCheck
<1>0. PlaceTypeOK
  BY DEF TypeOK, PlaceTypeOK
<1>1. CASE Begin \/ Refused \/ RefusedEnd \/ Finish
  BY <1>1 DEF Begin, Refused, RefusedEnd, Finish, SinkAt
<1>2. CASE Connect \/ Authenticate \/ RemoteError \/ SessionLost \/ Setup
  BY <1>2 DEF Connect, Authenticate, RemoteError, SessionLost, Setup
<1>3. CASE NextTask
  <2>1. ASSUME task <= NumTasks PROVE 1 <= Len(Ensures[task]) + 1
    <3>1. task \in 1..NumTasks
      BY <1>0, <2>1, NumTasksPositive DEF PlaceTypeOK
    <3> QED
      BY <3>1, EnsuresOfTask
  <2>2. task > NumTasks => task = NumTasks + 1
    BY <1>0, NumTasksPositive DEF PlaceTypeOK
  <2> QED
    BY <1>3, <2>1, <2>2 DEF NextTask, SinkAt
<1>4. CASE NextEnsure
  BY <1>4 DEF NextEnsure, SinkAt
<1>5. CASE OpenChannel \/ Output
  BY <1>5 DEF OpenChannel, Output
<1>6. ASSUME NEW status, CommandReturns(status) PROVE Position'
  <2>1. task \in 1..NumTasks
    BY <1>0, <1>6, NumTasksPositive DEF PlaceTypeOK, CommandReturns
  <2>2. Len(Ensures[task]) \in Nat
    BY <2>1, EnsuresOfTask
  <2> QED
    BY <1>0, <1>6, <2>2 DEF CommandReturns, PlaceTypeOK
<1>7. CASE TaskDone
  BY <1>0, <1>7, NumTasksPositive DEF TaskDone, PlaceTypeOK
<1>8. CASE \/ Join \/ Report \/ UNCHANGED vars
           \/ (Drain \/ DrainPanics) /\ UNCHANGED <<execVars, applyVars>>
  BY <1>8 DEF Join, Report, execVars, vars
<1> QED
  BY <1>1, <1>2, <1>3, <1>4, <1>5, <1>6, <1>7, <1>8 DEF Next, Executor, Terminated

-----------------------------------------------------------------------------
\* The commands given to the host.
LEMMA RanElement ==
  ASSUME HistoryTypeOK, NEW i \in 1..Len(ran)
  PROVE  /\ ran[i] = <<ran[i][1], ran[i][2]>>
         /\ ran[i][1] \in 1..NumTasks
         /\ ran[i][2] \in Nat \ {0}
         /\ Len(Ensures[ran[i][1]]) \in Nat
<1>1. ran[i] \in Given
  BY ElementOfSeq DEF HistoryTypeOK
<1> QED
  BY <1>1, EnsuresOfTask DEF Given

\* What OpenChannel appends to the history.
LEMMA RanGrows ==
  ASSUME TypeOK, Position, OpenChannel
  PROVE  /\ Len(ran') = Len(ran) + 1
         /\ \A i \in 1..Len(ran) : ran'[i] = ran[i]
         /\ ran'[Len(ran) + 1] = <<task, step>>
         /\ ran' # <<>>
<1>1. <<task, step>> \in Given /\ ran \in Seq(Given)
  BY NumTasksPositive DEF TypeOK, OpenChannel, Goto, Position, Given
<1>2. /\ Append(ran, <<task, step>>) \in Seq(Given)
      /\ Len(Append(ran, <<task, step>>)) = Len(ran) + 1
      /\ \A i \in 1..Len(ran) : Append(ran, <<task, step>>)[i] = ran[i]
      /\ Append(ran, <<task, step>>)[Len(ran) + 1] = <<task, step>>
  BY <1>1, AppendProperties
<1>3. Len(ran) \in Nat /\ Len(<<>>) = 0
  BY <1>1, LenProperties
<1> QED
  BY <1>2, <1>3 DEF OpenChannel

\* What CommandReturns appends to the answers.
LEMMA CodesGrow ==
  ASSUME TypeOK, NEW status \in ExitStatus \cup {NoStatus}, CommandReturns(status)
  PROVE  /\ Len(codes') = Len(codes) + 1
         /\ \A i \in 1..Len(codes) : codes'[i] = codes[i]
         /\ codes'[Len(codes) + 1] = status
BY AppendProperties DEF TypeOK, CommandReturns

\* Every step that is neither of the two leaves both histories alone.
LEMMA HistoriesStay ==
  ASSUME [Next]_vars,
         ~OpenChannel,
         \A status \in ExitStatus \cup {NoStatus} : ~CommandReturns(status)
  PROVE  UNCHANGED <<ran, codes>>
<1> USE DEF Fail
<1>1. CASE Begin \/ Refused \/ RefusedEnd \/ NextTask \/ NextEnsure \/ Finish
  BY <1>1 DEF Begin, Refused, RefusedEnd, NextTask, NextEnsure, Finish, SinkAt
<1>2. CASE Connect \/ Authenticate \/ RemoteError \/ SessionLost \/ Setup
           \/ Output \/ TaskDone
  BY <1>2 DEF Connect, Authenticate, RemoteError, SessionLost, Setup, Output,
     TaskDone
<1>3. CASE \/ Join \/ Report \/ UNCHANGED vars
           \/ (Drain \/ DrainPanics) /\ UNCHANGED <<execVars, applyVars>>
  BY <1>3 DEF Join, Report, execVars, vars
<1> QED
  BY <1>1, <1>2, <1>3 DEF Next, Executor, Terminated

\* The steps that move the executor, or not, and nothing else it keeps.
Moves ==
  /\ UNCHANGED <<task, step, ran, codes>>
  /\ \/ UNCHANGED <<pc, failed>>
     \/ pc' = "err"
     \/ /\ UNCHANGED failed
        /\ pc \notin {"wait", "blank", "err"}
        /\ pc' \notin {"wait", "blank", "err", "open", "ensure"}
     \/ /\ UNCHANGED failed
        /\ pc = "task"
        /\ pc' = "ensure"
     \/ /\ UNCHANGED failed
        /\ pc = "ensure"
        /\ pc' = "open"
        /\ IsCheck(task, step) \/ ~failed

\* Apart from three actions, a step moves the executor at most.
LEMMA OtherStepsMove ==
  ASSUME [Next]_vars,
         ~OpenChannel,
         \A status \in ExitStatus \cup {NoStatus} : ~CommandReturns(status),
         ~TaskDone
  PROVE  Moves
<1> USE DEF Moves, Fail, Goto
<1>1. CASE Begin \/ Refused \/ RefusedEnd \/ NextTask \/ Finish
  BY <1>1 DEF Begin, Refused, RefusedEnd, NextTask, Finish, SinkAt
<1>2. CASE NextEnsure
  BY <1>2 DEF NextEnsure, SinkAt
<1>3. CASE Connect \/ Authenticate \/ RemoteError \/ SessionLost \/ Setup
           \/ Output
  BY <1>3 DEF Connect, Authenticate, RemoteError, SessionLost, Setup, Output
<1>4. CASE \/ Join \/ Report \/ UNCHANGED vars
           \/ (Drain \/ DrainPanics) /\ UNCHANGED <<execVars, applyVars>>
  BY <1>4 DEF Join, Report, execVars, vars
<1> QED
  BY <1>1, <1>2, <1>3, <1>4 DEF Next, Executor, Terminated

\* Every step keeps the histories in line with the executor's position.
LEMMA HistoryStep ==
  ASSUME TypeOK, Position, History, [Next]_vars PROVE History'
<1>0. /\ PlaceTypeOK /\ HistoryTypeOK
      /\ Len(ran) \in Nat /\ Len(codes) \in Nat
  BY LenProperties DEF TypeOK, PlaceTypeOK, HistoryTypeOK, Given
<1>1. CASE OpenChannel
  <2>1. /\ step <= Len(Ensures[task]) + 1
        /\ Len(ran) = Len(codes)
        /\ pc' = "wait"
        /\ UNCHANGED <<task, step, codes>>
    BY <1>1 DEF OpenChannel, Goto, Position, History
  <2>2. ASSUME NEW i \in 1..Len(ran')
        PROVE  ran'[i][2] <= Len(Ensures[ran'[i][1]]) + 1
    <3>1. CASE i = Len(ran) + 1
      BY <1>1, <2>1, <3>1, RanGrows
    <3>2. CASE i \in 1..Len(ran)
      BY <1>1, <3>2, RanGrows DEF History
    <3> QED
      BY <1>0, <1>1, <3>1, <3>2, RanGrows
  <2> QED
    BY <1>0, <1>1, <2>1, <2>2, RanGrows DEF History
<1>2. ASSUME NEW status \in ExitStatus \cup {NoStatus}, CommandReturns(status)
      PROVE  History'
  <2>1. /\ pc = "wait"
        /\ ran' = ran
        /\ task' = task
        /\ Len(ran) = Len(codes) + 1
        /\ Len(codes') = Len(ran)
        /\ ran # <<>>
        /\ ran[Len(ran)] = <<task, step>>
    BY <1>2, <1>0, CodesGrow DEF CommandReturns, History
  <2>2. CASE IsCheck(task, step)
    <3>1. pc' = "ensure" /\ step' = step + 1
      BY <1>2, <2>2 DEF CommandReturns, Goto
    <3>2. Upcoming' = <<task', step'>>
      BY <2>1, <2>2, <3>1 DEF Upcoming, After, IsCheck
    <3> QED
      BY <1>0, <2>1, <3>1, <3>2 DEF History
  <2>3. CASE ~IsCheck(task, step)
    <3>1. pc' = "blank" /\ step' = step
      BY <1>2, <2>3 DEF CommandReturns, Goto
    <3> QED
      BY <1>0, <2>1, <3>1 DEF History
  <2> QED
    BY <2>2, <2>3
<1>3. CASE TaskDone
  <2>1. CASE SinkFails /\ Fail
    BY <2>1, <1>0 DEF Fail, History
  <2>2. CASE /\ Goto("blank", "task")
             /\ task' = task + 1
             /\ step' = 1
             /\ UNCHANGED <<ran, codes>>
    <3>1. Upcoming' = <<task', step'>>
      BY <2>2 DEF Upcoming, After, Goto, History, Position
    <3> QED
      BY <1>0, <2>2, <3>1 DEF History, Goto
  <2> QED
    BY <1>3, <2>1, <2>2 DEF TaskDone
<1>4. CASE Moves
  <2>1. Upcoming' = Upcoming
    BY <1>4 DEF Moves, Upcoming, After, IsCheck
  <2> QED
    BY <1>0, <1>4, <2>1 DEF Moves, History
<1> QED
  BY <1>1, <1>2, <1>3, <1>4, OtherStepsMove

\* Every step keeps the order of the commands.
LEMMA RanInOrderStep ==
  ASSUME TypeOK, Position, History, RanInOrder, [Next]_vars PROVE RanInOrder'
<1>0. HistoryTypeOK /\ Len(ran) \in Nat /\ (Len(ran) = 0 <=> ran = <<>>)
  BY LenProperties, EmptySeq DEF TypeOK, HistoryTypeOK, Given
<1>1. CASE OpenChannel
  <2>1. <<task, step>> = Upcoming
    BY <1>1 DEF OpenChannel, Goto, History
  <2>2. ASSUME NEW i \in 1..Len(ran')
        PROVE  ran'[i] = IF i = 1 THEN <<1, 1>> ELSE After(ran'[i - 1])
    <3>1. CASE i = Len(ran) + 1
      BY <1>0, <1>1, <2>1, <3>1, RanGrows DEF Upcoming
    <3>2. CASE i \in 1..Len(ran)
      BY <1>0, <1>1, <3>2, RanGrows DEF RanInOrder
    <3> QED
      BY <1>0, <1>1, <3>1, <3>2, RanGrows
  <2> QED
    BY <2>2 DEF RanInOrder, After, IsCheck
<1>2. CASE ran' = ran
  BY <1>2 DEF RanInOrder, After, IsCheck
<1> QED
  BY <1>1, <1>2, HistoriesStay DEF CommandReturns

-----------------------------------------------------------------------------
\* The ensures and what answered them.
AnsweredBy(r, c, n, t, e) ==
  \E j \in 1..n : r[j] = <<t, e>> /\ Admits(Ensures[t][e], c[j])

\* An ensure once answered stays so.
LEMMA AnswersStay ==
  ASSUME TypeOK, Position, History, [Next]_vars,
         NEW t, NEW e, NEW n \in Nat, n <= Len(codes),
         AnsweredBy(ran, codes, n, t, e)
  PROVE  AnsweredBy(ran', codes', n, t, e)
<1>1. PICK j \in 1..n : ran[j] = <<t, e>> /\ Admits(Ensures[t][e], codes[j])
  BY DEF AnsweredBy
<1>2. j \in 1..Len(ran) /\ j \in 1..Len(codes)
  BY LenProperties DEF History, TypeOK
<1>3. ran'[j] = ran[j] /\ codes'[j] = codes[j]
  <2>1. CASE OpenChannel
    BY <1>2, <2>1, RanGrows DEF OpenChannel
  <2>2. ASSUME NEW status \in ExitStatus \cup {NoStatus}, CommandReturns(status)
        PROVE  ran'[j] = ran[j] /\ codes'[j] = codes[j]
    BY <1>2, <2>2, CodesGrow DEF CommandReturns
  <2>3. CASE UNCHANGED <<ran, codes>>
    BY <2>3
  <2> QED
    BY <2>1, <2>2, <2>3, HistoriesStay
<1> QED
  BY <1>1, <1>3 DEF AnsweredBy

\* The match of ensure_task decides as the kind of the ensure asks.
LEMMA PassesAdmits ==
  ASSUME NEW k \in EnsureKind, NEW c, Passes(k, c) PROVE Admits(k, c)
BY DEF Passes, Admits, Existence, EnsureKind

\* Every step keeps what is settled about the ensures of the current task.
LEMMA AnsweredStep ==
  ASSUME TypeOK, Position, History, Answered, [Next]_vars PROVE Answered'
<1>0. /\ PlaceTypeOK /\ HistoryTypeOK
      /\ Len(ran) \in Nat /\ Len(codes) \in Nat
  BY LenProperties DEF TypeOK, PlaceTypeOK, HistoryTypeOK, Given
<1>1. pc \in {"ensure", "open", "wait"} /\ ~failed =>
        \A e \in 1..(step - 1) : AnsweredBy(ran, codes, Len(codes), task, e)
  BY DEF Answered, AnsweredBy
<1>2. SUFFICES
        /\ pc' \in {"ensure", "open", "wait"} /\ ~failed' =>
             \A e \in 1..(step' - 1) :
               AnsweredBy(ran', codes', Len(codes'), task', e)
        /\ pc' \in {"open", "wait"} /\ ~IsCheck(task', step') => ~failed'
  BY DEF Answered, AnsweredBy, IsCheck
<1>3. ASSUME NEW e, AnsweredBy(ran, codes, Len(codes), task, e)
      PROVE  AnsweredBy(ran', codes', Len(codes), task, e)
  BY <1>0, <1>3, AnswersStay
<1>4. CASE OpenChannel
  <2>1. /\ UNCHANGED <<task, step, failed, codes>>
        /\ pc = "open" /\ pc' = "wait"
    BY <1>4 DEF OpenChannel, Goto
  <2> QED
    BY <1>1, <1>3, <2>1 DEF Answered, IsCheck
<1>5. ASSUME NEW status \in ExitStatus \cup {NoStatus}, CommandReturns(status),
             IsCheck(task, step), ~failed'
      PROVE  \A e \in 1..(step' - 1) :
               AnsweredBy(ran', codes', Len(codes'), task', e)
  <2>1. /\ ~failed
        /\ Passes(Ensures[task][step], status)
        /\ step' = step + 1
        /\ task' = task
        /\ ran' = ran
        /\ pc = "wait"
    BY <1>5 DEF CommandReturns, Goto
  <2>2. Len(codes') = Len(codes) + 1 /\ codes'[Len(codes')] = status
    BY <1>5, CodesGrow
  <2>3. AnsweredBy(ran', codes', Len(codes'), task, step)
    <3>1. ran'[Len(codes')] = <<task, step>>
      BY <2>1, <2>2 DEF History
    <3>2. Ensures[task][step] \in EnsureKind
      <4>1. task \in 1..NumTasks
        BY <1>0, <2>1, NumTasksPositive DEF PlaceTypeOK, Position
      <4>2. step \in 1..Len(Ensures[task])
        BY <1>0, <1>5, <4>1, EnsuresOfTask DEF PlaceTypeOK, IsCheck
      <4> QED
        BY <4>1, <4>2, EnsuresOfTask, ElementOfSeq
    <3>3. Admits(Ensures[task][step], status)
      BY <2>1, <3>2, PassesAdmits
    <3>4. Len(codes') \in 1..Len(codes')
      BY <1>0, <2>2
    <3> QED
      BY <2>2, <3>1, <3>3, <3>4 DEF AnsweredBy
  <2>4. ASSUME NEW e \in 1..(step - 1)
        PROVE  AnsweredBy(ran', codes', Len(codes'), task, e)
    <3>1. AnsweredBy(ran', codes', Len(codes), task, e)
      BY <1>1, <1>3, <2>1
    <3> QED
      BY <1>0, <2>2, <3>1 DEF AnsweredBy
  <2> QED
    BY <1>0, <2>1, <2>3, <2>4 DEF PlaceTypeOK
<1>6. ASSUME NEW status \in ExitStatus \cup {NoStatus}, CommandReturns(status)
      PROVE  pc' = IF IsCheck(task, step) THEN "ensure" ELSE "blank"
  BY <1>6 DEF CommandReturns, Goto
<1>7. CASE TaskDone
  BY <1>7 DEF TaskDone, Goto, Fail
<1>8. CASE Moves
  <2>1. CASE pc' \in {"ensure", "open", "wait"} /\ pc' = pc
    BY <1>1, <1>3, <1>8, <2>1 DEF Moves, Answered, IsCheck
  <2>2. CASE pc = "task" /\ pc' = "ensure"
    BY <1>8, <2>2 DEF Moves, Position
  <2>3. CASE pc = "ensure" /\ pc' = "open"
    BY <1>1, <1>3, <1>8, <2>3 DEF Moves, IsCheck
  <2>4. CASE pc' \notin {"ensure", "open", "wait"}
    BY <2>4
  <2> QED
    BY <1>8, <2>1, <2>2, <2>3, <2>4 DEF Moves
<1> QED
  BY <1>4, <1>5, <1>6, <1>7, <1>8, OtherStepsMove

\* Every step keeps the ensures before their task's command.
LEMMA EnsuredBeforeRunStep ==
  ASSUME TypeOK, Position, History, Answered, EnsuredBeforeRun, [Next]_vars
  PROVE  EnsuredBeforeRun'
<1>0. /\ PlaceTypeOK /\ HistoryTypeOK
      /\ Len(ran) \in Nat /\ Len(codes) \in Nat
  BY LenProperties DEF TypeOK, PlaceTypeOK, HistoryTypeOK, Given
<1>1. SUFFICES ASSUME NEW i \in 1..Len(ran'), ~IsCheck(ran'[i][1], ran'[i][2]),
                      NEW e \in 1..Len(Ensures[ran'[i][1]])
               PROVE  AnsweredBy(ran', codes', i - 1, ran'[i][1], e)
  BY DEF EnsuredBeforeRun, AnsweredBy, IsCheck, Admits, Existence
<1>2. CASE i \in 1..Len(ran) /\ ran'[i] = ran[i]
  <2>1. AnsweredBy(ran, codes, i - 1, ran[i][1], e)
    BY <1>1, <1>2 DEF EnsuredBeforeRun, AnsweredBy
  <2>2. i - 1 \in Nat /\ i - 1 <= Len(codes)
    BY <1>0, <1>2 DEF History
  <2> QED
    BY <1>2, <2>1, <2>2, AnswersStay
<1>3. CASE OpenChannel /\ i = Len(ran) + 1
  <2>1. /\ ran'[i] = <<task, step>>
        /\ pc = "open"
        /\ Len(codes) = i - 1
    BY <1>0, <1>3, RanGrows DEF OpenChannel, Goto, History
  <2>2. /\ ~failed
        /\ e \in 1..(step - 1)
    BY <1>0, <1>1, <2>1 DEF Answered, IsCheck, PlaceTypeOK
  <2>3. AnsweredBy(ran, codes, i - 1, task, e)
    BY <2>1, <2>2 DEF Answered, AnsweredBy
  <2>4. i - 1 \in Nat /\ i - 1 <= Len(codes)
    BY <1>0, <2>1
  <2> QED
    BY <2>1, <2>3, <2>4, AnswersStay
<1> QED
  BY <1>0, <1>1, <1>2, <1>3, RanGrows, HistoriesStay DEF CommandReturns

-----------------------------------------------------------------------------
\* The end of the log.

\* What the executor sinks, and where that leaves it.
SinksOne(m) ==
  /\ m \in Message
  /\ pc \notin {"ok", "err"}
  /\ sunk' = Append(sunk, m)
  /\ m = End => pc' \in {"ok", "err"}
  /\ pc' = "ok" => m = End

\* Every step sinks one message, or none.
LEMMA SunkStep ==
  ASSUME [Next]_vars
  PROVE  \/ \E m : SinksOne(m)
         \/ /\ sunk' = sunk
            /\ pc' \in {"ok", "err"} \/ pc \notin {"ok", "err"}
            /\ pc' = "ok" <=> pc = "ok"
<1> USE DEF SinksOne, Message, Batch, End, Fail, Goto
<1>1. CASE Begin \/ Refused \/ NextTask \/ NextEnsure \/ Finish
  BY <1>1 DEF Begin, Refused, NextTask, NextEnsure, Finish, SinkAt, Sink,
     SinkFails, chanVars
<1>2. CASE RefusedEnd \/ Output \/ TaskDone
  BY <1>2 DEF RefusedEnd, Output, TaskDone, Sink, SinkFails, chanVars
<1>3. CASE Connect \/ Authenticate \/ OpenChannel \/ RemoteError \/ SessionLost
  BY <1>3 DEF Connect, Authenticate, OpenChannel, RemoteError, SessionLost,
     chanVars
<1>4. ASSUME NEW status, CommandReturns(status)
      PROVE  sunk' = sunk /\ pc = "wait" /\ pc' \in {"ensure", "blank"}
  BY <1>4 DEF CommandReturns, chanVars
<1>5. CASE Setup
  BY <1>5 DEF Setup, DropSender, chanVars
<1>6. CASE \/ Join \/ Report \/ UNCHANGED vars
           \/ (Drain \/ DrainPanics) /\ UNCHANGED <<execVars, applyVars>>
  BY <1>6 DEF Join, Report, execVars, vars, chanVars, DropSender, Drain,
     DrainBatch, DrainEnd, DrainEmpty, DrainLost, DrainPanics, TakeHead
<1> QED
  BY <1>1, <1>2, <1>3, <1>4, <1>5, <1>6 DEF Next, Executor, Terminated

\* Only the two returns of do_apply set its outcome.
LEMMA OutcomeChanges ==
  ASSUME [Next]_vars, ~Setup, ~Join PROVE outcome' = outcome
<1> USE DEF Fail, Goto, applyVars
<1>1. CASE Begin \/ Refused \/ NextTask \/ NextEnsure \/ Finish
  BY <1>1 DEF Begin, Refused, NextTask, NextEnsure, Finish, SinkAt
<1>2. CASE RefusedEnd \/ Output \/ TaskDone
  BY <1>2 DEF RefusedEnd, Output, TaskDone
<1>3. CASE Connect \/ Authenticate \/ OpenChannel \/ RemoteError \/ SessionLost
  BY <1>3 DEF Connect, Authenticate, OpenChannel, RemoteError, SessionLost
<1>4. ASSUME NEW status, CommandReturns(status) PROVE outcome' = outcome
  BY <1>4 DEF CommandReturns
<1>5. CASE \/ Report \/ UNCHANGED vars
           \/ (Drain \/ DrainPanics) /\ UNCHANGED <<execVars, applyVars>>
  BY <1>5 DEF Report, vars
<1> QED
  BY <1>1, <1>2, <1>3, <1>4, <1>5 DEF Next, Executor, Terminated

\* Nothing is sunk after End.
LEMMA EndIsFinalStep ==
  ASSUME TypeOK, Closing, EndIsFinal, [Next]_vars PROVE EndIsFinal'
<1>1. ASSUME NEW m, SinksOne(m) PROVE EndIsFinal'
  <2>1. /\ Len(sunk') = Len(sunk) + 1
        /\ \A i \in 1..Len(sunk) : sunk'[i] = sunk[i] /\ sunk[i] # End
    BY <1>1, AppendProperties
    DEF SinksOne, Closing, HasEnd, TypeOK, ChannelTypeOK
  <2>2. Len(sunk) \in Nat
    BY LenProperties DEF TypeOK, ChannelTypeOK
  <2>3. ASSUME NEW i \in 1..Len(sunk'), sunk'[i] = End PROVE i = Len(sunk')
    BY <2>1, <2>2, <2>3
  <2> QED
    BY <2>3 DEF EndIsFinal
<1>2. CASE sunk' = sunk
  BY <1>2 DEF EndIsFinal
<1> QED
  BY <1>1, <1>2, SunkStep

\* The sender lives exactly until do_apply returns.
SenderHeld ==
  /\ txAlive <=> outcome = "none"
  /\ drain = "lost" => ~txAlive

\* Every step keeps the sender alive until do_apply returns.
LEMMA SenderHeldStep ==
  ASSUME TypeOK, SenderHeld, [Next]_vars PROVE SenderHeld'
<1> USE DEF SenderHeld
<1>1. CASE Setup \/ Join
  BY <1>1 DEF Setup, Join, DropSender, chanVars
<1>2. CASE Executor \/ SessionLost
  <2> USE DEF Fail, Goto, applyVars
  <2>1. UNCHANGED <<txAlive, drain, outcome>>
    <3>1. CASE Begin \/ Refused \/ NextTask \/ NextEnsure \/ Finish
      BY <3>1 DEF Begin, Refused, NextTask, NextEnsure, Finish, SinkAt, Sink,
         SinkFails, chanVars
    <3>2. CASE RefusedEnd \/ Output \/ TaskDone
      BY <3>2 DEF RefusedEnd, Output, TaskDone, Sink, SinkFails, chanVars
    <3>3. CASE Connect \/ Authenticate \/ OpenChannel \/ RemoteError
               \/ SessionLost
      BY <3>3 DEF Connect, Authenticate, OpenChannel, RemoteError,
         SessionLost, chanVars
    <3>4. ASSUME NEW status, CommandReturns(status)
          PROVE  UNCHANGED <<txAlive, drain, outcome>>
      BY <3>4 DEF CommandReturns, chanVars
    <3> QED
      BY <1>2, <3>1, <3>2, <3>3, <3>4 DEF Executor
  <2> QED
    BY <2>1
<1>3. CASE (Drain \/ DrainPanics) /\ UNCHANGED <<execVars, applyVars>>
  BY <1>3 DEF applyVars, Drain, DrainBatch, DrainEnd, DrainEmpty, DrainLost,
     DrainPanics, TakeHead, chanVars
<1>4. CASE Report \/ UNCHANGED vars
  BY <1>4 DEF Report, vars, applyVars, chanVars
<1> QED
  BY <1>1, <1>2, <1>3, <1>4 DEF Next, Terminated

\* Every step keeps what is known of the end of the log.
LEMMA ClosingStep == ASSUME TypeOK, Closing, [Next]_vars PROVE Closing'
<1>1. ClosedAtEnd'
  BY NextIsChannelStep, ClosedAtEndStep DEF Closing, ClosedAtEnd, TypeOK
<1>2. SenderHeld'
  BY SenderHeldStep DEF Closing, SenderHeld
<1>3. /\ pc' \notin {"ok", "err"} => ~HasEnd'
      /\ pc' = "ok" => sunk' # <<>> /\ sunk'[Len(sunk')] = End
  <2>1. ASSUME NEW m, SinksOne(m)
        PROVE  /\ Len(sunk') = Len(sunk) + 1
               /\ \A i \in 1..Len(sunk) : sunk'[i] = sunk[i]
               /\ sunk'[Len(sunk')] = m
               /\ sunk' # <<>>
    BY <2>1, AppendProperties, EmptySeq DEF SinksOne, TypeOK, ChannelTypeOK
  <2>2. Len(sunk) \in Nat
    BY LenProperties DEF TypeOK, ChannelTypeOK
  <2>3. ASSUME NEW m, SinksOne(m), pc' \notin {"ok", "err"} PROVE ~HasEnd'
    BY <2>1, <2>2, <2>3 DEF SinksOne, Closing, HasEnd
  <2>4. ASSUME NEW m, SinksOne(m), pc' = "ok"
        PROVE  sunk' # <<>> /\ sunk'[Len(sunk')] = End
    BY <2>1, <2>4 DEF SinksOne
  <2>5. ASSUME sunk' = sunk, pc' \in {"ok", "err"} \/ pc \notin {"ok", "err"},
               pc' = "ok" <=> pc = "ok"
        PROVE  /\ pc' \notin {"ok", "err"} => ~HasEnd'
               /\ pc' = "ok" => sunk' # <<>> /\ sunk'[Len(sunk')] = End
    BY <2>5 DEF Closing, HasEnd
  <2> QED
    BY <2>3, <2>4, <2>5, SunkStep
<1>4. outcome' # "none" => pc' \in {"ok", "err"}
  <2>1. CASE Setup \/ Join
    BY <2>1 DEF Setup, Join, execVars, Closing
  <2>2. CASE outcome' = outcome
    BY <2>2, SunkStep DEF SinksOne, Closing
  <2> QED
    BY <2>1, <2>2, OutcomeChanges
<1>5. outcome' = "ok" => pc' = "ok" /\ drain' = "ended"
  <2>1. CASE Join
    BY <2>1 DEF Join, execVars, DropSender, Closing, TypeOK, ChannelTypeOK,
       DrainState
  <2>2. CASE outcome' = outcome
    <3>1. outcome = "ok" => pc = "ok" /\ drain = "ended"
      BY DEF Closing
    <3>2. pc = "ok" => pc' = "ok"
      BY SunkStep DEF SinksOne
    <3>3. drain = "ended" => drain' = "ended"
      BY NextIsChannelStep DEF ChannelStep, Sink, SinkFails, DropSender, Drain,
         DrainBatch, DrainEnd, DrainEmpty, DrainLost, DrainPanics, chanVars
    <3> QED
      BY <2>2, <3>1, <3>2, <3>3
  <2>3. CASE Setup
    BY <2>3 DEF Setup, Closing
  <2> QED
    BY <2>1, <2>2, <2>3, OutcomeChanges
<1> QED
  BY <1>1, <1>2, <1>3, <1>4, <1>5 DEF Closing, ClosedAtEnd, SenderHeld

-----------------------------------------------------------------------------
\* The first state satisfies the inductive invariant.
LEMMA InitIInv == Init => IInv
<1> SUFFICES ASSUME Init PROVE IInv
  OBVIOUS
<1> USE DEF Init, ChannelInit
<1>0. /\ NumTasks \in Nat \ {0}
      /\ Len(<<>>) = 0
      /\ \A S : <<>> \in Seq(S)
  BY NumTasksPositive, EmptySeq
<1>1. TypeOK
  <2>1. ChannelTypeOK
    BY <1>0, CapacityAssumption DEF ChannelTypeOK, DrainState
  <2>2. PlaceTypeOK
    BY <1>0, FramesAssumption DEF PlaceTypeOK, ExecPc
  <2>3. HistoryTypeOK /\ failed \in BOOLEAN
    BY <1>0 DEF HistoryTypeOK
  <2> QED
    BY <2>1, <2>2, <2>3 DEF TypeOK, PlaceTypeOK, HistoryTypeOK, Given
<1>2. Fifo
  <2>1. <<>> \in Seq(Message) /\ <<>> \o <<>> = <<>>
    BY EmptySeq, ConcatEmptySeq
  <2> QED
    BY <2>1 DEF Fifo
<1>3. Position /\ Answered
  <2>1. Position
    BY DEF Position
  <2>2. Answered
    BY DEF Answered
  <2> QED
    BY <2>1, <2>2
<1>4. History
  BY <1>0 DEF History, Upcoming
<1>5. RanInOrder /\ EnsuredBeforeRun
  BY <1>0 DEF RanInOrder, EnsuredBeforeRun
<1>6. Closing /\ EndIsFinal
  BY <1>0 DEF Closing, HasEnd, EndIsFinal
<1> QED
  BY <1>1, <1>2, <1>3, <1>4, <1>5, <1>6 DEF IInv

\* Every step keeps the inductive invariant.
LEMMA NextIInv == IInv /\ [Next]_vars => IInv'
<1> SUFFICES ASSUME IInv, [Next]_vars PROVE IInv'
  OBVIOUS
<1> USE DEF IInv
<1>1. TypeOK'
  BY TypeStep
<1>2. Fifo'
  BY NextIsChannelStep, FifoStep DEF TypeOK
<1>3. Position' /\ History' /\ RanInOrder'
  BY PositionStep, HistoryStep, RanInOrderStep
<1>4. Answered' /\ EnsuredBeforeRun'
  BY AnsweredStep, EnsuredBeforeRunStep
<1>5. Closing' /\ EndIsFinal'
  BY ClosingStep, EndIsFinalStep
<1> QED
  BY <1>1, <1>2, <1>3, <1>4, <1>5

\* The inductive invariant holds throughout: what do_apply, execute() and the
\* drain task keep in line with each other at every await.
THEOREM Invariance == Spec => []IInv
  BY InitIInv, NextIInv, PTL DEF Spec

\* execute() and its histories always have the types the code gives them: the
\* channel never holds more than its capacity, and no step leaves the blueprint.
THEOREM TypeCorrect == Spec => []TypeOK
  BY Invariance, PTL DEF IInv

\* SimpleLogSink to SimpleLogSource: no message is lost, repeated or reordered
\* between the executor and the drain task, whatever the capacity.
THEOREM LogIsFifo == Spec => []Fifo
  BY Invariance, PTL DEF IInv

\* No executor path sinks anything after PartialLogStream::End.
THEOREM NothingAfterEnd == Spec => []EndIsFinal
  BY Invariance, PTL DEF IInv

\* SshExecutor gives the host the commands of any plan in the order of its
\* blueprint, none skipped and none repeated.
THEOREM RunsInOrder == Spec => []RanInOrder
  BY Invariance, PTL DEF IInv

\* In any plan, a task's command reaches the host only after every ensure of
\* existence was answered with status zero, and none of absence was.
THEOREM EnsuresGuardTasks == Spec => []EnsuredBeforeRun
  BY Invariance, PTL DEF IInv

\* When do_apply returns Ok, all of the log was drained and the whole plan given.
LEMMA IInvOk == IInv => OkMeansAllShown
<1> SUFFICES ASSUME IInv, outcome = "ok" PROVE OkMeansAllShown
  BY DEF OkMeansAllShown
<1>0. TypeOK /\ ChannelTypeOK /\ HistoryTypeOK
  BY DEF IInv, TypeOK, HistoryTypeOK, Given
<1>1. /\ pc = "ok"
      /\ drain = "ended"
      /\ received # <<>> /\ received[Len(received)] = End
  BY DEF IInv, Closing
<1>2. received = sunk
  <2>1. /\ sunk = received \o chan
        /\ Len(sunk) = Len(received) + Len(chan)
        /\ Len(received) \in 1..Len(received)
        /\ sunk[Len(received)] = received[Len(received)]
    <3>1. sunk = received \o chan
      BY <1>1 DEF IInv, Fifo
    <3>2. /\ Len(received \o chan) = Len(received) + Len(chan)
          /\ \A i \in 1..Len(received) : (received \o chan)[i] = received[i]
      BY <1>0, ConcatProperties DEF ChannelTypeOK
    <3>3. Len(received) \in 1..Len(received)
      BY <1>0, <1>1, LenProperties, EmptySeq DEF ChannelTypeOK
    <3> QED
      BY <3>1, <3>2, <3>3
  <2>2. Len(received) = Len(sunk)
    BY <1>0, <1>1, <2>1, LenProperties DEF IInv, EndIsFinal, ChannelTypeOK
  <2>3. chan = <<>>
    BY <1>0, <2>1, <2>2, LenProperties, EmptySeq DEF ChannelTypeOK
  <2> QED
    BY <1>0, <2>1, <2>3, ConcatEmptySeq DEF ChannelTypeOK
<1>3. completed = NumTasks /\ task = NumTasks + 1 /\ step = 1
  BY <1>0, <1>1, NumTasksPositive DEF IInv, Position, TypeOK
<1>4. Len(codes) = Len(ran) /\ Upcoming = <<NumTasks + 1, 1>>
  BY <1>1, <1>3 DEF IInv, History
<1>5. ran[Len(ran)] = <<NumTasks, Len(Ensures[NumTasks]) + 1>>
  <2>1. ran # <<>>
    BY <1>4, NumTasksPositive DEF Upcoming
  <2>2. Len(ran) \in 1..Len(ran)
    BY <1>0, <2>1, LenProperties, EmptySeq DEF HistoryTypeOK
  <2> DEFINE c == ran[Len(ran)]
  <2>3. /\ c = <<c[1], c[2]>>
        /\ c[1] \in 1..NumTasks
        /\ c[2] \in Nat \ {0}
        /\ Len(Ensures[c[1]]) \in Nat
    BY <1>0, <2>2, RanElement
  <2>4. c[2] <= Len(Ensures[c[1]]) + 1
    BY <2>2 DEF IInv, History
  <2>5. After(c) = <<NumTasks + 1, 1>>
    BY <1>4, <2>1 DEF Upcoming
  <2>6. ~IsCheck(c[1], c[2]) /\ c[1] = NumTasks
    BY <2>3, <2>5, NumTasksPositive DEF After
  <2>7. c[2] = Len(Ensures[NumTasks]) + 1
    BY <2>3, <2>4, <2>6 DEF IsCheck
  <2> QED
    BY <2>3, <2>6, <2>7
<1> QED
  BY <1>1, <1>2, <1>3, <1>4, <1>5 DEF OkMeansAllShown

\* A good outcome of do_apply means that the log is complete and closed and that
\* the host was given every command of the plan.
THEOREM OkIsComplete == Spec => []OkMeansAllShown
  BY Invariance, IInvOk, PTL

-----------------------------------------------------------------------------
(***************************************************************************)
(* The hang.                                                               *)
(***************************************************************************)
\* A hung run whose lines were shown: the drain task polls an empty channel whose
\* only sender do_apply holds while it awaits the drain task.
Stalled == Hung /\ chan = <<>>

\* No step leads out of it: the executor has returned, do_apply has nothing to
\* join, and the drain task finds neither a message nor a dropped sender.
LEMMA StalledStep == IInv /\ Stalled /\ [Next]_vars => Stalled'
<1> SUFFICES ASSUME IInv, Stalled, [Next]_vars
             PROVE  Stalled'
  OBVIOUS
<1>0. /\ pc = "err" /\ outcome = "none" /\ drain = "running" /\ ~HasEnd /\ chan = <<>>
      /\ txAlive
  BY DEF Stalled, Hung, IInv, Closing
<1>1. ASSUME UNCHANGED <<chan, drain, sunk, pc, outcome>> PROVE Stalled'
  BY <1>0, <1>1 DEF Stalled, Hung, HasEnd
<1>2. ASSUME NEW from, NEW m, NEW to, SinkAt(from, m, to) PROVE pc = from
  BY <1>2 DEF SinkAt, Goto
<1>3. ~Executor
  BY <1>0, <1>2 DEF Executor, Begin, Connect, Authenticate, Refused, RefusedEnd,
     NextTask, NextEnsure, OpenChannel, Output, CommandReturns, TaskDone, Finish,
     RemoteError, Goto
<1>4. ~Setup /\ ~Join /\ ~Report
  BY <1>0 DEF Setup, Join, Report
<1>5. CASE SessionLost \/ Terminated \/ UNCHANGED vars
  BY <1>1, <1>5 DEF SessionLost, Terminated, vars, chanVars, execVars, applyVars
<1>6. CASE (Drain \/ DrainPanics) /\ UNCHANGED <<execVars, applyVars>>
  BY <1>0, <1>1, <1>6 DEF Drain, DrainBatch, DrainEnd, DrainEmpty, DrainLost,
     DrainPanics, TakeHead, chanVars, execVars, applyVars
<1> QED
  BY <1>3, <1>4, <1>5, <1>6 DEF Next

\* The caller prints what do_apply returned, so nothing before it has.
ReportedAfterReturn == report # "none" => outcome # "none"

LEMMA ReportedStep ==
  ReportedAfterReturn /\ [Next]_vars => ReportedAfterReturn'
<1> SUFFICES ASSUME ReportedAfterReturn, [Next]_vars
             PROVE  ReportedAfterReturn'
  OBVIOUS
<1>1. CASE outcome' # outcome
  BY <1>1, OutcomeChanges DEF ReportedAfterReturn, Setup, Join, execVars
<1>2. ASSUME NEW from, NEW m, NEW to, SinkAt(from, m, to) PROVE report' = report
  BY <1>2 DEF SinkAt, Goto, Fail, applyVars
<1>3. CASE outcome' = outcome /\ report' # report
  <2>1. ~Executor
    BY <1>2, <1>3 DEF Executor, Begin, Connect, Authenticate, Refused, RefusedEnd,
       NextTask, NextEnsure, OpenChannel, Output, CommandReturns, TaskDone, Finish,
       RemoteError, Goto, Fail, applyVars
  <2>2. Report
    BY <1>3, <2>1 DEF Next, Setup, SessionLost, Join, Terminated, applyVars, vars
  <2> QED
    BY <1>3, <2>2 DEF Report, ReportedAfterReturn
<1> QED
  BY <1>1, <1>3 DEF ReportedAfterReturn

\* What FailureIsReported finds on two tasks is for ever, on any plan: once the
\* executor has failed without closing the log and what it logged was shown, no
\* step of the host, the session or the drain task makes do_apply return, and its
\* caller never reports the host.
THEOREM HangIsFinal == Spec => [](Stalled => [](Hung /\ report = "none"))
<1>1. Init => ReportedAfterReturn
  BY DEF Init, ReportedAfterReturn
<1>2. Stalled /\ ReportedAfterReturn => Hung /\ report = "none"
  BY DEF Stalled, Hung, ReportedAfterReturn
<1> QED
  BY <1>1, <1>2, ReportedStep, StalledStep, Invariance, PTL DEF Spec

-----------------------------------------------------------------------------
(***************************************************************************)
(* Refinement: do_apply over SSH implements HostRun.                       *)
(***************************************************************************)
\* do_apply starts as HostRun does.
LEMMA InitRefines == Init => Promise!Init
  BY DEF Init, ChannelInit, Promise!Init

\* The drain task shows messages only while the run is neither closed nor good,
\* and do_apply returns Ok only on a closed log.
LEMMA StepRefines ==
  IInv /\ [Next]_vars => [Promise!Next]_(Promise!vars)
<1> SUFFICES ASSUME IInv, [Next]_vars
             PROVE  Promise!Next \/ UNCHANGED Promise!vars
  OBVIOUS
<1> USE DEF Promise!Next, Promise!vars, Promise!Show, Promise!ReturnOk,
            Promise!ReturnError, Promise!Closed
<1>0. /\ TypeOK
      /\ drain = "ended" <=> received # <<>> /\ received[Len(received)] = End
      /\ outcome = "ok" => drain = "ended"
      /\ drain = "lost" => outcome # "none"
  BY DEF IInv, Closing
<1>1. CASE outcome' # outcome
  <2>1. CASE Setup
    BY <1>0, <1>1, <2>1 DEF Setup, DropSender, IInv, Closing, chanVars
  <2>2. CASE Join
    BY <1>0, <2>2 DEF Join, DropSender, TypeOK, ChannelTypeOK, DrainState
  <2> QED
    BY <1>1, <2>1, <2>2, OutcomeChanges
<1>2. CASE outcome' = outcome /\ received' # received
  <2>1. CASE TakeHead /\ drain = "running"
    <3>1. Head(chan) \in Message
      BY <1>0, <2>1, HeadTailProperties DEF TakeHead, TypeOK, ChannelTypeOK
    <3> QED
      BY <1>0, <1>2, <2>1, <3>1 DEF TakeHead
  <2> QED
    BY <1>2, <2>1, NextIsChannelStep DEF ChannelStep, Sink, SinkFails,
       DropSender, Drain, DrainBatch, DrainEnd, DrainEmpty, DrainLost,
       DrainPanics, chanVars
<1> QED
  BY <1>1, <1>2

\* One application over SSH keeps what HostRun promises, for every plan and
\* every capacity of the log channel.
THEOREM Refinement == Spec => ImplementsHostRun
<1>1. Init => Promise!Init
  BY InitRefines
<1>2. IInv /\ [Next]_vars => [Promise!Next]_(Promise!vars)
  BY StepRefines
<1> QED
  BY <1>1, <1>2, Invariance, PTL DEF Spec, ImplementsHostRun, Promise!Spec
=============================================================================
