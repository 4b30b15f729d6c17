-------------------------- MODULE ProvisionProofs ---------------------------
(***************************************************************************)
(* Proofs about Provision, and Planning in it: for every set of tasks,     *)
(* every tree of paths, every machine, whatever the commands do to it and  *)
(* whatever a remote shell makes of a word.                                *)
(***************************************************************************)
EXTENDS Provision, TLAPS

\* A posted blueprint was not planned here.
FromSet == tasks \in TaskSets \/ (tasks = <<>> /\ result = "planned")

\* What is planned so far is what the tasks visited so far compile to.
Visited ==
  tasks # <<>> =>
    /\ Len(blueprint) = next - 1
    /\ \A i \in 1..(next - 1) :
         /\ blueprint[i] = Compiled(tasks[i])
         /\ ~Malformed(tasks[i]) /\ ~Panics(tasks[i])

\* No host is touched before the visitor has seen all tasks.
PlanFirst ==
  /\ result = "planned" /\ tasks # <<>> => next = Len(tasks) + 1
  /\ applied # "no" => result = "planned"
  /\ applied = "no" => at = 1 /\ check = 1

\* What an ensure of existence has found is so still, unless another process struck
\* after it.
Seen ==
  Applying /\ ~failed =>
    \A n \in 1..(check - 1) :
      LET e == ThisTask.ensures[n] IN
      e.kind \in Existence /\ AskedAsIs(e) /\ struck <= n => Promised(e)

IInv == TypeOK /\ FromSet /\ Visited /\ PlanFirst /\ Seen

-----------------------------------------------------------------------------
(***************************************************************************)
(* What the visitor makes of a task that it can compile.                   *)
(***************************************************************************)
\* The first word of a task that is compiled is one.
LEMMA FirstWord ==
  ASSUME NEW set \in TaskSets, NEW i \in DOMAIN set,
         ~Malformed(set[i]), ~Panics(set[i])
  PROVE  /\ set[i] \in Task
         /\ set[i].words \in Seq(Word)
         /\ set[i].words[1] \in Word
         /\ set[i].type = "TouchFile" => set[i].words[1] \in DOMAIN Parent
<1>1. set \in Seq(Task) /\ set[i] \in Task
  BY TasksAssumption
<1>2. set[i].words \in Seq(Word)
  BY <1>1 DEF Task
<1>3. set[i].words # <<>>
  <2>1. CASE set[i].type = "Command"
    BY <1>1, <2>1 DEF Malformed, Panics, Task
  <2>2. CASE set[i].type # "Command"
    <3> DEFINE words == set[i].words
    <3>1. Len(words) = 1
      BY <2>2, TasksAssumption
    <3>2. ASSUME words = <<>> PROVE FALSE
      <4>1. Len(words) = Len(<<>>)
        BY <3>2
      <4>2. Len(<<>>) = 0
        OBVIOUS
      <4> HIDE DEF words
      <4> QED
        BY <3>1, <4>1, <4>2
    <3> QED
      BY <3>2
  <2> QED
    BY <2>1, <2>2
<1>4. set[i].words[1] \in Word
  BY <1>2, <1>3
<1> QED
  BY <1>1, <1>2, <1>4 DEF Panics

\* A task that does not fail the plan is compiled to a planned task, whose
\* ensures ask for presence.
LEMMA CompiledIsPlanned ==
  ASSUME NEW set \in TaskSets, NEW i \in DOMAIN set,
         ~Malformed(set[i]), ~Panics(set[i])
  PROVE  /\ Compiled(set[i]) \in PlannedTask
         /\ \A n \in DOMAIN EnsuresOf(set[i]) :
              EnsuresOf(set[i])[n].kind \in {"ExeExists", "DirectoryExists"}
<1> DEFINE t == set[i]
<1>1. /\ t \in Task /\ t.words \in Seq(Word) /\ t.words[1] \in Word
      /\ t.type = "TouchFile" => t.words[1] \in DOMAIN Parent
  BY FirstWord
<1>2. /\ t.type \in {"Command", "CreateDirectory", "TouchFile"}
      /\ t.hosts \in SUBSET Host
  BY <1>1 DEF Task
<1>3. /\ EnsuresOf(t) \in Seq(Ensure) /\ CommandOf(t) \in Seq(Word)
      /\ \A n \in DOMAIN EnsuresOf(t) :
           EnsuresOf(t)[n].kind \in {"ExeExists", "DirectoryExists"}
  <2>1. CASE t.type = "Command"
    <3>1. /\ EnsuresOf(t) = <<[kind |-> "ExeExists", of |-> t.words[1]]>>
          /\ CommandOf(t) = t.words
      BY <2>1 DEF EnsuresOf, CommandOf
    <3>2. [kind |-> "ExeExists", of |-> t.words[1]] \in Ensure
      BY <1>1 DEF Ensure, Kind
    <3> QED
      BY <3>1, <3>2, <1>1
  <2>2. CASE t.type = "CreateDirectory"
    <3>1. /\ EnsuresOf(t) = <<[kind |-> "DirectoryExists", of |-> t.words[1]]>>
          /\ CommandOf(t) = <<"mkdir", t.words[1]>>
      BY <2>2 DEF EnsuresOf, CommandOf
    <3>2. [kind |-> "DirectoryExists", of |-> t.words[1]] \in Ensure
      BY <1>1 DEF Ensure, Kind
    <3>3. "mkdir" \in Word
      BY TasksAssumption
    <3> QED
      BY <3>1, <3>2, <3>3, <1>1
  <2>3. CASE t.type = "TouchFile"
    <3>1. /\ EnsuresOf(t) = <<[kind |-> "ExeExists", of |-> "touch"],
                              [kind |-> "DirectoryExists", of |-> Parent[t.words[1]]]>>
          /\ CommandOf(t) = <<"touch", t.words[1]>>
      BY <2>3 DEF EnsuresOf, CommandOf
    <3>2. "touch" \in Word /\ Parent[t.words[1]] \in Word
      BY <2>3, <1>1, TasksAssumption
    <3>3. /\ [kind |-> "ExeExists", of |-> "touch"] \in Ensure
          /\ [kind |-> "DirectoryExists", of |-> Parent[t.words[1]]] \in Ensure
      BY <3>2 DEF Ensure, Kind
    <3> QED
      BY <3>1, <3>2, <3>3, <1>1
  <2> QED
    BY <1>2, <2>1, <2>2, <2>3
<1> QED
  BY <1>2, <1>3 DEF Compiled, PlannedTask

-----------------------------------------------------------------------------
\* An ensure comes out one way or the other.
LEMMA OutcomesAreBoolean ==
  ASSUME NEW e
  PROVE  Outcomes(e) \subseteq BOOLEAN
BY DEF Outcomes, LocalPasses, SshPasses, PassesUnanswered

\* An ensure of existence passes only on an answer, and the answer is the truth when
\* the machine is asked about the word as it is.
LEMMA PassIsTruth ==
  ASSUME NEW e, e.kind \in Existence, AskedAsIs(e), TRUE \in Outcomes(e)
  PROVE  Promised(e)
<1>1. /\ PassesUnanswered(e) = FALSE
      /\ e.kind \in {"ExeExists", "DirectoryExists", "FileExists"}
  BY DEF PassesUnanswered, Existence, Absence
<1>2. CASE via = "local"
  BY <1>1, <1>2 DEF Outcomes, LocalPasses, Promised
<1>3. CASE via # "local"
  <2>1. SshPasses(e) = TRUE
    BY <1>1, <1>3 DEF Outcomes
  <2>2. Quoted[e.of] = e.of
    BY <1>3 DEF AskedAsIs
  <2> QED
    BY <1>1, <2>1, <2>2 DEF SshPasses, Promised
<1> QED
  BY <1>2, <1>3

-----------------------------------------------------------------------------
(***************************************************************************)
(* The invariant.                                                          *)
(***************************************************************************)
LEMMA InitIInv == Init => IInv
<1> SUFFICES ASSUME Init PROVE IInv
  OBVIOUS
<1> USE DEF Init
<1>1. CASE PlanInit
  <2>1. /\ tasks \in Seq(Task) /\ <<>> \in Seq(PlannedTask) /\ Len(<<>>) = 0
        /\ Len(tasks) \in Nat
    BY <1>1, TasksAssumption DEF PlanInit
  <2>2. PlanTypeOK
    BY <1>1, <2>1 DEF PlanInit, PlanTypeOK
  <2>3. TypeOK
    <3>1. Len(blueprint) = 0 /\ DOMAIN blueprint = {}
      BY <1>1 DEF PlanInit
    <3>2. /\ at \in 1..(Len(blueprint) + 1) /\ check \in Nat \ {0}
          /\ at \in DOMAIN blueprint => check <= Len(blueprint[at].ensures) + 1
          /\ struck \in 0..check
      BY <3>1
    <3> QED
      BY <2>2, <3>2 DEF TypeOK
  <2> QED
    BY <1>1, <2>1, <2>3 DEF PlanInit, IInv, FromSet, Visited, PlanFirst, Seen, Applying
<1>2. CASE tasks = <<>> /\ next = 1 /\ blueprint \in Posted /\ result = "planned"
  <2>1. /\ <<>> \in Seq(Task) /\ Len(<<>>) = 0
        /\ blueprint \in Seq(PlannedTask) /\ Len(blueprint) \in Nat
    BY <1>2, PostedAssumption
  <2>2. PlanTypeOK
    BY <1>2, <2>1 DEF PlanTypeOK
  <2>3. at \in DOMAIN blueprint => Len(blueprint[at].ensures) \in Nat
    BY <2>1 DEF PlannedTask
  <2>4. /\ at \in 1..(Len(blueprint) + 1) /\ check \in Nat \ {0}
        /\ at \in DOMAIN blueprint => check <= Len(blueprint[at].ensures) + 1
        /\ struck \in 0..check
    BY <2>1, <2>3
  <2>5. TypeOK
    BY <2>2, <2>4 DEF TypeOK
  <2> QED
    BY <1>2, <2>5 DEF IInv, FromSet, Visited, PlanFirst, Seen, Applying
<1> QED
  BY <1>1, <1>2

\* The ensures of the current task are a sequence.
LEMMA ThisTaskTyped ==
  ASSUME TypeOK, Applying
  PROVE  /\ at \in DOMAIN blueprint /\ ThisTask.ensures \in Seq(Ensure)
         /\ Len(ThisTask.ensures) \in Nat
         /\ check \in 1..(Len(ThisTask.ensures) + 1)
<1>1. at \in DOMAIN blueprint /\ blueprint \in Seq(PlannedTask)
  BY DEF TypeOK, PlanTypeOK, Applying
<1>2. ThisTask.ensures \in Seq(Ensure)
  <2>1. blueprint[at] \in PlannedTask
    BY <1>1
  <2> QED
    BY <2>1 DEF ThisTask, PlannedTask
<1> QED
  BY <1>1, <1>2 DEF TypeOK, ThisTask

\* The visitor adds one task at a time, to the end.
LEMMA VisitKeepsIInv ==
  ASSUME IInv, VisitTask, UNCHANGED hostVars
  PROVE  IInv'
<1> USE DEF IInv
<1>1. /\ tasks' = tasks /\ tasks \in TaskSets /\ tasks \in Seq(Task)
      /\ tasks # <<>> /\ next \in DOMAIN tasks /\ Len(tasks) \in Nat
      /\ Len(blueprint) = next - 1 /\ applied = "no" /\ at = 1 /\ check = 1
      /\ applied' = "no" /\ at' = 1 /\ check' = 1
  <2>1. /\ tasks' = tasks /\ tasks \in TaskSets /\ tasks \in Seq(Task)
        /\ next \in DOMAIN tasks /\ Len(tasks) \in Nat
    BY DEF VisitTask, FromSet, TypeOK, PlanTypeOK
  <2>2. tasks # <<>>
    BY <2>1
  <2>3. applied = "no" /\ at = 1 /\ check = 1
    BY DEF VisitTask, PlanFirst
  <2> QED
    BY <2>1, <2>2, <2>3 DEF Visited, hostVars
<1>2. CASE UNCHANGED <<next, blueprint>> /\ result' \in {"error", "panicked"}
  <2>1. TypeOK'
    BY <1>1, <1>2 DEF TypeOK, PlanTypeOK, hostVars, System, InDirectory
  <2> QED
    BY <1>1, <1>2, <2>1 DEF FromSet, Visited, PlanFirst, Seen, Applying
<1>3. CASE /\ ~Malformed(Current) /\ ~Panics(Current)
           /\ blueprint' = Append(blueprint, Compiled(Current))
           /\ next' = next + 1 /\ UNCHANGED result
  <2>1. Compiled(Current) \in PlannedTask /\ Compiled(Current).ensures \in Seq(Ensure)
    BY <1>1, <1>3, CompiledIsPlanned DEF Current, PlannedTask
  <2>2. /\ blueprint \in Seq(PlannedTask) /\ Len(blueprint) \in Nat
        /\ blueprint' \in Seq(PlannedTask)
        /\ Len(blueprint') = next
        /\ blueprint'[next] = Compiled(Current)
        /\ \A i \in 1..(next - 1) : blueprint'[i] = blueprint[i]
    BY <1>1, <1>3, <2>1 DEF TypeOK, PlanTypeOK
  <2>3. next' \in 1..(Len(tasks) + 1) /\ result' = "planning"
    BY <1>1, <1>3 DEF VisitTask
  <2>4. PlanTypeOK'
    BY <1>1, <2>2, <2>3 DEF PlanTypeOK
  <2>5. blueprint'[1] \in PlannedTask /\ at' \in 1..(Len(blueprint') + 1)
    BY <1>1, <2>2
  <2>6. Len(blueprint'[at'].ensures) \in Nat
    BY <1>1, <2>5 DEF PlannedTask
  <2>7. TypeOK'
    BY <1>1, <2>4, <2>5, <2>6 DEF TypeOK, hostVars, System, InDirectory
  <2>8. Visited'
    <3>1. /\ Len(blueprint') = next' - 1 /\ next' - 1 = next
          /\ 1..next = 1..(next - 1) \cup {next}
      BY <1>1, <1>3, <2>2
    <3>2. ASSUME NEW i \in 1..(next - 1)
          PROVE  /\ blueprint'[i] = Compiled(tasks[i])
                 /\ ~Malformed(tasks[i]) /\ ~Panics(tasks[i])
      BY <1>1, <2>2 DEF Visited
    <3>3. /\ blueprint'[next] = Compiled(tasks[next])
          /\ ~Malformed(tasks[next]) /\ ~Panics(tasks[next])
      BY <1>3, <2>2 DEF Current
    <3>4. \A i \in 1..next :
            /\ blueprint'[i] = Compiled(tasks[i])
            /\ ~Malformed(tasks[i]) /\ ~Panics(tasks[i])
      BY <3>1, <3>2, <3>3
    <3>5. \A i \in 1..next :
            /\ Compiled(tasks[i])' = Compiled(tasks[i])
            /\ Malformed(tasks[i])' = Malformed(tasks[i])
            /\ Panics(tasks[i])' = Panics(tasks[i])
      BY <1>1 DEF Compiled, CommandOf, EnsuresOf, Malformed, Panics
    <3> QED
      BY <1>1, <3>1, <3>4, <3>5 DEF Visited
  <2> QED
    BY <1>1, <2>3, <2>7, <2>8 DEF FromSet, PlanFirst, Seen, Applying
<1> QED
  BY <1>2, <1>3 DEF VisitTask

\* A step that leaves the plan alone keeps what was shown of the plan.
LEMMA PlanKept ==
  ASSUME IInv, UNCHANGED planVars
  PROVE  PlanTypeOK' /\ FromSet' /\ Visited'
BY DEF IInv, TypeOK, PlanTypeOK, FromSet, Visited, planVars,
   Malformed, Panics, Compiled, CommandOf, EnsuresOf

LEMMA FinishKeepsIInv ==
  ASSUME IInv, FinishPlan, UNCHANGED hostVars
  PROVE  IInv'
<1>1. TypeOK'
  BY DEF IInv, TypeOK, PlanTypeOK, FinishPlan, hostVars, System, InDirectory
<1>2. FromSet' /\ Visited'
  BY DEF IInv, FromSet, Visited, FinishPlan,
     Malformed, Panics, Compiled, CommandOf, EnsuresOf
<1>3. PlanFirst'
  BY DEF IInv, TypeOK, PlanTypeOK, PlanFirst, FinishPlan, hostVars
<1>4. Seen'
  BY DEF IInv, PlanFirst, FinishPlan, Seen, Applying, hostVars
<1> QED
  BY <1>1, <1>2, <1>3, <1>4 DEF IInv

LEMMA BeginKeepsIInv ==
  ASSUME IInv, Begin
  PROVE  IInv'
<1>1. PlanTypeOK' /\ FromSet' /\ Visited'
  BY PlanKept DEF Begin
<1>2. TypeOK'
  BY <1>1 DEF IInv, TypeOK, Begin, planVars
<1>3. PlanFirst'
  BY DEF IInv, PlanFirst, Begin, planVars
<1>4. Seen'
  BY DEF IInv, PlanFirst, Seen, Begin
<1> QED
  BY <1>1, <1>2, <1>3, <1>4 DEF IInv

\* An ensure that is seen to hold is one more of those that hold.
LEMMA EnsureKeepsIInv ==
  ASSUME IInv, EnsureOne
  PROVE  IInv'
<1>1. PlanTypeOK' /\ FromSet' /\ Visited'
  BY PlanKept DEF EnsureOne
<1>2. /\ TypeOK /\ Applying
      /\ check \in 1..Len(ThisTask.ensures)
      /\ Len(ThisTask.ensures) \in Nat
      /\ check' = check + 1
  BY ThisTaskTyped DEF IInv, EnsureOne
<1>3. TypeOK'
  BY <1>1, <1>2 DEF TypeOK, EnsureOne, ThisTask, planVars
<1>4. PlanFirst'
  BY <1>2 DEF IInv, PlanFirst, EnsureOne, Applying, planVars
<1>5. Seen'
  <2>1. ASSUME ~failed', NEW n \in 1..check,
               ThisTask.ensures[n].kind \in Existence, AskedAsIs(ThisTask.ensures[n]),
               struck <= n
        PROVE  Promised(ThisTask.ensures[n])
    <3>1. ~failed /\ TRUE \in Outcomes(ThisTask.ensures[check])
      <4>1. PICK pass \in Outcomes(ThisTask.ensures[check]) : failed' = (failed \/ ~pass)
        BY DEF EnsureOne
      <4> QED
        BY <2>1, <4>1, OutcomesAreBoolean
    <3>2. CASE n = check
      BY <2>1, <3>1, <3>2, PassIsTruth
    <3>3. CASE n # check
      <4>1. n \in 1..(check - 1)
        BY <1>2, <3>3
      <4> QED
        BY <1>2, <2>1, <3>1, <4>1 DEF IInv, Seen
    <3> QED
      BY <3>2, <3>3
  <2>2. UNCHANGED <<blueprint, via, exes, fs, at, struck>> /\ check' - 1 = check
    BY <1>2 DEF EnsureOne, planVars
  <2> QED
    BY <2>1, <2>2 DEF Seen, Promised, NodeAt, AskedAsIs, ThisTask
<1> QED
  BY <1>1, <1>3, <1>4, <1>5 DEF IInv

LEMMA RunKeepsIInv ==
  ASSUME IInv, RunCommand
  PROVE  IInv'
<1>1. PlanTypeOK' /\ FromSet' /\ Visited'
  BY PlanKept DEF RunCommand
<1>2. TypeOK /\ Applying /\ at \in 1..Len(blueprint) /\ Len(blueprint) \in Nat
  <2>1. TypeOK /\ Applying
    BY DEF IInv, RunCommand, Ready
  <2>2. Len(blueprint) \in Nat
    BY <2>1 DEF TypeOK, PlanTypeOK
  <2> QED
    BY <2>1, <2>2 DEF TypeOK, Applying
<1>3. at' \in DOMAIN blueprint => Len(blueprint[at'].ensures) \in Nat
  BY DEF IInv, TypeOK, PlanTypeOK, PlannedTask
<1>4. TypeOK'
  BY <1>1, <1>2, <1>3 DEF TypeOK, RunCommand, planVars
<1> QED
  BY <1>1, <1>2, <1>4 DEF IInv, PlanFirst, Seen, Applying, RunCommand, planVars

\* The other steps of the executors, and those of other processes.
LEMMA OtherKeepsIInv ==
  ASSUME IInv, EnsuresFailed \/ Complete \/ StopByError \/ Disturb \/ UNCHANGED vars
  PROVE  IInv'
<1>1. PlanTypeOK' /\ FromSet' /\ Visited'
  BY PlanKept DEF EnsuresFailed, Complete, StopByError, Disturb, vars
<1>2. CASE EnsuresFailed \/ Complete \/ StopByError
  <2>1. TypeOK'
    BY <1>1, <1>2 DEF IInv, TypeOK, EnsuresFailed, Complete, StopByError, planVars
  <2> QED
    BY <1>1, <1>2, <2>1
    DEF IInv, PlanFirst, Seen, Applying, EnsuresFailed, Complete, StopByError, planVars
<1>3. CASE Disturb
  <2>1. TypeOK'
    BY <1>1, <1>3 DEF IInv, TypeOK, Disturb, planVars
  <2>2. PlanFirst'
    BY <1>3 DEF IInv, PlanFirst, Disturb, planVars
  <2>3. Seen'
    BY <1>3, <2>1 DEF Seen, TypeOK, Disturb
  <2> QED
    BY <1>1, <2>1, <2>2, <2>3 DEF IInv
<1>4. CASE UNCHANGED vars
  <2>1. TypeOK'
    BY <1>1, <1>4 DEF IInv, TypeOK, vars, hostVars, planVars
  <2>2. PlanFirst'
    BY <1>4 DEF IInv, PlanFirst, vars, hostVars, planVars
  <2>3. Seen'
    BY <1>4 DEF IInv, Seen, Applying, Promised, AskedAsIs, NodeAt,
       ThisTask, vars, hostVars, planVars
  <2> QED
    BY <1>1, <2>1, <2>2, <2>3 DEF IInv
<1> QED
  BY <1>2, <1>3, <1>4

LEMMA NextIInv == IInv /\ [Next]_vars => IInv'
<1> SUFFICES ASSUME IInv, [Next]_vars PROVE IInv'
  OBVIOUS
<1>1. CASE PlanStep
  BY <1>1, VisitKeepsIInv, FinishKeepsIInv DEF PlanStep
<1>2. CASE Begin
  BY <1>2, BeginKeepsIInv
<1>3. CASE EnsureOne
  BY <1>3, EnsureKeepsIInv
<1>4. CASE RunCommand
  BY <1>4, RunKeepsIInv
<1>5. CASE EnsuresFailed \/ Complete \/ StopByError \/ Disturb \/ UNCHANGED vars
  BY <1>5, OtherKeepsIInv
<1> QED
  BY <1>1, <1>2, <1>3, <1>4, <1>5 DEF Next, Terminated

THEOREM ProvisionInvariance == Spec => []IInv
<1> QED
  BY InitIInv, NextIInv, PTL DEF Spec

-----------------------------------------------------------------------------
(***************************************************************************)
(* The theorems.                                                           *)
(***************************************************************************)
\* Every variable keeps its type: what the visitor makes is a plan, and the
\* ensures of a task are put to the machine one after the other and no further.
THEOREM ProvisionTypeCorrect == Spec => []TypeOK
<1>1. IInv => TypeOK
  BY DEF IInv
<1> QED
  BY <1>1, ProvisionInvariance, PTL

\* A plan that is applied was made of every task of its set: one line that
\* cannot be split, or one panic of the visitor, and no host is touched.
THEOREM PlansAreWhole == Spec => []PlannedWhole
<1>1. IInv => PlannedWhole
  <2> SUFFICES ASSUME IInv, tasks # <<>>, applied # "no"
               PROVE  /\ Len(blueprint) = Len(tasks)
                      /\ \A i \in DOMAIN tasks :
                           /\ ~Malformed(tasks[i]) /\ ~Panics(tasks[i])
                           /\ blueprint[i].hosts = tasks[i].hosts
    BY DEF PlannedWhole
  <2>1. /\ tasks \in Seq(Task) /\ Len(tasks) \in Nat
        /\ next = Len(tasks) + 1
    BY DEF IInv, TypeOK, PlanTypeOK, PlanFirst
  <2>2. Len(blueprint) = Len(tasks) /\ DOMAIN tasks = 1..(next - 1)
    BY <2>1 DEF IInv, Visited
  <2>3. ASSUME NEW i \in DOMAIN tasks
        PROVE  /\ blueprint[i] = Compiled(tasks[i])
               /\ ~Malformed(tasks[i]) /\ ~Panics(tasks[i])
    BY <2>2 DEF IInv, Visited
  <2>4. \A i \in DOMAIN tasks : Compiled(tasks[i]).hosts = tasks[i].hosts
    BY DEF Compiled
  <2> QED
    BY <2>2, <2>3, <2>4
<1> QED
  BY <1>1, ProvisionInvariance, PTL

\* Whatever the plan, the machine and the shell, and whatever the earlier commands
\* did: when a command is about to be given, the ensures of its task hold at that
\* moment, those of existence or all that the planner made, unless another process
\* struck since they were looked at.
THEOREM ReadyIsEnsured == Spec => []EnsuredWhenReady
<1>1. IInv => EnsuredWhenReady
  <2> SUFFICES ASSUME IInv, Ready, NEW n \in DOMAIN ThisTask.ensures,
                      \/ ThisTask.ensures[n].kind \in Existence
                      \/ tasks # <<>>,
                      AskedAsIs(ThisTask.ensures[n]), struck <= n
               PROVE  Promised(ThisTask.ensures[n])
    BY DEF EnsuredWhenReady
  <2>1. Applying /\ ~failed /\ check > Len(ThisTask.ensures)
    BY DEF Ready
  <2>2. n \in 1..(check - 1) /\ at \in DOMAIN blueprint
    BY <2>1, ThisTaskTyped DEF IInv
  <2>3. ThisTask.ensures[n].kind \in Existence
    <3> SUFFICES ASSUME tasks # <<>> PROVE ThisTask.ensures[n].kind \in Existence
      OBVIOUS
    <3>1. /\ tasks \in TaskSets /\ blueprint \in Seq(PlannedTask)
          /\ next \in 1..(Len(tasks) + 1) /\ Len(tasks) \in Nat
      BY TasksAssumption DEF IInv, TypeOK, PlanTypeOK, FromSet
    <3>2. at \in 1..(next - 1) /\ at \in DOMAIN tasks
      BY <2>2, <3>1 DEF IInv, Visited
    <3>3. /\ ThisTask.ensures = EnsuresOf(tasks[at])
          /\ ~Malformed(tasks[at]) /\ ~Panics(tasks[at])
      BY <3>2 DEF IInv, Visited, Compiled, ThisTask
    <3> QED
      BY <3>1, <3>2, <3>3, CompiledIsPlanned DEF Existence
  <2> QED
    BY <2>1, <2>2, <2>3 DEF IInv, Seen
<1> QED
  BY <1>1, ProvisionInvariance, PTL
=============================================================================
