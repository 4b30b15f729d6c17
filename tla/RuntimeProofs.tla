--------------------------- MODULE RuntimeProofs ----------------------------
(***************************************************************************)
(* Proofs about Runtime, for every set of hosts and every number of        *)
(* workers.                                                                *)
(***************************************************************************)
EXTENDS Runtime, FiniteSetTheorems, TLAPS

\* How the drain task, the run and the report of a host go together.
Together ==
  \A h \in Host :
    /\ drain[h] = "none" => run[h] \in {"unpolled", "dropped"}
    /\ run[h] = "unpolled" => drain[h] = "none"
    /\ drain[h] = "none" => sunk[h] = shown[h]
    /\ drain[h] = "ended" => shown[h] = sunk[h] /\ run[h] \in {"closed", "left", "dropped"}
    /\ drain[h] = "dropped" => main # "running"
    /\ h \in reported => Over(h)

\* A program that ends has reported every host or dropped what it had not, and left
\* no task to be taken.
Leaving ==
  /\ main # "running" =>
       \A h \in Host : /\ drain[h] # "queued"
                       /\ h \in reported \/ run[h] \in {"closed", "left", "dropped"}
  /\ main = "exited" => Running = {}

IInv == TypeOK /\ Together /\ Leaving

-----------------------------------------------------------------------------
(***************************************************************************)
(* The set of hosts whose drain task has a worker.                         *)
(***************************************************************************)
\* It is finite, and so are its subsets, which are no larger.
LEMMA RunningIsFinite ==
  /\ IsFiniteSet(Running) /\ Cardinality(Running) \in Nat
  /\ \A S \in SUBSET Running :
       /\ IsFiniteSet(S) /\ Cardinality(S) \in Nat
       /\ Cardinality(S) <= Cardinality(Running)
       /\ Cardinality(S) = Cardinality(Running) => S = Running
<1>1. Running \subseteq Host
  BY DEF Running
<1>2. IsFiniteSet(Running)
  BY <1>1, HostsAssumption, FS_Subset
<1> QED
  BY <1>2, FS_Subset, FS_CardinalityType

\* A worker that is free takes one more.
LEMMA TakeFitsWorkers ==
  ASSUME TypeOK, NEW h \in Host, Take(h)
  PROVE  Cardinality(Running') <= workers
<1>1. Running' = Running \cup {h} /\ h \notin Running
  BY DEF TypeOK, Take, Running
<1>2. Cardinality(Running') = Cardinality(Running) + 1
  BY <1>1, RunningIsFinite, FS_AddElement
<1> QED
  BY <1>2, RunningIsFinite DEF Take, FreeWorker, TypeOK

\* Without a step of Take the set does not grow.
LEMMA ShrinkingFitsWorkers ==
  ASSUME TypeOK, Running' \subseteq Running
  PROVE  Cardinality(Running') <= workers
<1>1. Cardinality(Running') \in Nat /\ Cardinality(Running') <= Cardinality(Running)
  BY RunningIsFinite
<1> QED
  BY <1>1, RunningIsFinite DEF TypeOK, Running

-----------------------------------------------------------------------------
(***************************************************************************)
(* The inductive invariant.                                                *)
(***************************************************************************)
LEMMA InitIInv == Init => IInv
<1> SUFFICES ASSUME Init PROVE IInv
  OBVIOUS
<1>1. Running = {}
  BY DEF Init, Running
<1>2. Cardinality(Running) = 0
  BY <1>1, FS_EmptySet
<1> QED
  BY <1>1, <1>2, BoundsAssumption DEF Init, IInv, TypeOK, Together, Leaving, Running

LEMMA NextIInv == IInv /\ [Next]_vars => IInv'
<1> SUFFICES ASSUME IInv, [Next]_vars PROVE IInv'
  OBVIOUS
<1> USE BoundsAssumption DEF IInv, TypeOK, Together, Leaving, Over, FreeWorker, countVars
<1>1. ASSUME NEW h \in Host, Drive(h) PROVE IInv'
  <2>1. Running' = Running
    BY <1>1 DEF Drive, Poll, Setup, Sink, Wait, Close, Fail, Report, Running
  <2>2. Cardinality(Running') <= workers'
    BY <1>1, <2>1 DEF Drive, Poll, Setup, Sink, Wait, Close, Fail, Report, Running
  <2>3. CASE Poll(h)
    BY <2>1, <2>2, <2>3 DEF Poll, Running
  <2>4. CASE Setup(h)
    BY <2>1, <2>2, <2>4 DEF Setup, Running
  <2>5. CASE Sink(h)
    BY <2>1, <2>2, <2>5 DEF Sink, Room, Running
  <2>6. CASE Wait(h)
    BY <2>1, <2>2, <2>6 DEF Wait, Running
  <2>7. CASE Close(h)
    BY <2>1, <2>2, <2>7 DEF Close, Running
  <2>8. CASE Fail(h)
    BY <2>1, <2>2, <2>8 DEF Fail, Running
  <2>9. CASE Report(h)
    BY <2>1, <2>2, <2>9 DEF Report, Running
  <2> QED
    BY <1>1, <2>3, <2>4, <2>5, <2>6, <2>7, <2>8, <2>9 DEF Drive
<1>2. ASSUME NEW h \in Host, Answer(h) PROVE IInv'
  <2>1. Running' = Running
    BY <1>2 DEF Answer, Running
  <2> QED
    BY <1>2, <2>1 DEF Answer, Running
<1>3. ASSUME NEW h \in Host, Take(h) PROVE IInv'
  <2>1. Cardinality(Running') <= workers
    BY <1>3, TakeFitsWorkers
  <2> QED
    BY <1>3, <2>1 DEF Take, Running
<1>4. ASSUME NEW h \in Host, Show(h) PROVE IInv'
  <2>1. Running' = Running
    BY <1>4 DEF Show, Running
  <2> QED
    BY <1>4, <2>1 DEF Show, Running
<1>5. ASSUME NEW h \in Host, Leave(h) PROVE IInv'
  <2>1. Running' \subseteq Running
    BY <1>5 DEF Leave, Running
  <2>2. Cardinality(Running') <= workers
    BY <2>1, ShrinkingFitsWorkers
  <2> QED
    BY <1>5, <2>1, <2>2 DEF Leave, Running
<1>6. CASE Return
  <2>1. Running' = Running
    BY <1>6 DEF Return, Shutdown, Running
  <2> QED
    BY <1>6, <2>1 DEF Return, Shutdown, Running
<1>9. CASE MainPanics
  <2>1. Running' = Running
    BY <1>9 DEF MainPanics, Shutdown, Running
  <2> QED
    BY <1>9, <2>1 DEF MainPanics, Shutdown, Running
<1>10. ASSUME NEW h \in Host, DrainPanics(h) PROVE IInv'
  <2>1. Running' \subseteq Running
    BY <1>10 DEF DrainPanics, Running
  <2>2. Cardinality(Running') <= workers
    BY <2>1, ShrinkingFitsWorkers
  <2> QED
    BY <1>10, <2>1, <2>2 DEF DrainPanics, Running
<1>7. CASE Exit
  <2>1. Running' = Running
    BY <1>7 DEF Exit, Running
  <2> QED
    BY <1>7, <2>1 DEF Exit, Running
<1>8. CASE UNCHANGED vars
  BY <1>8 DEF vars, countVars, Running
<1> QED
  BY <1>1, <1>2, <1>3, <1>4, <1>5, <1>6, <1>7, <1>8, <1>9, <1>10
  DEF Next, Drain

LEMMA RuntimeInvariance == Spec => []IInv
<1> QED
  BY InitIInv, NextIInv, PTL DEF Spec

-----------------------------------------------------------------------------
\* Type correctness; in particular, no more drain tasks run than there are
\* workers, and a channel never holds more than its capacity.
THEOREM RuntimeTypeCorrect == Spec => []TypeOK
<1>1. IInv => TypeOK
  BY DEF IInv
<1> QED
  BY <1>1, RuntimeInvariance, PTL

\* However many hosts and workers there are, the program that has ended has shown
\* all lines of a host, unless a println! of its drain task panicked, or no worker
\* had taken that task when main() returned from a run that failed on this machine
\* or panicked before it reported the host.
THEOREM LogsAreShown == Spec => []LostLogsWereCutOff
<1>1. IInv => LostLogsWereCutOff
  BY DEF IInv, TypeOK, Together, Leaving, Over, Running, LostLogsWereCutOff
<1> QED
  BY <1>1, RuntimeInvariance, PTL

\* When all workers are in drain tasks of runs that wait, no step of the program but
\* a println! that panics frees one of them, whatever the hosts and the number of
\* workers.
THEOREM StarvationIsFinal == Spec => OnlyPanicsEndStarvation
<1> DEFINE Freed ==
      Starved =>
        \/ Starved'
        \/ \E h \in Host : drain[h] = "running" /\ drain'[h] = "panicked"
        \/ main' # main /\ reported # Host
<1>1. IInv /\ [Next]_vars => [Freed]_vars
  <2> SUFFICES ASSUME IInv, [Next]_vars, Starved,
                      \A h \in Host : ~(drain[h] = "running" /\ drain'[h] = "panicked"),
                      ~(main' # main /\ reported # Host)
               PROVE  Starved'
    OBVIOUS
  <2> DEFINE Held == {"waiting", "failed", "stuck"}
             S == {h \in Running : run[h] \in Held}
  <2>1. Cardinality(S) = workers /\ S \subseteq Running
    BY DEF Starved
  <2>2. S = Running /\ Cardinality(Running) = workers
    BY <2>1, RunningIsFinite DEF IInv, TypeOK, Running
  <2>3. ~FreeWorker
    BY <2>2 DEF FreeWorker, IInv, TypeOK
  <2>4. \A h \in Running : drain[h] = "running" /\ run[h] \in Held /\ h \in Host
    BY <2>2 DEF Running
  <2>5. reported # Host
    <3>1. Running # {}
      <4>1. workers # 0
        BY DEF IInv, TypeOK
      <4> QED
        BY <2>2, <4>1, FS_EmptySet
    <3>2. PICK h \in Host : drain[h] = "running" /\ run[h] \in Held
      BY <2>4, <3>1
    <3>3. ~Over(h)
      BY <3>2 DEF Over
    <3> QED
      BY <3>2, <3>3 DEF IInv, Together
  <2>6. S' = S /\ workers' = workers
    <3>1. ASSUME NEW h \in Host, Drive(h) PROVE S' = S /\ workers' = workers
      BY <2>4, <3>1
         DEF Drive, Poll, Setup, Sink, Wait, Close, Fail, Report, Running, IInv, TypeOK
    <3>2. ASSUME NEW h \in Host, Show(h) PROVE S' = S /\ workers' = workers
      BY <3>2 DEF Show, Running
    <3>3. ASSUME NEW h \in Host, Leave(h) PROVE FALSE
      BY <2>4, <3>3 DEF Leave, Running
    <3>4. ASSUME NEW h \in Host, DrainPanics(h) PROVE FALSE
      BY <3>4 DEF DrainPanics, IInv, TypeOK
    <3>5. ASSUME Return \/ MainPanics PROVE FALSE
      BY <2>5, <3>5 DEF Return, MainPanics, Shutdown
    <3>6. ASSUME Exit \/ UNCHANGED vars PROVE S' = S /\ workers' = workers
      BY <3>6 DEF Exit, Running, vars
    <3> QED
      BY <2>3, <3>1, <3>2, <3>3, <3>4, <3>5, <3>6 DEF Next, Answer, Drain, Take
  <2> QED
    BY <2>1, <2>6 DEF Starved
<1> QED
  BY <1>1, RuntimeInvariance, PTL DEF Spec, OnlyPanicsEndStarvation
=============================================================================
