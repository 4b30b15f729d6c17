---------------------------- MODULE FanOutProofs ----------------------------
(***************************************************************************)
(* Proofs about FanOut, for every set of plans and of host files.  The     *)
(* argument is about the mentions whose turn has come: IInv says that the  *)
(* futures made so far are theirs, and that the first loop polls none.     *)
(***************************************************************************)
EXTENDS FanOut, TLAPS

\* A mention is a group's name and an index in the list of that group.
LEMMA MentionFacts ==
  ASSUME TypeOK, NEW m \in Mentions
  PROVE  /\ m[1] \in DOMAIN file.groups
         /\ m[2] \in 1..Len(file.groups[m[1]])
         /\ m = <<m[1], m[2]>>
         /\ m \in AnyMention
<1>1. PICK g \in DOMAIN file.groups : m \in {g} \X (1..Len(file.groups[g]))
  BY DEF Mentions, MentionsIn
<1>2. m \in AnyMention
  BY DEF TypeOK, AnyMention, Mentions
<1> QED
  BY <1>1, <1>2

\* A list has a length, so a place in it is before, at or after any other.
LEMMA LengthIsNat ==
  ASSUME FilesAssumption, TypeOK, NEW g \in DOMAIN file.groups
  PROVE  Len(file.groups[g]) \in Nat
<1>1. file.groups \in [DOMAIN file.groups -> Seq(DOMAIN file.kind)]
  BY DEF FilesAssumption, TypeOK
<1>2. file.groups[g] \in Seq(DOMAIN file.kind)
  BY <1>1
<1> QED
  BY <1>2

\* The input of the loops is read and never changed, and so is what the loops
\* derive from it.
LEMMA SameInput ==
  ASSUME UNCHANGED input
  PROVE  /\ Mentions' = Mentions
         /\ \A m : /\ PlanForHost(HostOf(m))' = PlanForHost(HostOf(m))
                   /\ Accepts(m)' = Accepts(m)
BY DEF input, Mentions, PlanForHost, HostOf, Applies, GroupNames, Accepts, Kind

-----------------------------------------------------------------------------
\* Before the loops start no mention was visited and no future made.
LEMMA InitIInv == Init => IInv
<1> SUFFICES ASSUME Init PROVE IInv
  OBVIOUS
<1>1. TypeOK
  BY DEF Init, TypeOK, FutureState
<1>2. Pushed = {}
  BY DEF Init, Pushed
<1>3. Visited = {}
  BY <1>1, MentionFacts DEF Init, Visited
<1> QED
  BY <1>1, <1>2, <1>3 DEF Init, IInv

-----------------------------------------------------------------------------
(***************************************************************************)
(* The first loop preserves the invariant.                                 *)
(***************************************************************************)
\* The next group starts only when the list of the one before is exhausted, so
\* that no mention of it is passed over.
LEMMA NextGroupInv ==
  ASSUME FilesAssumption, IInv, NextGroup
  PROVE  IInv'
<1> USE DEF NextGroup
<1>1. PICK g \in toVisit : toVisit' = toVisit \ {g} /\ group' = {g}
  OBVIOUS
<1>2. TypeOK'
  BY <1>1 DEF IInv, TypeOK, input, Mentions
<1>3. Pushed' = Pushed
  BY DEF Pushed
<1>4. Visited' = Visited
  <2> SUFFICES ASSUME NEW m \in Mentions
               PROVE  /\ m[1] \notin toVisit' /\ (m[1] \in group' => m[2] < pos')
                    <=> m[1] \notin toVisit /\ (m[1] \in group => m[2] < pos)
    BY SameInput DEF Visited
  <2>1. /\ m[1] \in DOMAIN file.groups
        /\ m[2] \in 1..Len(file.groups[m[1]])
        /\ Len(file.groups[m[1]]) \in Nat
    BY MentionFacts, LengthIsNat DEF IInv
  <2>2. m[1] \in group => m[2] < pos
    BY <2>1 DEF Exhausted, IInv, TypeOK
  <2>3. CASE m[1] = g
    BY <1>1, <2>1, <2>3
  <2>4. CASE m[1] # g
    BY <1>1, <2>2, <2>4
  <2> QED
    BY <2>3, <2>4
<1> QED
  BY <1>1, <1>2, <1>3, <1>4, SameInput DEF IInv, Exhausted

\* Going on in the list of a group visits the mention whose turn it was, no other.
LEMMA VisitsHere ==
  ASSUME FilesAssumption, IInv, NEW m \in Mentions, Here(m),
         pos' = pos + 1, UNCHANGED <<input, toVisit, group>>
  PROVE  Visited' = Visited \cup {m} /\ m \notin Visited
<1>1. \A o \in Mentions : /\ o[1] \in DOMAIN file.groups
                          /\ o[2] \in Nat
                          /\ o = <<o[1], o[2]>>
  BY MentionFacts DEF IInv
<1>2. \A o, n \in group : o = n
  BY DEF IInv, TypeOK
<1>3. \A o \in Mentions : o[1] \in group => (o[2] < pos' <=> o[2] < pos \/ o = m)
  <2> SUFFICES ASSUME NEW o \in Mentions, o[1] \in group
               PROVE  o[2] < pos' <=> o[2] < pos \/ o = m
    OBVIOUS
  <2>1. o[1] = m[1]
    BY <1>2 DEF Here
  <2>2. m[2] = pos /\ pos \in Nat
    BY DEF Here, IInv, TypeOK
  <2>3. o = m <=> o[2] = pos
    BY <1>1, <2>1, <2>2
  <2> QED
    BY <1>1, <2>2, <2>3
<1>4. m[1] \in group /\ m[1] \notin toVisit /\ m[2] = pos /\ pos \in Nat
  BY DEF Here, IInv, TypeOK
<1> QED
  BY <1>3, <1>4, SameInput DEF Visited

\* A mention without tasks is visited, and no future is made for it.
LEMMA SkipInv ==
  ASSUME FilesAssumption, IInv, NEW m \in Mentions, Skip(m)
  PROVE  IInv'
<1> USE DEF Skip
<1>1. TypeOK'
  BY DEF IInv, TypeOK, input, Mentions
<1>2. Visited' = Visited \cup {m}
  BY VisitsHere
<1>3. Pushed' = Pushed
  BY DEF Pushed
<1>4. pc = "preparing"
  BY DEF Here
<1> QED
  BY <1>1, <1>2, <1>3, <1>4, SameInput DEF IInv

\* A mention with tasks is visited, and a future is made for it and left alone.
LEMMA PrepareInv ==
  ASSUME FilesAssumption, IInv, NEW m \in Mentions, Prepare(m)
  PROVE  IInv'
<1> USE DEF Prepare
<1>1. m \in AnyMention /\ future \in [AnyMention -> FutureState]
  BY MentionFacts DEF IInv, TypeOK
<1>2. TypeOK'
  BY <1>1 DEF IInv, TypeOK, input, Mentions, FutureState
<1>3. Visited' = Visited \cup {m} /\ m \notin Visited
  BY VisitsHere
<1>4. Pushed' = Pushed \cup {m}
  BY <1>1 DEF Pushed
<1>5. pc = "preparing" /\ pc' = pc
  BY DEF Here
<1>6. \A o \in Pushed' : future'[o] = "pushed"
  BY <1>1, <1>4, <1>5 DEF IInv, Pushed
<1>7. \A o \in reported : o # m /\ future'[o] = future[o]
  <2>1. m \notin Pushed
    BY <1>3, <1>5 DEF IInv
  <2>2. future[m] = "none"
    BY <1>1, <2>1 DEF Pushed
  <2>3. reported \subseteq AnyMention
    BY MentionFacts DEF IInv, TypeOK
  <2> QED
    BY <1>1, <2>2, <2>3 DEF IInv, Ended
<1>8. Pushed' = {o \in Visited' : PlanForHost(HostOf(o))' # {}}
  BY <1>3, <1>4, <1>5, SameInput DEF IInv
<1> QED
  BY <1>2, <1>5, <1>6, <1>7, <1>8 DEF IInv

\* The early return touches no future.
LEMMA RefuseInv ==
  ASSUME FilesAssumption, IInv, NEW m \in Mentions, Refuse(m)
  PROVE  IInv'
<1> USE DEF Refuse
<1>1. TypeOK'
  BY DEF IInv, TypeOK, input, Mentions
<1>2. Visited' = Visited /\ Pushed' = Pushed
  BY SameInput DEF Visited, Pushed
<1>3. pc = "preparing"
  BY DEF Here
<1> QED
  BY <1>1, <1>2, <1>3, SameInput DEF IInv

\* Once the groups are visited, every mention has been.
LEMMA AllPreparedInv ==
  ASSUME FilesAssumption, IInv, AllPrepared
  PROVE  IInv'
<1> USE DEF AllPrepared
<1>1. TypeOK'
  BY DEF IInv, TypeOK, input, Mentions
<1>2. Visited = Mentions
  <2> SUFFICES ASSUME NEW m \in Mentions PROVE m \in Visited
    BY DEF Visited
  <2>1. /\ m[1] \in DOMAIN file.groups
        /\ m[2] \in 1..Len(file.groups[m[1]])
        /\ Len(file.groups[m[1]]) \in Nat
    BY MentionFacts, LengthIsNat DEF IInv
  <2> QED
    BY <2>1 DEF Exhausted, IInv, TypeOK, Visited
<1>3. Pushed' = Pushed
  BY DEF Pushed
<1> QED
  BY <1>1, <1>2, <1>3, SameInput DEF IInv, Exhausted

-----------------------------------------------------------------------------
(***************************************************************************)
(* The second loop preserves the invariant.                                *)
(***************************************************************************)
\* A future that is polled neither comes nor goes, and one that has ended stays.
LEMMA StepInv ==
  ASSUME IInv, NEW m \in AnyMention, NEW from \in {"pushed", "running"},
         NEW to \in FutureState \ {"none"}, Step(m, from, to)
  PROVE  IInv'
<1> USE DEF Step
<1>1. TypeOK'
  BY DEF IInv, TypeOK, input, Mentions
<1>2. Pushed' = Pushed
  BY DEF IInv, TypeOK, Pushed
<1>3. \A o \in reported : future'[o] = future[o]
  <2>1. reported \subseteq AnyMention
    BY MentionFacts DEF IInv, TypeOK
  <2> QED
    BY <2>1 DEF IInv, TypeOK, Ended
<1> QED
  BY <1>1, <1>2, <1>3, SameInput DEF IInv

\* A result is printed only of a future that has ended.
LEMMA ReportInv ==
  ASSUME IInv, NEW m \in AnyMention, Report(m)
  PROVE  IInv'
<1> USE DEF Report
<1>1. m \in Mentions
  BY DEF IInv, Pushed, Ended
<1>2. TypeOK'
  BY <1>1 DEF IInv, TypeOK, input, Mentions
<1>3. Pushed' = Pushed
  BY DEF Pushed
<1> QED
  BY <1>2, <1>3, SameInput DEF IInv

\* The loop ends when every result was printed.
LEMMA FinishInv ==
  ASSUME IInv, Finish
  PROVE  IInv'
<1> USE DEF Finish
<1>1. TypeOK'
  BY DEF IInv, TypeOK, input, Mentions
<1>2. Pushed' = Pushed
  BY DEF Pushed
<1> QED
  BY <1>1, <1>2, SameInput DEF IInv

\* Every step preserves the invariant.
LEMMA NextIInv == FilesAssumption /\ IInv /\ [Next]_vars => IInv'
<1> SUFFICES ASSUME FilesAssumption, IInv, [Next]_vars PROVE IInv'
  OBVIOUS
<1>1. CASE Prepares
  BY <1>1, NextGroupInv, SkipInv, PrepareInv, RefuseInv, AllPreparedInv
     DEF Prepares
<1>2. CASE \E m \in AnyMention : Start(m) \/ End(m) \/ Report(m)
  <2>1. PICK m \in AnyMention : Start(m) \/ End(m) \/ Report(m)
    BY <1>2
  <2>2. CASE Start(m)
    BY <2>2, StepInv DEF Start, FutureState
  <2>3. CASE End(m)
    BY <2>3, StepInv DEF End, FutureState, Ended
  <2>4. CASE Report(m)
    BY <2>4, ReportInv
  <2> QED
    BY <2>1, <2>2, <2>3, <2>4
<1>3. CASE Finish
  BY <1>3, FinishInv
<1>4. CASE UNCHANGED vars
  BY <1>4 DEF vars, input, IInv, TypeOK, Pushed, Visited, Mentions, PlanForHost,
              HostOf, Applies, GroupNames, Accepts, Kind
<1> QED
  BY <1>1, <1>2, <1>3, <1>4 DEF Next, Terminated

-----------------------------------------------------------------------------
(***************************************************************************)
(* The theorems.                                                           *)
(***************************************************************************)
\* The futures are those of the mentions visited, whatever the host file.
THEOREM FanOutInvariance == Spec => []IInv
<1>1. FilesAssumption
  BY FilesAssumption
<1> QED
  BY <1>1, InitIInv, NextIInv, PTL DEF Spec

\* Whatever the groups and their order, a refusal finds no host touched.
THEOREM RefusalTouchesNoHost == Spec => []AllOrNothing
<1>1. IInv => AllOrNothing
  BY DEF IInv, AllOrNothing
<1> QED
  BY <1>1, FanOutInvariance, PTL

\* Whatever the groups and their order, one future is driven for each mention
\* that has tasks, and for no other.
THEOREM FuturesAreMentions == Spec => []EveryMentionIsDriven
<1>1. IInv => EveryMentionIsDriven
  BY DEF IInv, EveryMentionIsDriven
<1> QED
  BY <1>1, FanOutInvariance, PTL

\* A plan that `validate` accepts is refused for the name of an executor only.
THEOREM ValidatedIsAccepted == Spec => []InspectedIsNotRefused
<1>1. IInv => InspectedIsNotRefused
  BY DEF IInv, TypeOK, Caller, InspectedIsNotRefused, Inspected, Accepts
<1> QED
  BY <1>1, FanOutInvariance, PTL

\* When the loops are done each task has been run to an end on all of its hosts
\* that are in a group.
THEOREM TasksReachTheirHosts == Spec => []EveryTaskReachesItsHosts
<1>1. IInv => EveryTaskReachesItsHosts
  <2> SUFFICES ASSUME IInv, pc = "done", NEW t \in DOMAIN plan, NEW m \in Mentions,
                      HostOf(m) \in plan[t] \/ m[1] \in plan[t]
               PROVE  /\ t \in PlanForHost(HostOf(m))
                      /\ future[m] \in Ended
                      /\ m \in reported
    BY DEF EveryTaskReachesItsHosts
  <2>1. m[1] \in GroupNames(HostOf(m))
    BY MentionFacts DEF IInv, GroupNames, HostOf
  <2>2. t \in PlanForHost(HostOf(m))
    BY <2>1 DEF PlanForHost, Applies
  <2>3. m \in reported
    BY <2>2 DEF IInv
  <2> QED
    BY <2>2, <2>3 DEF IInv
<1> QED
  BY <1>1, FanOutInvariance, PTL

\* Every variable of the fan-out keeps its type.
THEOREM FanOutTypeCorrect == Spec => []TypeOK
<1>1. IInv => TypeOK
  BY DEF IInv
<1> QED
  BY <1>1, FanOutInvariance, PTL
=============================================================================
