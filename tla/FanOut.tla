------------------------------- MODULE FanOut -------------------------------
(***************************************************************************)
(* How a plan is spread over the hosts of a host file: Plan::plan_for_host *)
(* and the two loops around do_apply, those of subcommand_apply without a  *)
(* controller (there-cli/src/commands/plan.rs) and of apply_plan (the      *)
(* controller's executor.rs).  The first loop makes a future for each      *)
(* mention of a host in a group, the second drives them in one task.       *)
(*                                                                         *)
(* What a future does is the subject of SshApply and LocalApply; here it   *)
(* ends well, ends badly, or runs for ever.                                *)
(***************************************************************************)
EXTENDS Naturals, Sequences

CONSTANTS
  Plans,     \* blueprints: sequences of tasks, each the set of its `hosts`
  HostFiles  \* records: `groups`, and the `kind` of executor of each host name

\* The executor of a host; "missing" if the host map lacks the name.
HostKind == {"missing", "ssh", "simple", "local", "unknown"}
Caller == {"cli", "controller"}

ASSUME FilesAssumption ==
  \A f \in HostFiles :
    /\ f.kind \in [DOMAIN f.kind -> HostKind]
    /\ f.groups \in [DOMAIN f.groups -> Seq(DOMAIN f.kind)]
ASSUME PlansAssumption == Plans \subseteq Seq(SUBSET STRING)

VARIABLES
  caller,   \* whose loops these are
  plan,     \* the blueprint
  file,     \* the host file
  pc,       \* "preparing", "driving", "done", or "refused": the early return
  toVisit,  \* groups whose turn has not come; a HashMap gives them in any order
  group,    \* {g} while the members of group g are visited
  pos,      \* the next of them
  future,   \* the future made for each mention
  reported  \* the futures whose result the second loop has printed

vars == <<caller, plan, file, pc, toVisit, group, pos, future, reported>>
input == <<caller, plan, file>>

-----------------------------------------------------------------------------
\* A mention is a group's name and an index in its list; a host may have many.
MentionsIn(f) ==
  UNION {{g} \X (1..Len(f.groups[g])) : g \in DOMAIN f.groups}
AnyMention == UNION {MentionsIn(f) : f \in HostFiles}
Mentions == MentionsIn(file)
HostOf(m) == file.groups[m[1]][m[2]]
Kind(m) == file.kind[HostOf(m)]

\* The groups whose list contains the host.
GroupNames(h) ==
  {g \in DOMAIN file.groups :
     \E i \in 1..Len(file.groups[g]) : file.groups[g][i] = h}

Applies(t, h) == h \in plan[t] \/ plan[t] \cap GroupNames(h) # {}

\* The tasks plan_for_host keeps; it keeps them in the order of the plan.
PlanForHost(h) == {t \in DOMAIN plan : Applies(t, h)}

\* Mutant: the controller, too, looks for the kind of executor it has.
AcceptsOwnKind(m) ==
  /\ Kind(m) # "missing"
  /\ IF caller = "cli" THEN Kind(m) # "unknown" ELSE Kind(m) = "ssh"

\* The lookups of the first loop.  The controller's executor is SSH, whatever the
\* host file says.
Accepts(m) ==
  /\ Kind(m) # "missing"
  /\ caller = "cli" => Kind(m) # "unknown"

\* inspect_host_group, on every group: what `validate` and a dry run look at.
Inspected == \A m \in Mentions : Kind(m) # "missing"

FutureState == {"none", "pushed", "running", "ok", "error"}
Ended == {"ok", "error"}
Pushed == {m \in AnyMention : future[m] # "none"}

TypeOK ==
  /\ caller \in Caller
  /\ plan \in Plans
  /\ file \in HostFiles
  /\ pc \in {"preparing", "driving", "done", "refused"}
  /\ toVisit \subseteq DOMAIN file.groups
  /\ group \in {{}} \cup {{g} : g \in DOMAIN file.groups}
  /\ pos \in Nat \ {0}
  /\ future \in [AnyMention -> FutureState]
  /\ reported \subseteq Mentions

Init ==
  /\ caller \in Caller
  /\ plan \in Plans
  /\ file \in HostFiles
  /\ pc = "preparing"
  /\ toVisit = DOMAIN file.groups
  /\ group = {}
  /\ pos = 1
  /\ future = [m \in AnyMention |-> "none"]
  /\ reported = {}

-----------------------------------------------------------------------------
(***************************************************************************)
(* The first loop.                                                         *)
(***************************************************************************)
Exhausted == pc = "preparing" /\ \A g \in group : pos > Len(file.groups[g])

\* Mutant: the group before is not left.
NextGroupKeepsGroup ==
  /\ Exhausted
  /\ \E g \in toVisit :
       /\ toVisit' = toVisit \ {g}
       /\ group' = group \cup {g}
  /\ pos' = 1
  /\ UNCHANGED <<input, pc, future, reported>>

NextGroup ==
  /\ Exhausted
  /\ \E g \in toVisit :
       /\ toVisit' = toVisit \ {g}
       /\ group' = {g}
  /\ pos' = 1
  /\ UNCHANGED <<input, pc, future, reported>>

\* The mention whose turn it is.
Here(m) == pc = "preparing" /\ m[1] \in group /\ m[2] = pos

Skip(m) ==
  /\ Here(m)
  /\ PlanForHost(HostOf(m)) = {}
  /\ pos' = pos + 1
  /\ UNCHANGED <<input, pc, toVisit, group, future, reported>>

\* Mutant: the future is spawned instead of pushed.
PrepareSpawns(m) ==
  /\ Here(m)
  /\ PlanForHost(HostOf(m)) # {}
  /\ Accepts(m)
  /\ future' = [future EXCEPT ![m] = "running"]
  /\ pos' = pos + 1
  /\ UNCHANGED <<input, pc, toVisit, group, reported>>

\* The future is made, and not polled before the second loop.
Prepare(m) ==
  /\ Here(m)
  /\ PlanForHost(HostOf(m)) # {}
  /\ Accepts(m)
  /\ future' = [future EXCEPT ![m] = "pushed"]
  /\ pos' = pos + 1
  /\ UNCHANGED <<input, pc, toVisit, group, reported>>

\* The early return drops the futures made so far.
Refuse(m) ==
  /\ Here(m)
  /\ PlanForHost(HostOf(m)) # {}
  /\ ~Accepts(m)
  /\ pc' = "refused"
  /\ UNCHANGED <<input, toVisit, group, pos, future, reported>>

AllPrepared ==
  /\ Exhausted
  /\ toVisit = {}
  /\ pc' = "driving"
  /\ UNCHANGED <<input, toVisit, group, pos, future, reported>>

Prepares ==
  \/ NextGroup
  \/ \E m \in Mentions : Skip(m) \/ Prepare(m) \/ Refuse(m)
  \/ AllPrepared

-----------------------------------------------------------------------------
(***************************************************************************)
(* The second loop: FuturesUnordered polls whichever future is ready, and  *)
(* yields each result once.                                                *)
(***************************************************************************)
Step(m, from, to) ==
  /\ pc = "driving"
  /\ future[m] = from
  /\ future' = [future EXCEPT ![m] = to]
  /\ UNCHANGED <<input, pc, toVisit, group, pos, reported>>

Start(m) == Step(m, "pushed", "running")
End(m) == \E result \in Ended : Step(m, "running", result)

\* Mutant: FuturesOrdered, which holds a result back until the futures pushed
\* before it have ended.
ReportInOrder(m) ==
  /\ pc = "driving"
  /\ future[m] \in Ended
  /\ m \notin reported
  /\ \A o \in Pushed : o[1] = m[1] /\ o[2] < m[2] => o \in reported
  /\ reported' = reported \cup {m}
  /\ UNCHANGED <<input, pc, toVisit, group, pos, future>>

Report(m) ==
  /\ pc = "driving"
  /\ future[m] \in Ended
  /\ m \notin reported
  /\ reported' = reported \cup {m}
  /\ UNCHANGED <<input, pc, toVisit, group, pos, future>>

\* Mutant: a host that fails ends the loop.
FinishAtError ==
  /\ pc = "driving"
  /\ reported = Pushed \/ \E m \in reported : future[m] = "error"
  /\ pc' = "done"
  /\ UNCHANGED <<input, toVisit, group, pos, future, reported>>

\* next() answers None once every result was yielded.
Finish ==
  /\ pc = "driving"
  /\ reported = Pushed
  /\ pc' = "done"
  /\ UNCHANGED <<input, toVisit, group, pos, future, reported>>

\* The loops are over.
Terminated ==
  /\ pc \in {"done", "refused"}
  /\ UNCHANGED vars

Next ==
  \/ Prepares
  \/ \E m \in AnyMention : Start(m) \/ End(m) \/ Report(m)
  \/ Finish
  \/ Terminated

Spec == Init /\ [][Next]_vars

(***************************************************************************)
(* The task of the loops is polled, and polls what is ready.  Whether a    *)
(* future ends is its own affair, so nothing is assumed of End.            *)
(***************************************************************************)
Fairness ==
  /\ WF_vars(Prepares)
  /\ \A m \in AnyMention : WF_vars(Start(m)) /\ WF_vars(Report(m))
  /\ WF_vars(Finish)

FairSpec == Spec /\ Fairness

-----------------------------------------------------------------------------
(***************************************************************************)
(* Safety.                                                                 *)
(***************************************************************************)
\* A host file that is refused for one host is refused for all: no future was
\* polled, so no host was touched, in whatever order the groups came.
AllOrNothing ==
  pc \in {"preparing", "refused"} => \A m \in Pushed : future[m] = "pushed"

\* What is driven is one future for each mention that has tasks to run, once
\* for each group the host is in; nothing of what was prepared is lost.
EveryMentionIsDriven ==
  pc \in {"driving", "done"} =>
    Pushed = {m \in Mentions : PlanForHost(HostOf(m)) # {}}

\* What `validate` and a dry run accept is not refused, unless for the name of an
\* executor, which neither of them looks at and the controller never does.
InspectedIsNotRefused ==
  Inspected /\ pc = "refused" =>
    caller = "cli" /\ \E m \in Mentions : Kind(m) = "unknown"

\* Once the loops are done, every mention in a group of a host that a task names,
\* directly or by the group, had a do_apply with that task in its plan, which came
\* to an end, good or bad, and was reported.
EveryTaskReachesItsHosts ==
  pc = "done" =>
    \A t \in DOMAIN plan : \A m \in Mentions :
      HostOf(m) \in plan[t] \/ m[1] \in plan[t] =>
        /\ t \in PlanForHost(HostOf(m))
        /\ future[m] \in Ended
        /\ m \in reported

\* The mentions whose turn has come and gone.
Visited ==
  {m \in Mentions : m[1] \notin toVisit /\ (m[1] \in group => m[2] < pos)}

\* The invariant of the proofs: the futures made so far are those of the mentions
\* visited so far, none was polled by the first loop, and the second prints the
\* result of a future that has ended.
IInv ==
  /\ TypeOK
  /\ group \cap toVisit = {}
  /\ Pushed = {m \in IF pc \in {"preparing", "refused"} THEN Visited ELSE Mentions :
                 PlanForHost(HostOf(m)) # {}}
  /\ pc \in {"preparing", "refused"} => \A m \in Pushed : future[m] = "pushed"
  /\ pc = "refused" => \E m \in Mentions : ~Accepts(m)
  /\ \A m \in reported : future[m] \in Ended
  /\ pc = "done" => reported = Pushed

-----------------------------------------------------------------------------
(***************************************************************************)
(* Liveness.                                                               *)
(***************************************************************************)
\* The result of a host is reported although other hosts run for ever.
EndedIsReported ==
  \A m \in AnyMention : future[m] \in Ended ~> m \in reported
=============================================================================
