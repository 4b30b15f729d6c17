------------------------------ MODULE Planning ------------------------------
(***************************************************************************)
(* TaskSet::plan (libthere/src/plan/mod.rs) with the PlanningTaskVisitor   *)
(* it drives (plan/visitor.rs): each task of a set is compiled into the    *)
(* command that carries it out and the ensures that must hold before it.   *)
(*                                                                         *)
(* A word is what shell_words::split makes of a command line, so it may    *)
(* hold blanks; a path is a word.  A line is its words, and `closed` says  *)
(* whether its quotes match.                                               *)
(***************************************************************************)
EXTENDS Naturals, Sequences

CONSTANTS
  Word,      \* the words of command lines and paths of files
  Parent,    \* Path::parent, on the paths that have one
  Host,      \* the names a task may list
  TaskSets   \* the task sets that are planned

Kind == {"FileExists", "DirectoryExists", "FileDoesntExist",
         "DirectoryDoesntExist", "ExeExists"}
Ensure == [kind : Kind, of : Word]
PlannedTask == [command : Seq(Word), ensures : Seq(Ensure), hosts : SUBSET Host]

\* The words of a task are those of its line, or its path alone.
Task == [type : {"Command", "CreateDirectory", "TouchFile"},
         words : Seq(Word), closed : BOOLEAN, hosts : SUBSET Host]

ASSUME TasksAssumption ==
  /\ Parent \in [DOMAIN Parent -> Word] /\ DOMAIN Parent \subseteq Word
  /\ {"mkdir", "touch"} \subseteq Word
  /\ TaskSets \subseteq Seq(Task)
  /\ \A set \in TaskSets : \A i \in DOMAIN set :
       set[i].type # "Command" => Len(set[i].words) = 1 /\ set[i].closed

VARIABLES
  tasks,      \* the tasks of the set
  next,       \* index of the task whose turn it is
  blueprint,  \* the visitor's plan
  result      \* "planning", and how it came out

planVars == <<tasks, next, blueprint, result>>

PlanTypeOK ==
  /\ tasks \in Seq(Task)
  /\ next \in 1..(Len(tasks) + 1)
  /\ blueprint \in Seq(PlannedTask)
  /\ result \in {"planning", "planned", "error", "panicked"}

PlanInit ==
  /\ tasks \in TaskSets
  /\ next = 1
  /\ blueprint = <<>>
  /\ result = "planning"

-----------------------------------------------------------------------------
\* shell_words::split refuses the line.
Malformed(t) == ~t.closed

\* split[0] of a line without words, and unwrap() of a path without a parent.
Panics(t) ==
  \/ t.type = "Command" /\ t.closed /\ t.words = <<>>
  \/ t.type = "TouchFile" /\ t.words[1] \notin DOMAIN Parent

EnsuresOf(t) ==
  CASE t.type = "Command" -> <<[kind |-> "ExeExists", of |-> t.words[1]]>>
    [] t.type = "CreateDirectory" ->
         <<[kind |-> "DirectoryExists", of |-> t.words[1]]>>
    [] t.type = "TouchFile" ->
         <<[kind |-> "ExeExists", of |-> "touch"],
           [kind |-> "DirectoryExists", of |-> Parent[t.words[1]]]>>

CommandOf(t) ==
  CASE t.type = "Command" -> t.words
    [] t.type = "CreateDirectory" -> <<"mkdir", t.words[1]>>
    [] t.type = "TouchFile" -> <<"touch", t.words[1]>>

Compiled(t) ==
  [command |-> CommandOf(t), ensures |-> EnsuresOf(t), hosts |-> t.hosts]

Current == tasks[next]

\* Mutant: a task that cannot be compiled is logged and left out.
VisitTaskOrSkip ==
  /\ result = "planning"
  /\ next <= Len(tasks)
  /\ blueprint' = IF Malformed(Current) \/ Panics(Current) THEN blueprint
                  ELSE Append(blueprint, Compiled(Current))
  /\ next' = next + 1
  /\ UNCHANGED <<tasks, result>>

\* One turn of the loop over the tasks: accept() and visit_task().
VisitTask ==
  /\ result = "planning"
  /\ next <= Len(tasks)
  /\ \/ /\ Malformed(Current)
        /\ result' = "error"
        /\ UNCHANGED <<next, blueprint>>
     \/ /\ ~Malformed(Current)
        /\ Panics(Current)
        /\ result' = "panicked"
        /\ UNCHANGED <<next, blueprint>>
     \/ /\ ~Malformed(Current)
        /\ ~Panics(Current)
        /\ blueprint' = Append(blueprint, Compiled(Current))
        /\ next' = next + 1
        /\ UNCHANGED result
  /\ UNCHANGED tasks

FinishPlan ==
  /\ result = "planning"
  /\ next > Len(tasks)
  /\ result' = "planned"
  /\ UNCHANGED <<tasks, next, blueprint>>
=============================================================================
