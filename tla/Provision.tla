----------------------------- MODULE Provision -----------------------------
(***************************************************************************)
(* A plan and the machine it is applied to: Planning, and then the ensures *)
(* and commands of the blueprint, carried out by either executor           *)
(* (ensure_task and execute_task of executor/simple.rs and                 *)
(* executor/ssh.rs) on a small file system that other processes change at  *)
(* any moment.  How the executors await and log is the subject of          *)
(* LocalApply and SshApply; here it is what their checks find out.         *)
(*                                                                         *)
(* A command may do anything to the machine: it may be any program, it may *)
(* fail, and over SSH its words are joined by blanks for a shell to read.  *)
(* Nobody asks what it did.                                                *)
(***************************************************************************)
EXTENDS Planning

CONSTANTS
  Quoted,   \* what a shell makes of each word between double quotes
  Exe,      \* the sets of executables that a machine may have
  Posted    \* blueprints that a job request brings, which no visitor made

\* The paths that may be there or not: all but the root and the empty path.
Path == DOMAIN Parent

\* A parent without a name is the working directory, which exists, as the root.
InDirectory(s, p) == Parent[p] \in Path => s[Parent[p]] = "dir"

Node == {"absent", "file", "dir"}
System == {s \in [Path -> Node] : \A p \in Path : s[p] # "absent" => InDirectory(s, p)}

ASSUME ShellAssumption == Quoted \in [Word -> Word]
ASSUME PostedAssumption == Posted \subseteq Seq(PlannedTask)

VARIABLES
  via,        \* the executor
  exes,       \* the executables of the machine
  fs,         \* its files and directories
  at,         \* index of the current task in the blueprint
  check,      \* index of its current ensure, or one past the last
  failed,     \* an ensure of it has failed
  applied,    \* "no", "applying", "ok", "err"
  struck      \* the `check` at which another process last changed the machine
              \* during this task, or 0; only properties read it

hostVars == <<via, exes, fs, at, check, failed, applied, struck>>
vars == <<planVars, hostVars>>

TypeOK ==
  /\ PlanTypeOK
  /\ via \in {"local", "ssh"}
  /\ exes \in Exe
  /\ fs \in System
  /\ at \in 1..(Len(blueprint) + 1)
  /\ check \in Nat \ {0}
  /\ at \in DOMAIN blueprint => check <= Len(blueprint[at].ensures) + 1
  /\ failed \in BOOLEAN
  /\ applied \in {"no", "applying", "ok", "err"}
  /\ struck \in 0..check

\* A set is planned here, or a posted plan is taken as it is.
Init ==
  /\ \/ PlanInit
     \/ tasks = <<>> /\ next = 1 /\ blueprint \in Posted /\ result = "planned"
  /\ via \in {"local", "ssh"}
  /\ exes \in Exe
  /\ fs \in System
  /\ at = 1
  /\ check = 1
  /\ failed = FALSE
  /\ applied = "no"
  /\ struck = 0

-----------------------------------------------------------------------------
NodeAt(p) == IF p \in Path THEN fs[p] ELSE IF p = "/" THEN "dir" ELSE "absent"

Existence == {"ExeExists", "DirectoryExists", "FileExists"}
Absence == {"DirectoryDoesntExist", "FileDoesntExist"}

\* What fs::metadata and which say of the word as it is.
LocalPasses(e) ==
  \/ e.kind = "ExeExists" /\ e.of \in exes
  \/ e.kind = "DirectoryExists" /\ NodeAt(e.of) = "dir"
  \/ e.kind = "FileExists" /\ NodeAt(e.of) = "file"
  \/ e.kind \in Absence /\ NodeAt(e.of) = "absent"

\* What `test -d`, `test -f` and `which` say, on the host, of what its shell makes
\* of the word: between double quotes $, `, \ and " keep their meaning.
SshPasses(e) ==
  LET word == Quoted[e.of] IN
  \/ e.kind = "ExeExists" /\ word \in exes
  \/ e.kind = "DirectoryExists" /\ NodeAt(word) = "dir"
  \/ e.kind = "FileExists" /\ NodeAt(word) = "file"
  \/ e.kind = "DirectoryDoesntExist" /\ NodeAt(word) # "dir"
  \/ e.kind = "FileDoesntExist" /\ NodeAt(word) # "file"

\* No answer: a channel that closes without a status is 511, which is not 0, and
\* fs::metadata fails on a path that it may not look at.
PassesUnanswered(e) == e.kind \in Absence

\* How an ensure may come out.
Outcomes(e) ==
  {IF via = "local" THEN LocalPasses(e) ELSE SshPasses(e), PassesUnanswered(e)}

-----------------------------------------------------------------------------
PlanStep == (VisitTask \/ FinishPlan) /\ UNCHANGED hostVars

Begin ==
  /\ result = "planned"
  /\ applied = "no"
  /\ applied' = "applying"
  /\ UNCHANGED <<planVars, via, exes, fs, at, check, failed, struck>>

Applying == applied = "applying" /\ at <= Len(blueprint)
ThisTask == blueprint[at]

\* All ensures of the current task were put to the machine, and none failed.
Ready == Applying /\ check > Len(ThisTask.ensures) /\ ~failed

\* Mutant: the last ensure decides.
EnsureOneLastWins ==
  /\ Applying
  /\ check <= Len(ThisTask.ensures)
  /\ \E pass \in Outcomes(ThisTask.ensures[check]) : failed' = ~pass
  /\ check' = check + 1
  /\ UNCHANGED <<planVars, via, exes, fs, at, applied, struck>>

\* One turn of the loop of ensure_task.
EnsureOne ==
  /\ Applying
  /\ check <= Len(ThisTask.ensures)
  /\ \E pass \in Outcomes(ThisTask.ensures[check]) : failed' = (failed \/ ~pass)
  /\ check' = check + 1
  /\ UNCHANGED <<planVars, via, exes, fs, at, applied, struck>>

EnsuresFailed ==
  /\ Applying
  /\ check > Len(ThisTask.ensures)
  /\ failed
  /\ applied' = "err"
  /\ UNCHANGED <<planVars, via, exes, fs, at, check, failed, struck>>

\* Mutant: the ensures of the next task are not looked at from the first.
RunCommandKeepsCheck ==
  /\ Ready
  /\ via = "local" => ThisTask.command # <<>> /\ ThisTask.command[1] \in exes
  /\ fs' \in System
  /\ exes' \in Exe
  /\ at' = at + 1
  /\ struck' = 0
  /\ UNCHANGED <<planVars, via, check, failed, applied>>

\* execute_task has its command carried out and drops its status.  A local program
\* must be there to be spawned; a remote shell takes any line.
RunCommand ==
  /\ Ready
  /\ via = "local" => ThisTask.command # <<>> /\ ThisTask.command[1] \in exes
  /\ fs' \in System
  /\ exes' \in Exe
  /\ at' = at + 1
  /\ check' = 1
  /\ struck' = 0
  /\ UNCHANGED <<planVars, via, failed, applied>>

Complete ==
  /\ applied = "applying"
  /\ at > Len(blueprint)
  /\ applied' = "ok"
  /\ UNCHANGED <<planVars, via, exes, fs, at, check, failed, struck>>

\* Any other error of execute leaves it by `?`: of the session, of the log, of
\* spawn(); or a command without words panics.
StopByError ==
  /\ applied = "applying"
  /\ applied' = "err"
  /\ UNCHANGED <<planVars, via, exes, fs, at, check, failed, struck>>

\* Another process changes the machine, be it one that an earlier command left
\* running, or one that the shell runs to expand a word.
Disturb ==
  /\ applied = "applying"
  /\ fs' \in System
  /\ exes' \in Exe
  /\ struck' = check
  /\ UNCHANGED <<planVars, via, at, check, failed, applied>>

Terminated ==
  /\ applied \in {"ok", "err"} \/ result \in {"error", "panicked"}
  /\ UNCHANGED vars

Next ==
  \/ PlanStep \/ Begin \/ EnsureOne \/ EnsuresFailed \/ RunCommand \/ Complete
  \/ StopByError \/ Disturb \/ Terminated

Spec == Init /\ [][Next]_vars

-----------------------------------------------------------------------------
(***************************************************************************)
(* Safety.                                                                 *)
(***************************************************************************)
\* A plan is made of all tasks of its set or not made at all: one line whose
\* quotes do not match, or one panic, and no host is touched.
PlannedWhole ==
  tasks # <<>> /\ applied # "no" =>
    /\ Len(blueprint) = Len(tasks)
    /\ \A i \in DOMAIN tasks :
         /\ ~Malformed(tasks[i]) /\ ~Panics(tasks[i])
         /\ blueprint[i].hosts = tasks[i].hosts

\* What the comments of enum Ensure promise of the machine.
Promised(e) ==
  \/ e.kind = "ExeExists" /\ e.of \in exes
  \/ e.kind = "DirectoryExists" /\ NodeAt(e.of) = "dir"
  \/ e.kind = "FileExists" /\ NodeAt(e.of) = "file"
  \/ e.kind \in Absence /\ NodeAt(e.of) = "absent"

\* The machine is asked about the word that the ensure holds, and no other.
AskedAsIs(e) == via = "local" \/ Quoted[e.of] = e.of

\* When a task's command is about to be given, what its ensures of existence, which
\* are all of those the planner makes, promise is so at that moment, whatever became
\* of the commands before it: nothing but another process, after the ensure was
\* looked at, can have made it false, or a remote shell that asked about something
\* else.
EnsuredWhenReady ==
  Ready =>
    \A n \in DOMAIN ThisTask.ensures :
      LET e == ThisTask.ensures[n] IN
      /\ e.kind \in Existence \/ tasks # <<>>
      /\ AskedAsIs(e) /\ struck <= n
      => Promised(e)

-----------------------------------------------------------------------------
(***************************************************************************)
(* What the repository says of tasks and ensures, and the code does not    *)
(* do.                                                                     *)
(***************************************************************************)
\* The comment of Task::CreateDirectory, "A directory to be created.": its ensures
\* do not refuse the task on a machine where mkdir could create the directory and
\* that no other process changes.
MissingDirectoryIsNotRefused ==
  applied = "err" /\ failed /\ at \in DOMAIN tasks /\ struck = 0 =>
    LET dir == tasks[at].words[1] IN
    ~(/\ tasks[at].type = "CreateDirectory"
      /\ dir \in Path /\ fs[dir] = "absent" /\ InDirectory(fs, dir)
      /\ "mkdir" \in exes)

\* The comments of Ensure::FileDoesntExist and DirectoryDoesntExist, "does not exist
\* on the host": when a task's command is about to be given to a host that no other
\* process changes, nothing is at the paths that its ensures want absent.
AbsenceIsEnsured ==
  Ready /\ via = "ssh" /\ struck = 0 =>
    \A n \in DOMAIN ThisTask.ensures :
      ThisTask.ensures[n].kind \in Absence => Promised(ThisTask.ensures[n])
=============================================================================
