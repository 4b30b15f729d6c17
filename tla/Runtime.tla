------------------------------ MODULE Runtime -------------------------------
(***************************************************************************)
(* The runtime beneath `plan apply` without a controller (there-cli):      *)
(* tokio's worker threads, the futures of the hosts, which the main thread *)
(* polls, and the drain task each of them spawns.                          *)
(*                                                                         *)
(* A drain task never awaits anything that is not ready, so it keeps the   *)
(* worker that took it until it leaves its loop.  Answers of processes and *)
(* of ssh sessions come through a worker that is free: one that parks      *)
(* turns the I/O driver, and one runs the tasks of a session.              *)
(*                                                                         *)
(* println! panics when standard output is gone.  In a drain task tokio    *)
(* catches the panic: the task is over, and do_apply gets a JoinError.  In *)
(* the main thread it unwinds main(), and the futures are dropped with the *)
(* senders they hold.                                                      *)
(***************************************************************************)
EXTENDS Naturals, FiniteSets

CONSTANTS
  Host, Ssh,      \* the hosts that are driven, and those over ssh
  MaxWorkers,     \* the most worker threads a machine has
  Capacity,       \* of the channel of a host
  MaxLines,       \* the most lines a run logs
  MaxWaits        \* the most answers it waits for

ASSUME HostsAssumption == Ssh \subseteq Host /\ IsFiniteSet(Host)
ASSUME BoundsAssumption ==
  /\ {MaxWorkers, Capacity} \subseteq Nat \ {0}
  /\ {MaxLines, MaxWaits} \subseteq Nat

VARIABLES
  workers,      \* how many worker threads this machine has
  main,         \* "running", "leaving" (main() has returned or panicked), "exited"
  run,          \* of each do_apply: "unpolled", "setup", "working", "waiting",
                \* "closed" (End is sunk), "left" (by `?`), "failed" (without
                \* End, the sender in hand), "stuck", "dropped" (by main())
  waits,        \* answers it has waited for
  drain,        \* "none", "queued", "running", "ended", "panicked", "dropped"
  sunk, shown,  \* lines sunk by the executor and shown by the drain task
  reported      \* hosts whose outcome subcommand_apply has printed

countVars == <<waits, sunk, shown>>
vars == <<workers, main, run, drain, countVars, reported>>

TypeOK ==
  /\ workers \in 1..MaxWorkers
  /\ main \in {"running", "leaving", "exited"}
  /\ run \in [Host -> {"unpolled", "setup", "working", "waiting", "closed", "left",
                      "failed", "stuck", "dropped"}]
  /\ waits \in [Host -> 0..MaxWaits]
  /\ drain \in [Host -> {"none", "queued", "running", "ended", "panicked", "dropped"}]
  /\ sunk \in [Host -> 0..MaxLines]
  /\ shown \in [Host -> Nat]
  /\ \A h \in Host : shown[h] <= sunk[h] /\ sunk[h] <= shown[h] + Capacity
  /\ reported \subseteq Host
  /\ Cardinality({h \in Host : drain[h] = "running"}) <= workers

Init ==
  /\ workers \in 1..MaxWorkers
  /\ main = "running"
  /\ run = [h \in Host |-> "unpolled"]
  /\ waits = [h \in Host |-> 0]
  /\ drain = [h \in Host |-> "none"]
  /\ sunk = [h \in Host |-> 0]
  /\ shown = [h \in Host |-> 0]
  /\ reported = {}

Running == {h \in Host : drain[h] = "running"}
FreeWorker == Cardinality(Running) < workers

-----------------------------------------------------------------------------
(***************************************************************************)
(* A host's do_apply, polled by the main thread.                           *)
(***************************************************************************)
Poll(h) ==
  /\ run[h] = "unpolled"
  /\ drain' = [drain EXCEPT ![h] = "queued"]
  /\ run' = [run EXCEPT ![h] = IF h \in Ssh THEN "setup" ELSE "working"]
  /\ UNCHANGED <<workers, main, countVars, reported>>

\* A key file that is missing or cannot be read ends it by `?`; or it connects.
Setup(h) ==
  /\ run[h] = "setup"
  /\ run' \in {[run EXCEPT ![h] = "left"], [run EXCEPT ![h] = "waiting"]}
  /\ UNCHANGED <<workers, main, drain, countVars, reported>>

\* Of a channel whose receiver is not gone with its drain task.
Room(h) == sunk[h] < shown[h] + Capacity /\ drain[h] # "panicked"

Sink(h) ==
  /\ run[h] = "working" /\ sunk[h] < MaxLines /\ Room(h)
  /\ sunk' = [sunk EXCEPT ![h] = @ + 1]
  /\ UNCHANGED <<workers, main, run, waits, drain, shown, reported>>

\* For a process, or a session.  A child that has exited at the first look and
\* the ensures of the local executor need no answer.
Wait(h) ==
  /\ run[h] = "working" /\ waits[h] < MaxWaits
  /\ waits' = [waits EXCEPT ![h] = @ + 1]
  /\ run' = [run EXCEPT ![h] = "waiting"]
  /\ UNCHANGED <<workers, main, drain, sunk, shown, reported>>

\* Mutant: the main thread turns the driver when it has nothing to poll.
AnswerOnMain(h) ==
  /\ run[h] = "waiting"
  /\ run' \in {[run EXCEPT ![h] = "working"], [run EXCEPT ![h] = "stuck"]}
  /\ UNCHANGED <<workers, main, drain, countVars, reported>>

\* The answer comes, or never will: a silent host, a pipe that is held open.
Answer(h) ==
  /\ run[h] = "waiting" /\ FreeWorker
  /\ run' \in {[run EXCEPT ![h] = "working"], [run EXCEPT ![h] = "stuck"]}
  /\ UNCHANGED <<workers, main, drain, countVars, reported>>

Close(h) ==
  /\ run[h] = "working" /\ Room(h)
  /\ run' = [run EXCEPT ![h] = "closed"]
  /\ UNCHANGED <<workers, main, drain, countVars, reported>>

\* An executor fails without End.  The local arm leaves by `?`; the ssh arm goes
\* on to await the drain task, with the sender in its hands.
Fail(h) ==
  /\ run[h] = "working"
  /\ run' = [run EXCEPT ![h] = IF h \in Ssh THEN "failed" ELSE "left"]
  /\ UNCHANGED <<workers, main, drain, countVars, reported>>

\* Mutant: the outcome does not wait for the drain task.
ReportUnjoined(h) ==
  /\ main = "running"
  /\ h \notin reported
  /\ run[h] \in {"left", "closed"}
  /\ reported' = reported \cup {h}
  /\ UNCHANGED <<workers, main, run, drain, countVars>>

\* The do_apply of h is over: join_handle.await has answered, be it with a
\* JoinError, or was never come to.
Over(h) ==
  \/ run[h] = "left"
  \/ run[h] = "closed" /\ drain[h] \in {"ended", "panicked"}
  \/ run[h] = "failed" /\ drain[h] = "panicked"

\* The loop over the futures prints what became of the host.
Report(h) ==
  /\ main = "running"
  /\ h \notin reported /\ Over(h)
  /\ reported' = reported \cup {h}
  /\ UNCHANGED <<workers, main, run, drain, countVars>>

-----------------------------------------------------------------------------
(***************************************************************************)
(* The workers.                                                            *)
(***************************************************************************)
\* Mutant: every task has a thread of its own.
TakeAlways(h) ==
  /\ drain[h] = "queued"
  /\ drain' = [drain EXCEPT ![h] = "running"]
  /\ UNCHANGED <<workers, main, run, countVars, reported>>

Take(h) ==
  /\ drain[h] = "queued" /\ FreeWorker
  /\ drain' = [drain EXCEPT ![h] = "running"]
  /\ UNCHANGED <<workers, main, run, countVars, reported>>

Show(h) ==
  /\ drain[h] = "running" /\ shown[h] < sunk[h]
  /\ shown' = [shown EXCEPT ![h] = @ + 1]
  /\ UNCHANGED <<workers, main, run, waits, drain, sunk, reported>>

\* The println! of a line panics.
DrainPanics(h) ==
  /\ drain[h] = "running" /\ shown[h] < sunk[h]
  /\ drain' = [drain EXCEPT ![h] = "panicked"]
  /\ UNCHANGED <<workers, main, run, countVars, reported>>

\* Mutant: only End ends the loop; a sender that is gone is no message.
LeaveAtEnd(h) ==
  /\ drain[h] = "running" /\ shown[h] = sunk[h]
  /\ run[h] = "closed"
  /\ drain' = [drain EXCEPT ![h] = "ended"]
  /\ UNCHANGED <<workers, main, run, countVars, reported>>

\* End was taken out, or the sender is gone with the future that held it.
Leave(h) ==
  /\ drain[h] = "running" /\ shown[h] = sunk[h]
  /\ run[h] \in {"closed", "left", "dropped"}
  /\ drain' = [drain EXCEPT ![h] = "ended"]
  /\ UNCHANGED <<workers, main, run, countVars, reported>>

-----------------------------------------------------------------------------
\* The runtime drops the tasks no worker has taken.
Shutdown ==
  /\ main' = "leaving"
  /\ drain' = [h \in Host |-> IF drain[h] = "queued" THEN "dropped" ELSE drain[h]]

\* main() returns.
Return ==
  /\ main = "running" /\ reported = Host
  /\ Shutdown
  /\ UNCHANGED <<workers, run, countVars, reported>>

\* A println! of subcommand_apply panics, in the loop that prepares the futures or
\* in the one that reports them.
MainPanics ==
  /\ main = "running"
  /\ (\A h \in Host : run[h] = "unpolled") \/ (\E h \in Host \ reported : Over(h))
  /\ Shutdown
  /\ run' = [h \in Host |-> IF h \in reported \/ run[h] \in {"closed", "left"}
                            THEN run[h] ELSE "dropped"]
  /\ UNCHANGED <<workers, countVars, reported>>

\* Its workers are joined, each with the task it is in.
Exit ==
  /\ main = "leaving" /\ Running = {}
  /\ main' = "exited"
  /\ UNCHANGED <<workers, run, drain, countVars, reported>>

Drive(h) ==
  Poll(h) \/ Setup(h) \/ Sink(h) \/ Wait(h) \/ Close(h) \/ Fail(h) \/ Report(h)
Drain(h) == Take(h) \/ Show(h) \/ Leave(h)

Next ==
  \/ \E h \in Host : Drive(h) \/ Answer(h) \/ Drain(h) \/ DrainPanics(h)
  \/ Return \/ MainPanics \/ Exit

Spec == Init /\ [][Next]_vars

\* The main thread polls what is ready, and a worker that is free takes what is
\* queued or turns the driver.  Nothing need ever panic.
FairSpec ==
  /\ Spec
  /\ \A h \in Host : WF_vars(Drive(h)) /\ WF_vars(Answer(h)) /\ WF_vars(Drain(h))
  /\ WF_vars(Return \/ Exit)

-----------------------------------------------------------------------------
(***************************************************************************)
(* Safety.                                                                 *)
(***************************************************************************)
\* When the program is gone, lines are missing only of a host whose drain task
\* panicked, or had no worker yet when the program left: then the executor failed
\* on this machine, or main() panicked before it reported the host.
LostLogsWereCutOff ==
  \A h \in Host :
    main = "exited" /\ shown[h] # sunk[h] =>
      \/ drain[h] = "panicked"
      \/ drain[h] = "dropped" /\ (run[h] = "left" \/ h \notin reported)

\* Every worker is in the drain task of a run that waits, or failed, or is stuck.
Starved ==
  Cardinality({h \in Running : run[h] \in {"waiting", "failed", "stuck"}}) = workers

\* Runs that wait while their own drain tasks hold all workers wait for ever: only
\* a println! that panics, in a drain task or in the main thread, frees a worker.
OnlyPanicsEndStarvation ==
  [][Starved =>
       \/ Starved'
       \/ \E h \in Host : drain[h] = "running" /\ drain'[h] = "panicked"
       \/ main' # main /\ reported # Host]_vars

-----------------------------------------------------------------------------
(***************************************************************************)
(* Liveness.                                                               *)
(***************************************************************************)
\* Each host is reported, unless its run failed without End or gets stuck, all
\* workers are taken, or the program is left by a panic.
AnswersUnlessStarved ==
  \A h \in Host :
    <>(h \in reported \/ run[h] \in {"failed", "stuck"} \/ Starved \/ main # "running")

\* The program ends, unless a run is held for ever, by the other side or by a drain
\* task that it holds itself; on a machine with more workers than hosts nothing
\* else keeps it.
EndsUnlessHeld ==
  \/ <>(main = "exited")
  \/ \E h \in Host : <>[](run[h] \in {"failed", "stuck"})
  \/ workers <= Cardinality(Host) /\ <>[]Starved
=============================================================================
