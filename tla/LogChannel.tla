----------------------------- MODULE LogChannel -----------------------------
(***************************************************************************)
(* The log pipeline of one host: an executor's SimpleLogSink, the bounded  *)
(* tokio mpsc channel behind it, and the spawned task that drains it       *)
(* through a SimpleLogSource.  The executors' modules extend this one and  *)
(* conjoin its steps with their own.                                       *)
(*                                                                         *)
(* A message is one PartialLogStream: End, or a batch of lines, of which   *)
(* only the kind is kept.                                                  *)
(***************************************************************************)
EXTENDS Naturals, Sequences

CONSTANT Capacity   \* the bound given to mpsc::channel, 1024 in the code

ASSUME CapacityAssumption == Capacity \in Nat \ {0}

VARIABLES
  chan,       \* messages sent and not yet received
  txAlive,    \* the only Sender has not been dropped
  drain,      \* the drain task: "running", "ended" (left its loop at End),
              \* "lost" (left it on an error of the source), "panicked"
  sunk,       \* history: every message the channel accepted
  received    \* history: every message the drain task took out

chanVars == <<chan, txAlive, drain, sunk, received>>

\* PartialLogStream::End, and the batches of lines by what they announce.
End == "End"

Batch == {"steps", "executing", "ensuring", "ensuresFailed", "command",
          "output", "blank", "finished", "refused", "applying"}

Message == Batch \cup {End}

DrainState == {"running", "ended", "lost", "panicked"}

ChannelTypeOK ==
  /\ chan \in Seq(Message)
  /\ Len(chan) <= Capacity
  /\ txAlive \in BOOLEAN
  /\ drain \in DrainState
  /\ sunk \in Seq(Message)
  /\ received \in Seq(Message)

ChannelInit ==
  /\ chan = <<>>
  /\ txAlive = TRUE
  /\ drain = "running"
  /\ sunk = <<>>
  /\ received = <<>>

-----------------------------------------------------------------------------
(***************************************************************************)
(* The sink.  send() waits for a free slot while the Receiver, owned by    *)
(* the drain task, is alive, and returns an error once it is dropped.      *)
(***************************************************************************)
\* Mutant: the bound is off by one.
SinkPastCapacity(m) ==
  /\ drain = "running"
  /\ Len(chan) <= Capacity
  /\ chan' = Append(chan, m)
  /\ sunk' = Append(sunk, m)
  /\ UNCHANGED <<txAlive, drain, received>>

Sink(m) ==
  /\ drain = "running"
  /\ Len(chan) < Capacity
  /\ chan' = Append(chan, m)
  /\ sunk' = Append(sunk, m)
  /\ UNCHANGED <<txAlive, drain, received>>

SinkFails ==
  /\ drain # "running"
  /\ UNCHANGED chanVars

DropSender ==
  /\ txAlive' = FALSE
  /\ UNCHANGED <<chan, drain, sunk, received>>

-----------------------------------------------------------------------------
(***************************************************************************)
(* The source and the loop around it.  source() never waits: on an empty   *)
(* channel it returns an empty batch and the loop polls again.             *)
(***************************************************************************)
TakeHead ==
  /\ chan # <<>>
  /\ chan' = Tail(chan)
  /\ received' = Append(received, Head(chan))
  /\ UNCHANGED <<txAlive, sunk>>

DrainBatch ==
  /\ drain = "running"
  /\ TakeHead
  /\ Head(chan) # End
  /\ UNCHANGED drain

\* source() sets `ended`; the loop breaks.
DrainEnd ==
  /\ drain = "running"
  /\ TakeHead
  /\ Head(chan) = End
  /\ drain' = "ended"

DrainEmpty ==
  /\ drain = "running"
  /\ chan = <<>>
  /\ txAlive
  /\ UNCHANGED chanVars

\* TryRecvError::Disconnected: source() returns Err("sink lost").
DrainLost ==
  /\ drain = "running"
  /\ chan = <<>>
  /\ ~txAlive
  /\ drain' = "lost"
  /\ UNCHANGED <<chan, txAlive, sunk, received>>

\* println! panics when standard output is closed; the Receiver goes with it.
DrainPanics ==
  /\ drain = "running"
  /\ chan # <<>>
  /\ Head(chan) # End
  /\ drain' = "panicked"
  /\ chan' = <<>>
  /\ UNCHANGED <<txAlive, sunk, received>>

Drain == DrainBatch \/ DrainEnd \/ DrainEmpty \/ DrainLost

-----------------------------------------------------------------------------
\* Everything accepted was received or is still queued, in order.
Fifo == drain # "panicked" => sunk = received \o chan
=============================================================================
