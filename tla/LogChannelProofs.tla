-------------------------- MODULE LogChannelProofs --------------------------
(***************************************************************************)
(* What every step on the log channel preserves, whichever executor takes  *)
(* it.                                                                     *)
(***************************************************************************)
EXTENDS LogChannel, SequenceTheorems, TLAPS

\* Every way the log channel changes, or stays, in one step of a module that
\* extends LogChannel.
ChannelStep ==
  \/ \E m \in Message : Sink(m)
  \/ SinkFails
  \/ DropSender
  \/ Drain
  \/ DrainPanics
  \/ UNCHANGED chanVars

\* The channel's type invariant survives every step on the channel: in
\* particular send() never exceeds the bound of mpsc::channel.
LEMMA ChannelTypeStep == ChannelTypeOK /\ ChannelStep => ChannelTypeOK'
<1> SUFFICES ASSUME ChannelTypeOK, ChannelStep PROVE ChannelTypeOK'
  OBVIOUS
<1> USE CapacityAssumption DEF ChannelTypeOK
<1>1. ASSUME NEW m \in Message, Sink(m) PROVE ChannelTypeOK'
  <2>1. /\ chan' \in Seq(Message)
        /\ Len(chan') = Len(chan) + 1
        /\ sunk' \in Seq(Message)
    BY <1>1, AppendProperties DEF Sink
  <2> QED
    BY <1>1, <2>1, LenProperties DEF Sink
<1>2. ASSUME chan # <<>>, TakeHead PROVE
        /\ chan' \in Seq(Message)
        /\ Len(chan') <= Capacity
        /\ received' \in Seq(Message)
  <2>1. /\ Head(chan) \in Message
        /\ Tail(chan) \in Seq(Message)
        /\ Len(Tail(chan)) = Len(chan) - 1
    BY <1>2, HeadTailProperties
  <2>2. Append(received, Head(chan)) \in Seq(Message)
    BY <2>1, AppendProperties
  <2> QED
    BY <1>2, <2>1, <2>2, LenProperties DEF TakeHead
<1>3. CASE DrainBatch
  BY <1>2, <1>3 DEF DrainBatch, TakeHead
<1>4. CASE DrainEnd
  BY <1>2, <1>4 DEF DrainEnd, TakeHead, DrainState
<1>5. CASE DrainPanics
  BY <1>5, EmptySeq DEF DrainPanics, DrainState
<1>6. CASE SinkFails \/ DropSender \/ DrainEmpty \/ DrainLost \/ UNCHANGED chanVars
  BY <1>6 DEF SinkFails, DropSender, DrainEmpty, DrainLost, DrainState, chanVars
<1> QED
  BY <1>1, <1>3, <1>4, <1>5, <1>6 DEF ChannelStep, Drain

\* No step loses, repeats or reorders a message between send() and try_recv().
LEMMA FifoStep == ChannelTypeOK /\ Fifo /\ ChannelStep => Fifo'
<1> SUFFICES ASSUME ChannelTypeOK, Fifo, ChannelStep PROVE Fifo'
  OBVIOUS
<1> USE DEF ChannelTypeOK, Fifo
<1>1. ASSUME NEW m \in Message, Sink(m) PROVE Fifo'
  <2>1. Append(received \o chan, m) = received \o Append(chan, m)
    <3>1. /\ Append(chan, m) = chan \o <<m>>
          /\ received \o chan \in Seq(Message)
          /\ <<m>> \in Seq(Message)
      BY AppendIsConcat, ConcatProperties
    <3>2. Append(received \o chan, m) = (received \o chan) \o <<m>>
      BY <3>1, AppendIsConcat
    <3> QED
      BY <3>1, <3>2, ConcatAssociative
  <2> QED
    BY <1>1, <2>1 DEF Sink
<1>2. ASSUME TakeHead, drain # "panicked" PROVE sunk' = received' \o chan'
  <2>1. /\ Head(chan) \in Message
        /\ Tail(chan) \in Seq(Message)
        /\ <<Head(chan)>> \in Seq(Message)
        /\ chan = <<Head(chan)>> \o Tail(chan)
    <3>1. chan # <<>>
      BY <1>2 DEF TakeHead
    <3>2. Head(chan) \in Message /\ Tail(chan) \in Seq(Message)
      BY <3>1, HeadTailProperties
    <3>3. /\ Len(Tail(chan)) = Len(chan) - 1
          /\ \A i \in 1..Len(Tail(chan)) : Tail(chan)[i] = chan[i + 1]
      BY <3>1, HeadTailProperties
    <3>4. <<Head(chan)>> \in Seq(Message) /\ Len(<<Head(chan)>>) = 1
      BY <3>2
    <3>5. /\ <<Head(chan)>> \o Tail(chan) \in Seq(Message)
          /\ Len(<<Head(chan)>> \o Tail(chan)) = Len(chan)
      BY <3>2, <3>3, <3>4, ConcatProperties, LenProperties
    <3>6. \A i \in 1..Len(chan) : chan[i] = (<<Head(chan)>> \o Tail(chan))[i]
      BY <3>1, <3>2, <3>3, <3>4, ConcatProperties, LenProperties
    <3>7. chan = <<Head(chan)>> \o Tail(chan)
      BY <3>5, <3>6, SeqEqual
    <3> QED
      BY <3>2, <3>4, <3>7
  <2>2. Append(received, Head(chan)) \o Tail(chan)
          = received \o (<<Head(chan)>> \o Tail(chan))
    BY <2>1, AppendIsConcat, ConcatAssociative
  <2> QED
    BY <1>2, <2>1, <2>2 DEF TakeHead
<1>3. CASE DrainBatch
  BY <1>2, <1>3 DEF DrainBatch
<1>4. CASE DrainEnd
  BY <1>2, <1>4 DEF DrainEnd
<1>5. CASE DrainPanics
  BY <1>5 DEF DrainPanics
<1>6. CASE SinkFails \/ DropSender \/ DrainEmpty \/ DrainLost \/ UNCHANGED chanVars
  BY <1>6 DEF SinkFails, DropSender, DrainEmpty, DrainLost, chanVars
<1> QED
  BY <1>1, <1>3, <1>4, <1>5, <1>6 DEF ChannelStep, Drain

\* The source is closed for good at End, and by nothing else.
ClosedAtEnd ==
  drain = "ended" <=> received # <<>> /\ received[Len(received)] = End

\* Every step keeps the source closed at End alone.
LEMMA ClosedAtEndStep ==
  ASSUME ChannelTypeOK, ClosedAtEnd, ChannelStep PROVE ClosedAtEnd'
<1> USE DEF ClosedAtEnd
<1>1. ASSUME TakeHead
      PROVE  received' # <<>> /\ received'[Len(received')] = Head(chan)
  <2>1. Head(chan) \in Message
    BY <1>1, HeadTailProperties DEF TakeHead, ChannelTypeOK
  <2> QED
    BY <1>1, <2>1, AppendProperties DEF TakeHead, ChannelTypeOK
<1>2. CASE DrainBatch
  BY <1>1, <1>2 DEF DrainBatch
<1>3. CASE DrainEnd
  BY <1>1, <1>3 DEF DrainEnd
<1>4. CASE DrainLost \/ DrainPanics
  BY <1>4 DEF DrainLost, DrainPanics
<1>5. CASE UNCHANGED <<drain, received>>
  BY <1>5
<1>6. \/ DrainBatch \/ DrainEnd \/ DrainLost \/ DrainPanics
      \/ UNCHANGED <<drain, received>>
  BY DEF ChannelStep, Sink, SinkFails, DropSender, Drain,
     DrainEmpty, chanVars
<1> QED
  BY <1>2, <1>3, <1>4, <1>5, <1>6
=============================================================================
