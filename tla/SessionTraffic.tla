--------------------------- MODULE SessionTraffic ---------------------------
(***************************************************************************)
(* What a step of a session, whichever it is, can do to the wires, to what *)
(* is on its way out, to the answers it is preparing and to its calls.     *)
(* The proofs about two sessions on one connection rest on these summaries *)
(* of Local instead of on its actions.                                     *)
(***************************************************************************)
EXTENDS SessionProofs, FiniteSetTheorems

-----------------------------------------------------------------------------
(* The wires *)

\* The wires are left alone; a connection that is closed stays closed.
Quiet == UNCHANGED <<inq, outq>> /\ (HungUp => HungUp')

\* PDUs are taken off the inbound wire, one by the reader or all at its end.
Reads ==
    /\ \E n \in 1 .. Len(inq) : inq' = SubSeq(inq, n + 1, Len(inq))
    /\ UNCHANGED outq /\ (HungUp <=> HungUp')

\* The writer puts the PDU in hand on the outbound wire.
Writes ==
    /\ wpc = "write" /\ wpc' = "top" /\ wframe # <<>>
    /\ Len(outq) < WireCap /\ outq' = Append(outq, wframe[1].pdu)
    /\ UNCHANGED inq

\* A step of the reader that goes on with the next PDU of its batch.
Dispatch ==
    \/ ReaderRequest \/ ReaderReply \/ ReaderUnbindResp \/ ReaderNack
    \/ ReaderAlert \/ ReaderEnquireLink \/ ReaderUnbind \/ ReaderUnsupported
    \/ ReaderLinkResp

\* Such a step takes that PDU and touches nothing that is on its way out.
LEMMA DispatchTakes ==
    ASSUME Dispatch
    PROVE  /\ rpc = "dispatch" /\ rpc' # "gone" /\ inq # <<>> /\ inq' = Tail(inq)
           /\ UNCHANGED <<chan, wpc, wframe, outq>>
  BY DEF Dispatch, ReaderRequest, ReaderReply, ReaderUnbindResp, ReaderNack, ReaderAlert,
         ReaderEnquireLink, ReaderUnbind, ReaderUnsupported, ReaderLinkResp, Next1, Settle,
         GoTo, SendThen, readerVars, writerVars

\* The other steps of the reader, by what they do to the wires.
Moves ==
    \/ ReaderBound \/ ReaderReads \/ ReaderMissesTicker \/ ReaderInactive
    \/ ReaderStopped \/ ReaderForwards \/ ReaderUnlinks \/ ReaderSweep
    \/ ReaderCloses \/ ReaderCancelled \/ ReaderPanics

LEMMA MovesStay ==
    ASSUME Moves
    PROVE  /\ rpc # "gone" /\ rpc' # "send" /\ UNCHANGED <<inq, chan, wpc, wframe, outq, tasks>>
  BY DEF Moves, ReaderBound, ReaderReads, ReaderMissesTicker, ReaderInactive, ReaderStopped,
         ReaderForwards, ReaderUnlinks, ReaderSweep, ReaderCloses, ReaderCancelled, ReaderPanics,
         ReaderEnds,
         GoTo, LoopTop, readerVars, writerVars

LEMMA ReaderKinds ==
    ReaderStep <=> Dispatch \/ Moves \/ ReaderEof \/ ReaderSends
  BY DEF ReaderStep, Dispatch, Moves

\* Every step is quiet, reads or writes.
LEMMA WiresMove ==
    ASSUME TypeOK, Local
    PROVE  Quiet \/ Reads \/ Writes
  <1> USE DEF callVars, writerVars, tableVars, readerVars, tickerVars
  <1>1. CASE (\E c \in Calls : CallStep(c)) \/ TickerStep \/ Stop \/ (\E s \in Seqs : Ages(s))
             \/ (\E i \in 1 .. Len(tasks) : TaskAnswers(i))
    <2>1. UNCHANGED <<inq, outq, wpc, rpc>>
      BY <1>1 DEF CallStep, CallBegin, CallPanics, CallEnqueue, CallRefused, CallReturns,
         CallTimesOut, TickerStep, TickerTick, TickerSends, TickerReceives, TickerTimesOut,
         TickerCancelled, Stop, Ages, TaskAnswers
    <2> QED
      BY <2>1 DEF Quiet, HungUp
  <1>2. CASE WriterStep
    <2>1. CASE WriterWrites
      <3>1. Len(wframe) = 1 /\ wframe \in Seq(Frames)
        BY <2>1 DEF WriterWrites, TypeOK
      <3> QED
        BY <2>1, <3>1 DEF WriterWrites, Writes
    <2>2. CASE ~WriterWrites
      <3>1. UNCHANGED <<inq, outq, rpc>> /\ wpc # "gone"
        BY <1>2, <2>2 DEF WriterStep, WriterTop, WriterTake, WriterClosed, WriterFails,
           WriterCancelled
      <3> QED
        BY <3>1 DEF Quiet, HungUp
    <2> QED
      BY <2>1, <2>2
  <1>3. CASE Dispatch
    <2>1. 1 \in 1 .. Len(inq) /\ inq' = SubSeq(inq, 1 + 1, Len(inq))
      <3>1. inq \in Seq(Pdus)
        BY DEF TypeOK
      <3>2. inq # <<>> /\ inq' = Tail(inq)
        BY <1>3, DispatchTakes
      <3> QED
        BY <3>1, <3>2, TailIsSubSeq
    <2> QED
      BY <1>3, <2>1, DispatchTakes DEF Reads, HungUp
  <1>4. CASE ReaderEof
    <2>1. CASE inq = <<>>
      BY <1>4, <2>1 DEF ReaderEof, GoTo, Quiet, HungUp
    <2>2. CASE inq # <<>>
      <3>1. Len(inq) \in 1 .. Len(inq) /\ SubSeq(inq, Len(inq) + 1, Len(inq)) = <<>>
        BY <2>2 DEF TypeOK
      <3>2. \E n \in 1 .. Len(inq) : inq' = SubSeq(inq, n + 1, Len(inq))
        BY <1>4, <3>1 DEF ReaderEof
      <3> QED
        BY <1>4, <3>2 DEF ReaderEof, GoTo, Reads, HungUp
    <2> QED
      BY <2>1, <2>2
  <1>5. CASE Moves
    BY <1>5, MovesStay DEF Quiet, HungUp
  <1>6. CASE ReaderSends
    BY <1>6 DEF ReaderSends, Quiet, HungUp
  <1> QED
    BY <1>1, <1>2, <1>3, <1>4, <1>5, <1>6, ReaderKinds DEF Local

-----------------------------------------------------------------------------
(* What is on its way out, and what will be *)

Elements(s) == {s[i] : i \in 1 .. Len(s)}
PdusOf(frames) == {frames[i].pdu : i \in 1 .. Len(frames)}

\* The PDUs in the channel, in the writer's hand and on the wire.
Out == PdusOf(chan) \cup PdusOf(wframe) \cup Elements(outq)

\* The requests about to be queued: of a call, and of the ticker.
Asking ==
    {RequestFrame(c).pdu : c \in {d \in Calls : callSt[d] = "sending"}}
      \cup {ProbeFrame.pdu : x \in {y \in {tpc} : y = "send"}}

\* A step of the read loop that queues what it holds, and goes on as planned.
Sends1 == rpc = "send" /\ rpc' = rthen /\ Out' \subseteq Out \cup {rout}

\* Appending, or taking from the front, does to the elements what it should.
LEMMA AppendElements ==
    ASSUME NEW T, NEW s \in Seq(T), NEW e \in T
    PROVE  Elements(Append(s, e)) = Elements(s) \cup {e}
  <1>1. /\ Len(Append(s, e)) = Len(s) + 1 /\ Append(s, e)[Len(s) + 1] = e
        /\ \A i \in 1 .. Len(s) : Append(s, e)[i] = s[i]
        /\ Len(s) \in Nat
    OBVIOUS
  <1> QED
    BY <1>1 DEF Elements

LEMMA AppendPdus ==
    ASSUME NEW s \in Seq(Frames), NEW f \in Frames
    PROVE  PdusOf(Append(s, f)) = PdusOf(s) \cup {f.pdu}
  <1>1. /\ Len(Append(s, f)) = Len(s) + 1 /\ Append(s, f)[Len(s) + 1] = f
        /\ \A i \in 1 .. Len(s) : Append(s, f)[i] = s[i]
        /\ Len(s) \in Nat
    OBVIOUS
  <1> QED
    BY <1>1 DEF PdusOf

LEMMA TailPdus ==
    ASSUME NEW s \in Seq(Frames), s # <<>>
    PROVE  PdusOf(s) = PdusOf(Tail(s)) \cup {Head(s).pdu}
  <1>1. /\ Len(Tail(s)) = Len(s) - 1 /\ Head(s) = s[1]
        /\ \A i \in 1 .. Len(Tail(s)) : Tail(s)[i] = s[i + 1]
        /\ Len(s) \in Nat /\ Len(s) >= 1
    BY HeadTailProperties
  <1>2. \A i \in 1 .. Len(s) : i # 1 => i - 1 \in 1 .. Len(Tail(s)) /\ s[i] = Tail(s)[i - 1]
    BY <1>1
  <1> QED
    BY <1>1, <1>2 DEF PdusOf

\* Queueing a frame adds its PDU and no other.
LEMMA EnqueueOut ==
    ASSUME TypeOK, NEW f \in Frames, chan' = Append(chan, f), UNCHANGED <<wframe, outq>>
    PROVE  Out' = Out \cup {f.pdu}
  <1>1. PdusOf(chan') = PdusOf(chan) \cup {f.pdu}
    BY AppendPdus DEF TypeOK
  <1> QED
    BY <1>1 DEF Out

\* Where a PDU that is queued comes from.
Source(p) ==
    \/ \E c \in Calls : callSt[c] = "sending" /\ p = RequestFrame(c).pdu
    \/ tpc = "send" /\ tpc' = "await" /\ UNCHANGED tseq /\ p = ProbeFrame.pdu
    \/ p \in Elements(tasks)
    \/ rpc = "send" /\ rpc' = rthen /\ p = rout

\* A frame is queued; the writer takes one, writes it, loses it; or none of these.
Queues(f) == chan' = Append(chan, f) /\ UNCHANGED <<wframe, outq>> /\ Source(f.pdu)

Takes ==
    /\ chan # <<>> /\ chan' = Tail(chan) /\ wframe = <<>>
    /\ \E f : wframe' = <<f>> /\ f.pdu = Head(chan).pdu
    /\ UNCHANGED outq

Puts ==
    /\ Len(wframe) = 1 /\ wframe' = <<>> /\ outq' = Append(outq, wframe[1].pdu)
    /\ UNCHANGED chan

Loses == chan' \in {chan, <<>>} /\ wframe' \in {wframe, <<>>} /\ UNCHANGED outq

\* Every step does one of these to what is on its way out.
LEMMA PathMoves ==
    ASSUME TypeOK, Local
    PROVE  (\E f \in Frames : Queues(f)) \/ Takes \/ Puts \/ Loses
  <1> USE DEF callVars, writerVars, tableVars, readerVars, tickerVars
  <1>1. ASSUME NEW c \in Calls, CallEnqueue(c) PROVE \E f \in Frames : Queues(f)
    <2>1. RequestFrame(c) \in Frames
      BY SessionAssumption DEF RequestFrame, Frames, Pdus, Tags, Sends, ClientSends,
         ServerSends, Commands, Requests, TypeOK
    <2>2. Queues(RequestFrame(c))
      BY <1>1 DEF CallEnqueue, Queues, Source
    <2> QED
      BY <2>1, <2>2
  <1>2. CASE TickerSends
    <2>1. ProbeFrame \in Frames
      BY DEF ProbeFrame, Frames, Pdus, Tags, Commands, Requests, TypeOK
    <2>2. Queues(ProbeFrame) \/ Loses
      BY <1>2 DEF TickerSends, Queues, Source, Loses
    <2> QED
      BY <2>1, <2>2
  <1>3. ASSUME NEW i \in 1 .. Len(tasks), TaskAnswers(i)
        PROVE  (\E f \in Frames : Queues(f)) \/ Loses
    <2>1. tasks[i] \in Pdus /\ tasks[i] \in Elements(tasks)
      BY DEF TypeOK, Elements
    <2>2. ReplyFrame(tasks[i]) \in Frames /\ ReplyFrame(tasks[i]).pdu = tasks[i]
      BY <2>1, ReplyFrameType DEF ReplyFrame
    <2>3. Queues(ReplyFrame(tasks[i])) \/ Loses
      BY <1>3, <2>1, <2>2 DEF TaskAnswers, Queues, Source, Loses
    <2> QED
      BY <2>2, <2>3
  <1>4. CASE ReaderSends
    <2>1. ReplyFrame(rout) \in Frames /\ ReplyFrame(rout).pdu = rout
      BY ReplyFrameType DEF ReplyFrame, TypeOK
    <2>2. Queues(ReplyFrame(rout)) \/ Loses
      BY <1>4, <2>1 DEF ReaderSends, GoTo, Queues, Source, Loses
    <2> QED
      BY <2>1, <2>2
  <1>5. CASE WriterTake
    <2>1. wframe = <<>>
      BY <1>5 DEF WriterTake, TypeOK
    <2>2. PICK f : wframe' = <<f>> /\ f.pdu = Head(chan).pdu
      BY <1>5 DEF WriterTake, Register
    <2> QED
      BY <1>5, <2>1, <2>2 DEF WriterTake, Takes
  <1>6. CASE WriterWrites
    BY <1>6 DEF WriterWrites, Puts, TypeOK
  <1>7. CASE WriterStep /\ ~WriterTake /\ ~WriterWrites
    BY <1>7 DEF WriterStep, WriterTop, WriterClosed, WriterFails, WriterCancelled, WriterEnds,
       Loses
  <1>8. CASE \/ (\E c \in Calls : CallStep(c) /\ ~CallEnqueue(c))
             \/ (TickerStep /\ ~TickerSends) \/ Stop \/ (\E s \in Seqs : Ages(s))
             \/ Dispatch \/ Moves \/ ReaderEof
    <2>1. UNCHANGED <<chan, wframe, outq>>
      BY <1>8, DispatchTakes, MovesStay DEF CallStep, CallBegin, CallPanics, CallRefused,
         CallReturns, CallTimesOut, TickerStep, TickerTick, TickerReceives, TickerTimesOut,
         TickerCancelled, Stop, Ages, ReaderEof
    <2> QED
      BY <2>1 DEF Loses
  <1> QED
    BY <1>1, <1>2, <1>3, <1>4, <1>5, <1>6, <1>7, <1>8, ReaderKinds DEF Local, CallStep, TickerStep

\* What goes out was on its way, is a request of this side, or an answer of a
\* listener task or of the read loop.
LEMMA OutMoves ==
    ASSUME TypeOK, Local
    PROVE  Out' \subseteq Out \cup Asking \cup Elements(tasks) \/ Sends1
  <1>1. ASSUME NEW f \in Frames, Queues(f)
        PROVE  Out' \subseteq Out \cup Asking \cup Elements(tasks) \/ Sends1
    <2>1. Out' = Out \cup {f.pdu}
      BY <1>1, EnqueueOut DEF Queues
    <2> QED
      BY <1>1, <2>1 DEF Queues, Source, Asking, Sends1
  <1>2. CASE Takes
    <2>1. PdusOf(chan) = PdusOf(chan') \cup {Head(chan).pdu}
      BY <1>2, TailPdus DEF Takes, TypeOK
    <2>2. PdusOf(wframe') = {Head(chan).pdu}
      BY <1>2 DEF Takes, PdusOf
    <2> QED
      BY <1>2, <2>1, <2>2 DEF Takes, Out
  <1>3. CASE Puts
    <2>1. wframe[1].pdu \in Pdus /\ wframe[1].pdu \in PdusOf(wframe)
      <3>1. wframe \in Seq(Frames) /\ Len(wframe) = 1
        BY <1>3 DEF Puts, TypeOK
      <3>2. 1 \in 1 .. Len(wframe) /\ wframe[1] \in Frames
        BY <3>1
      <3> QED
        BY <3>2 DEF Frames, PdusOf
    <2>2. Elements(outq') = Elements(outq) \cup {wframe[1].pdu}
      BY <1>3, <2>1, AppendElements DEF Puts, TypeOK
    <2>3. PdusOf(wframe') = {}
      BY <1>3 DEF Puts, PdusOf
    <2> QED
      BY <1>3, <2>1, <2>2, <2>3 DEF Puts, Out
  <1>4. CASE Loses
    <2>1. PdusOf(<<>>) = {}
      BY DEF PdusOf
    <2> QED
      BY <1>4, <2>1 DEF Loses, Out
  <1> QED
    BY <1>1, <1>2, <1>3, <1>4, PathMoves

-----------------------------------------------------------------------------
(* Answers *)

\* The PDUs a listener task is spawned for.
Handled(p) == p.good /\ p.cmd \in HandlerCmds(Role, Bind)

\* What the read loop itself answers to a PDU that decodes, and where it goes then.
LoopAnswers(p, a, then) ==
    \/ p.cmd = "enquire_link" /\ a = Pdu("enquire_link_resp", p) /\ then = "dispatch"
    \/ p.cmd = "unbind" /\ a = Pdu("unbind_resp", p) /\ then = "close"
    \/ p.cmd \notin Supported(Role, Bind) /\ a = Pdu("generic_nack", p) /\ then = "dispatch"

\* The head of the inbound wire is one of its elements.
LEMMA HeadElement ==
    ASSUME TypeOK, inq # <<>>
    PROVE  Head(inq) \in Elements(inq) /\ Head(inq) \in Pdus
  <1>1. inq \in Seq(Pdus) /\ Head(inq) = inq[1] /\ 1 \in 1 .. Len(inq)
    BY DEF TypeOK
  <1> QED
    BY <1>1 DEF Elements

\* The steps that touch neither the reader nor the listener tasks.
Elsewhere ==
    \/ \E c \in Calls : CallStep(c)
    \/ WriterStep \/ TickerStep \/ Stop
    \/ \E s \in Seqs : Ages(s)

LEMMA ElsewhereStays ==
    ASSUME Elsewhere
    PROVE  UNCHANGED <<inq, tasks, rpc, rout, rthen>>
  BY DEF Elsewhere, CallStep, CallBegin, CallPanics, CallEnqueue, CallRefused, CallReturns,
         CallTimesOut, WriterStep, WriterTop, WriterTake, WriterClosed, WriterWrites,
         WriterFails, WriterCancelled, TickerStep, TickerTick, TickerSends, TickerReceives,
         TickerTimesOut, TickerCancelled, Stop, Ages, readerVars, tickerVars

\* A new task answers a PDU that came in.
LEMMA TaskMoves ==
    ASSUME TypeOK, Local
    PROVE  Elements(tasks') \subseteq
             Elements(tasks) \cup {Pdu(RespOf[p.cmd], p) : p \in {q \in Elements(inq) : Handled(q)}}
  <1>1. CASE ReaderRequest
    <2>1. CASE Head(inq).good /\ tasks' = Append(tasks, Pdu(RespOf[Head(inq).cmd], Head(inq)))
      <3>1. /\ inq # <<>> /\ Head(inq).cmd \in HandlerCmds(Role, Bind)
        BY <1>1 DEF ReaderRequest, Next1
      <3>2. Head(inq) \in Elements(inq) /\ Handled(Head(inq)) /\ Head(inq) \in Pdus
        BY <2>1, <3>1, HeadElement DEF Handled
      <3>3. Pdu(RespOf[Head(inq).cmd], Head(inq)) \in Pdus
        BY <3>1, <3>2, AnswersAreCommands, PduType, SessionAssumption
      <3>4. Elements(tasks') = Elements(tasks) \cup {Pdu(RespOf[Head(inq).cmd], Head(inq))}
        BY <2>1, <3>3, AppendElements DEF TypeOK
      <3> QED
        BY <3>2, <3>4
    <2>2. CASE UNCHANGED tasks
      BY <2>2
    <2> QED
      BY <1>1, <2>1, <2>2 DEF ReaderRequest
  <1>2. ASSUME NEW i \in 1 .. Len(tasks), TaskAnswers(i)
        PROVE  Elements(tasks') \subseteq Elements(tasks)
    <2>1. \A j \in 1 .. Len(tasks') : \E k \in 1 .. Len(tasks) : tasks'[j] = tasks[k]
      BY <1>2, RemoveAtElements DEF TaskAnswers, TypeOK
    <2> QED
      BY <2>1 DEF Elements
  <1>3. CASE Elsewhere \/ Moves \/ ReaderEof \/ ReaderSends \/ (Dispatch /\ ~ReaderRequest)
    <2>1. UNCHANGED tasks
      BY <1>3, ElsewhereStays, MovesStay
      DEF ReaderEof, ReaderSends, Dispatch, ReaderReply, ReaderUnbindResp, ReaderNack, ReaderAlert,
          ReaderEnquireLink, ReaderUnbind, ReaderUnsupported, ReaderLinkResp
    <2> QED
      BY <2>1
  <1> QED
    BY <1>1, <1>2, <1>3, ReaderKinds DEF Local, Elsewhere

LEMMA DispatchAnswers ==
    ASSUME Dispatch, Head(inq).good, rpc' = "send"
    PROVE  LoopAnswers(Head(inq), rout', rthen')
  <1>1. rpc = "dispatch"
    BY DispatchTakes
  <1> QED
    BY <1>1 DEF Dispatch, ReaderRequest, ReaderReply, ReaderUnbindResp, ReaderNack,
       ReaderAlert, ReaderEnquireLink, ReaderUnbind, ReaderUnsupported, ReaderLinkResp, Next1,
       Settle, GoTo, SendThen, readerVars, RespOf, LoopAnswers

\* When everything that comes in decodes, the read loop answers probes and
\* unbinds, and refuses what it does not support.
LEMMA LoopMoves ==
    ASSUME TypeOK, Local, \A p \in Elements(inq) : p.good, rpc' = "send"
    PROVE  \/ rpc = "send" /\ UNCHANGED <<rout, rthen>>
           \/ \E p \in Elements(inq) : LoopAnswers(p, rout', rthen')
  <1>1. CASE Elsewhere \/ (\E i \in 1 .. Len(tasks) : TaskAnswers(i))
    BY <1>1, ElsewhereStays DEF TaskAnswers, readerVars
  <1>2. ~Moves /\ ~ReaderEof /\ ~ReaderSends
    BY MovesStay DEF ReaderEof, ReaderSends, GoTo, TypeOK
  <1>3. CASE Dispatch
    <2>1. inq # <<>>
      BY <1>3, DispatchTakes
    <2>2. Head(inq) \in Elements(inq) /\ Head(inq).good
      BY <2>1, HeadElement
    <2> QED
      BY <1>3, <2>2, DispatchAnswers
  <1> QED
    BY <1>1, <1>2, <1>3, ReaderKinds DEF Local, Elsewhere

\* A reader at its end stays there.
LEMMA EndStays ==
    ASSUME TypeOK, Local, rpc \in {"close", "gone"}
    PROVE  rpc' \in {"close", "gone"}
  <1>1. CASE Elsewhere \/ (\E i \in 1 .. Len(tasks) : TaskAnswers(i))
    BY <1>1, ElsewhereStays DEF TaskAnswers, readerVars
  <1>2. ~Dispatch
    BY DispatchTakes
  <1>3. CASE Moves \/ ReaderEof \/ ReaderSends
    BY <1>3 DEF Moves, ReaderBound, ReaderReads, ReaderMissesTicker, ReaderInactive,
       ReaderStopped, ReaderForwards, ReaderUnlinks, ReaderSweep, ReaderCloses,
       ReaderCancelled, ReaderPanics, ReaderEnds, GoTo, LoopTop, ReaderEof, ReaderSends
  <1> QED
    BY <1>1, <1>2, <1>3, ReaderKinds DEF Local, Elsewhere

-----------------------------------------------------------------------------
(* Calls *)

\* The PDUs that complete a call.
Settles(p) ==
    \/ p.cmd \in ReplyCmds(Role, Bind) \cup {"generic_nack"}
    \/ Role = "client" /\ p.cmd = "unbind_resp"

\* A oneshot is filled with a PDU that came in, by its sequence number.
LEMMA ReplyMoves ==
    ASSUME TypeOK, Local, NEW c \in Calls, slot'[c] = "full"
    PROVE  \/ slot[c] = "full" /\ reply'[c] = reply[c]
           \/ \E p \in Elements(inq) : reply'[c] = p /\ pending[p.seq] = c /\ Settles(p)
  <1>1. ASSUME NEW S, DropSlots(S), UNCHANGED reply
        PROVE  slot[c] = "full" /\ reply'[c] = reply[c]
    BY <1>1 DEF DropSlots
  <1>2. CASE \E d \in Calls : CallStep(d)
    <2>1. PICK d \in Calls : CallStep(d)
      BY <1>2
    <2>2. c = d => ~CallReturns(d)
      BY DEF CallReturns, DropSlots, TypeOK
    <2> QED
      BY <2>1, <2>2 DEF CallStep, CallBegin, CallPanics, CallEnqueue, CallRefused, CallReturns,
         CallTimesOut, DropSlots, TypeOK, callVars
  <1>3. CASE WriterStep
    <2>1. UNCHANGED reply
      BY <1>3 DEF WriterStep, WriterTop, WriterTake, WriterClosed, WriterWrites, WriterFails,
         WriterCancelled, callVars
    <2>2. UNCHANGED slot \/ \E S : DropSlots(S)
      BY <1>3 DEF WriterStep, WriterTop, WriterTake, WriterClosed, WriterWrites, WriterFails,
         WriterCancelled, WriterEnds, Register
    <2> QED
      BY <1>1, <2>1, <2>2
  <1>4. CASE ReaderReply \/ ReaderUnbindResp \/ ReaderNack
    <2>1. PICK done, bad : Settle(Head(inq), done, bad)
      BY <1>4 DEF ReaderReply, ReaderUnbindResp, ReaderNack
    <2>2. inq # <<>> /\ Settles(Head(inq))
      BY <1>4 DEF ReaderReply, ReaderUnbindResp, ReaderNack, Next1, Settles
    <2>3. CASE Deliver(pending[Head(inq).seq], Head(inq))
      <3>1. CASE pending[Head(inq).seq] = c
        BY <2>2, <2>3, <3>1, HeadElement DEF Deliver, TypeOK
      <3>2. CASE pending[Head(inq).seq] # c
        BY <2>3, <3>2 DEF Deliver, TypeOK
      <3> QED
        BY <3>1, <3>2
    <2>4. CASE UNCHANGED <<slot, reply>>
      BY <2>4
    <2>5. CASE UNCHANGED reply /\ \E S : DropSlots(S)
      BY <1>1, <2>5
    <2> QED
      BY <2>1, <2>3, <2>4, <2>5 DEF Settle
  <1>5. CASE ReaderUnlinks \/ ReaderSweep \/ ReaderCloses \/ ReaderCancelled \/ ReaderPanics
    BY <1>5, <1>1 DEF ReaderUnlinks, ReaderSweep, ReaderCloses, ReaderCancelled, ReaderPanics,
       ReaderEnds, callVars
  <1>6. CASE \/ TickerStep \/ Stop \/ (\E s \in Seqs : Ages(s))
             \/ (\E i \in 1 .. Len(tasks) : TaskAnswers(i))
             \/ ReaderBound \/ ReaderReads \/ ReaderMissesTicker \/ ReaderInactive \/ ReaderEof
             \/ ReaderStopped \/ ReaderRequest \/ ReaderAlert \/ ReaderEnquireLink
             \/ ReaderUnbind \/ ReaderUnsupported \/ ReaderSends \/ ReaderLinkResp
             \/ ReaderForwards
    <2>1. UNCHANGED <<slot, reply>>
      BY <1>6 DEF TickerStep, TickerTick, TickerSends, TickerReceives, TickerTimesOut,
         TickerCancelled, Stop, Ages, TaskAnswers, ReaderBound, ReaderReads, ReaderMissesTicker,
         ReaderInactive, ReaderEof, ReaderStopped, ReaderRequest, ReaderAlert,
         ReaderEnquireLink, ReaderUnbind, ReaderUnsupported, ReaderSends, ReaderLinkResp,
         ReaderForwards, callVars
    <2> QED
      BY <2>1
  <1> QED
    BY <1>2, <1>3, <1>4, <1>5, <1>6 DEF Local, ReaderStep

\* The steps of the calls apart, no call moves.
LEMMA CallsStay ==
    ASSUME Local, ~\E c \in Calls : CallStep(c)
    PROVE  UNCHANGED <<callSt, callSeq>>
  BY DEF Local, WriterStep, WriterTop, WriterTake, WriterClosed, WriterWrites, WriterFails,
     WriterCancelled, TickerStep, TickerTick, TickerSends, TickerReceives, TickerTimesOut,
     TickerCancelled, Stop, Ages, TaskAnswers, ReaderStep, ReaderBound, ReaderReads,
     ReaderMissesTicker, ReaderInactive, ReaderEof, ReaderStopped, ReaderRequest, ReaderReply,
     ReaderUnbindResp, ReaderNack, ReaderAlert, ReaderEnquireLink, ReaderUnbind,
     ReaderUnsupported, ReaderSends, ReaderLinkResp, ReaderForwards, ReaderUnlinks,
     ReaderSweep, ReaderCloses, ReaderCancelled, ReaderPanics, callVars

\* A call succeeds only on the response that is expected.
LEMMA OkMoves ==
    ASSUME TypeOK, Local, NEW c \in Calls, callSt'[c] = "ok"
    PROVE  callSt[c] = "ok" \/ (slot[c] = "full" /\ reply[c].cmd = RespOf[CmdOf[c]])
  <1>1. CASE \E d \in Calls : CallStep(d)
    BY <1>1 DEF CallStep, CallBegin, CallPanics, CallEnqueue, CallRefused, CallReturns,
       CallTimesOut, OutcomeOf, TypeOK
  <1> QED
    BY <1>1, CallsStay

-----------------------------------------------------------------------------
(* All of the outbound traffic *)

\* Everything this side has sent, is sending or is about to answer is in M.
Traffic(M) ==
    /\ Out \subseteq M
    /\ Elements(tasks) \subseteq M
    /\ rpc = "send" => rout \in M

\* M holds the requests about to be queued, and the answers to what has come in,
\* all of which decodes.
Covers(M) ==
    /\ Asking \subseteq M
    /\ \A p \in Elements(inq) :
         /\ p.good
         /\ Handled(p) => Pdu(RespOf[p.cmd], p) \in M
         /\ \A a, then : LoopAnswers(p, a, then) => a \in M

\* Then M goes on to hold all of it.
LEMMA TrafficMoves ==
    ASSUME TypeOK, Local, NEW M, Traffic(M), Covers(M)
    PROVE  Traffic(M)'
  <1>1. Out' \subseteq M
    BY OutMoves DEF Traffic, Covers, Sends1
  <1>2. Elements(tasks') \subseteq M
    BY TaskMoves DEF Traffic, Covers
  <1>3. rpc' = "send" => rout' \in M
    BY LoopMoves DEF Traffic, Covers
  <1> QED
    BY <1>1, <1>2, <1>3 DEF Traffic

\* A session starts with nothing on its way.
LEMMA TrafficInit ==
    ASSUME Init, NEW M
    PROVE  Traffic(M)
  BY DEF Init, LocalInit, Traffic, Out, PdusOf, Elements

\* While the other side moves, only the wire can change, and it only gets shorter.
LEMMA TrafficStays ==
    ASSUME NEW M, Traffic(M), UNCHANGED <<chan, wframe, tasks, rpc, rout>>,
           Elements(outq') \subseteq Elements(outq)
    PROVE  Traffic(M)'
  BY DEF Traffic, Out

\* What is read off a wire leaves elements that were there.
LEMMA DropElements ==
    ASSUME NEW T, NEW s \in Seq(T), NEW n \in 1 .. Len(s)
    PROVE  Elements(SubSeq(s, n + 1, Len(s))) \subseteq Elements(s)
  <1>1. PICK d : d = SubSeq(s, n + 1, Len(s))
    OBVIOUS
  <1>2. ASSUME NEW i \in 1 .. Len(d) PROVE \E j \in 1 .. Len(s) : d[i] = s[j]
    BY <1>1, <1>2, DropType
  <1>3. ASSUME NEW e \in Elements(d) PROVE e \in Elements(s)
    <2>1. PICK i \in 1 .. Len(d) : e = d[i]
      BY <1>3, Zenon DEF Elements
    <2>2. PICK j \in 1 .. Len(s) : d[i] = s[j]
      BY <1>2, <2>1
    <2> QED
      BY <2>1, <2>2, Zenon DEF Elements
  <1>4. Elements(d) \subseteq Elements(s)
    BY <1>3
  <1> QED
    BY <1>1, <1>4

\* The PDUs whose body decodes: every PDU a session builds.
Decodable == {p \in Pdus : p.good}

LEMMA DecodableCovers ==
    ASSUME TypeOK, Elements(inq) \subseteq Decodable
    PROVE  Covers(Decodable)
  <1>1. Asking \subseteq Decodable
    <2>1. \A c \in Calls : RequestFrame(c).pdu \in Decodable
      BY SessionAssumption DEF RequestFrame, Pdus, Tags, Sends, ClientSends, ServerSends,
         Commands, Requests, TypeOK, Decodable
    <2>2. ProbeFrame.pdu \in Decodable
      BY DEF ProbeFrame, Pdus, Tags, Commands, Requests, TypeOK, Decodable
    <2> QED
      BY <2>1, <2>2 DEF Asking
  <1>2. ASSUME NEW p \in Elements(inq), NEW cmd \in Commands PROVE Pdu(cmd, p) \in Decodable
    BY <1>2, PduType DEF Decodable, Pdu
  <1>3. ASSUME NEW p \in Elements(inq), Handled(p) PROVE Pdu(RespOf[p.cmd], p) \in Decodable
    BY <1>2, <1>3, AnswersAreCommands, SessionAssumption DEF Handled
  <1>4. ASSUME NEW p \in Elements(inq), NEW a, NEW then, LoopAnswers(p, a, then)
        PROVE  a \in Decodable
    BY <1>2, <1>4 DEF LoopAnswers, Commands, Responses
  <1> QED
    BY <1>1, <1>3, <1>4 DEF Covers, Decodable

-----------------------------------------------------------------------------
(* Sequence numbers *)

\* The call has drawn its sequence number.
Begun(c) == callSt[c] \notin {"idle", "panicked"}
Drawn == {c \in Calls : Begun(c)}

\* The number is drawn once, by a call the bind allows.
LEMMA BeginMoves ==
    ASSUME TypeOK, Local, NEW c \in Calls
    PROVE  /\ Begun(c) => Begun(c)' /\ callSeq'[c] = callSeq[c]
           /\ ~Begun(c) /\ Begun(c)' => Allowed(Role, Bind, CmdOf[c])
  <1>1. CASE \E d \in Calls : CallStep(d)
    <2>1. PICK d \in Calls : CallStep(d)
      BY <1>1
    <2>2. OutcomeOf(d) \notin {"idle", "panicked"}
      BY DEF OutcomeOf
    <2>3. CASE c = d
      BY <2>1, <2>2, <2>3 DEF CallStep, MayBegin, CallBegin, CallPanics, CallEnqueue, CallRefused,
         CallReturns, CallTimesOut, Begun, TypeOK
    <2>4. CASE c # d
      BY <2>1, <2>4 DEF CallStep, MayBegin, CallBegin, CallPanics, CallEnqueue, CallRefused,
         CallReturns, CallTimesOut, Begun, TypeOK
    <2> QED
      BY <2>3, <2>4
  <1> QED
    BY <1>1, CallsStay DEF Begun

\* The first number a session draws, and a number space it does not exhaust.
First == IF Role = "client" THEN 2 ELSE 1
Ample == IsFiniteSet(Calls) /\ First + Cardinality(Calls) + MaxProbes < SeqSpace

\* No two calls have drawn the same number, and none is drawn ahead of the counter.
Distinct ==
    /\ seqNo <= First + Cardinality(Drawn) + probes
    /\ \A c \in Drawn : callSeq[c] < seqNo
    /\ \A c, d \in Drawn : callSeq[c] = callSeq[d] => c = d

LEMMA DistinctInit ==
    ASSUME Init, Ample
    PROVE  Distinct
  <1>1. Drawn = {} /\ Cardinality({}) = 0
    BY FS_EmptySet DEF Drawn, Begun, Init, LocalInit
  <1>2. Cardinality(Calls) \in Nat
    BY FS_CardinalityType DEF Ample
  <1>3. First \in Nat /\ First < SeqSpace
    BY <1>2, SessionAssumption DEF Ample, First
  <1>4. First % SeqSpace = First
    BY <1>3, SessionAssumption
  <1> QED
    BY <1>1, <1>3, <1>4 DEF Distinct, Init, LocalInit, First

\* The counter apart, the steps that draw no number.
LEMMA DrawMoves ==
    ASSUME TypeOK, Local
    PROVE  \/ UNCHANGED <<seqNo, probes>> /\ Drawn' = Drawn /\ \A c \in Drawn : callSeq'[c] = callSeq[c]
           \/ /\ seqNo' = NextSeq /\ UNCHANGED probes
              /\ \E c \in Calls : ~Begun(c) /\ Drawn' = Drawn \cup {c} /\ callSeq'[c] = seqNo
              /\ \A c \in Drawn : callSeq'[c] = callSeq[c]
           \/ /\ seqNo' = NextSeq /\ probes < MaxProbes /\ probes' = probes + 1
              /\ Drawn' = Drawn /\ \A c \in Drawn : callSeq'[c] = callSeq[c]
  <1>1. ASSUME NEW c \in Calls, CallBegin(c)
        PROVE  /\ seqNo' = NextSeq /\ UNCHANGED probes
               /\ ~Begun(c) /\ Drawn' = Drawn \cup {c} /\ callSeq'[c] = seqNo
               /\ \A d \in Drawn : callSeq'[d] = callSeq[d]
    BY <1>1 DEF CallBegin, MayBegin, Drawn, Begun, TypeOK, tickerVars
  <1>2. ASSUME NEW c \in Calls, CallStep(c), ~CallBegin(c)
        PROVE  UNCHANGED <<seqNo, probes>> /\ Drawn' = Drawn /\ UNCHANGED callSeq
    <2>1. UNCHANGED <<seqNo, probes, callSeq>>
      BY <1>2 DEF CallStep, CallPanics, CallEnqueue, CallRefused, CallReturns, CallTimesOut,
         tickerVars
    <2>2. \A d \in Calls : Begun(d)' <=> Begun(d)
      <3>1. OutcomeOf(c) \notin {"idle", "panicked"}
        BY DEF OutcomeOf
      <3> QED
        BY <1>2, <3>1 DEF CallStep, CallPanics, CallEnqueue, CallRefused, CallReturns,
           CallTimesOut, MayBegin, Begun, TypeOK
    <2> QED
      BY <2>1, <2>2 DEF Drawn
  <1>3. CASE ~\E c \in Calls : CallStep(c)
    <2>1. UNCHANGED <<callSt, callSeq>>
      BY <1>3, CallsStay
    <2>2. Drawn' = Drawn
      BY <2>1 DEF Drawn, Begun
    <2>3. CASE TickerTick
      BY <2>1, <2>2, <2>3 DEF TickerTick
    <2>4. CASE ~TickerTick
      <3>1. UNCHANGED <<seqNo, probes>>
        BY <1>3, <2>4 DEF Local, WriterStep, WriterTop, WriterTake, WriterClosed, WriterWrites,
           WriterFails, WriterCancelled, TickerStep, TickerSends, TickerReceives,
           TickerTimesOut, TickerCancelled, Stop, Ages, TaskAnswers, ReaderStep, ReaderBound,
           ReaderReads, ReaderMissesTicker, ReaderInactive, ReaderEof, ReaderStopped,
           ReaderRequest, ReaderReply, ReaderUnbindResp, ReaderNack, ReaderAlert,
           ReaderEnquireLink, ReaderUnbind, ReaderUnsupported, ReaderSends, ReaderLinkResp,
           ReaderForwards, ReaderUnlinks, ReaderSweep, ReaderCloses, ReaderCancelled,
           ReaderPanics, tickerVars
      <3> QED
        BY <2>1, <2>2, <3>1
    <2> QED
      BY <2>3, <2>4
  <1> QED
    BY <1>1, <1>2, <1>3

LEMMA DistinctMoves ==
    ASSUME TypeOK, Local, Ample, Distinct
    PROVE  Distinct'
  <1>1. /\ IsFiniteSet(Drawn) /\ Cardinality(Drawn) \in Nat /\ Cardinality(Calls) \in Nat
        /\ Cardinality(Drawn) <= Cardinality(Calls)
    BY FS_Subset, FS_CardinalityType DEF Ample, Drawn
  <1>2. seqNo \in Nat /\ probes \in Nat /\ probes <= MaxProbes /\ MaxProbes \in Nat
        /\ First \in Nat /\ SeqSpace \in Nat \ {0} /\ \A c \in Calls : callSeq[c] \in Nat
    BY SessionAssumption DEF TypeOK, Seqs, First
  <1>3. Drawn \subseteq Calls
    BY DEF Drawn
  <1>4. CASE UNCHANGED <<seqNo, probes>> /\ Drawn' = Drawn /\ \A c \in Drawn : callSeq'[c] = callSeq[c]
    BY <1>4 DEF Distinct
  <1>5. ASSUME NEW c \in Calls, ~Begun(c), Drawn' = Drawn \cup {c}, callSeq'[c] = seqNo,
               seqNo' = NextSeq, UNCHANGED probes, \A d \in Drawn : callSeq'[d] = callSeq[d]
        PROVE  Distinct'
    <2>1. c \notin Drawn
      BY <1>5 DEF Drawn
    <2>2. Cardinality(Drawn') = Cardinality(Drawn) + 1
      BY <1>1, <1>5, <2>1, FS_AddElement
    <2>3. Cardinality(Drawn) + 1 <= Cardinality(Calls)
      <3>1. Drawn' \subseteq Calls
        BY <1>3, <1>5
      <3> QED
        BY <2>2, <3>1, FS_Subset DEF Ample
    <2>4. seqNo + 1 < SeqSpace
      BY <1>1, <1>2, <2>3 DEF Ample, Distinct
    <2>5. seqNo' = seqNo + 1
      BY <1>2, <1>5, <2>4 DEF NextSeq
    <2>6. seqNo' <= First + Cardinality(Drawn') + probes'
      BY <1>1, <1>2, <1>5, <2>2, <2>5 DEF Distinct
    <2>7. \A d \in Drawn' : callSeq'[d] < seqNo'
      BY <1>2, <1>3, <1>5, <2>5 DEF Distinct
    <2>8. \A d, e \in Drawn' : callSeq'[d] = callSeq'[e] => d = e
      BY <1>2, <1>3, <1>5 DEF Distinct
    <2> QED
      BY <2>6, <2>7, <2>8 DEF Distinct
  <1>6. CASE /\ seqNo' = NextSeq /\ probes < MaxProbes /\ probes' = probes + 1
             /\ Drawn' = Drawn /\ \A c \in Drawn : callSeq'[c] = callSeq[c]
    <2>1. seqNo + 1 < SeqSpace
      BY <1>1, <1>2, <1>6 DEF Ample, Distinct
    <2>2. seqNo' = seqNo + 1
      BY <1>2, <1>6, <2>1 DEF NextSeq
    <2>3. seqNo' <= First + Cardinality(Drawn') + probes'
      BY <1>1, <1>2, <1>6, <2>2 DEF Distinct
    <2>4. \A d \in Drawn' : callSeq'[d] < seqNo'
      BY <1>2, <1>3, <1>6, <2>2 DEF Distinct
    <2> QED
      BY <1>6, <2>3, <2>4 DEF Distinct
  <1> QED
    BY <1>4, <1>5, <1>6, DrawMoves

-----------------------------------------------------------------------------
(***************************************************************************)
(* Probes.  An enquire_link and its answer are followed by counting: how   *)
(* many of them, with a number in Q, are in each place they pass.          *)
(***************************************************************************)
Count(s, S) == Cardinality({i \in 1 .. Len(s) : s[i] \in S})

LEMMA CountType ==
    ASSUME NEW T, NEW s \in Seq(T), NEW S
    PROVE  Count(s, S) \in Nat /\ IsFiniteSet({i \in 1 .. Len(s) : s[i] \in S})
  <1>1. IsFiniteSet(1 .. Len(s))
    BY FS_Interval
  <1>2. IsFiniteSet({i \in 1 .. Len(s) : s[i] \in S})
    BY <1>1, FS_Subset
  <1> QED
    BY <1>2, FS_CardinalityType DEF Count

LEMMA CountEmpty == \A S : Count(<<>>, S) = 0
  <1> SUFFICES ASSUME NEW S PROVE Count(<<>>, S) = 0
    OBVIOUS
  <1>1. {i \in 1 .. Len(<<>>) : <<>>[i] \in S} = {}
    OBVIOUS
  <1> QED
    BY <1>1, FS_EmptySet DEF Count

LEMMA CountAppend ==
    ASSUME NEW T, NEW s \in Seq(T), NEW x \in T, NEW S
    PROVE  Count(Append(s, x), S) = IF x \in S THEN Count(s, S) + 1 ELSE Count(s, S)
  <1> DEFINE I == {i \in 1 .. Len(s) : s[i] \in S}
             J == {i \in 1 .. Len(Append(s, x)) : Append(s, x)[i] \in S}
  <1>1. Len(Append(s, x)) = Len(s) + 1 /\ Len(s) \in Nat /\ Append(s, x)[Len(s) + 1] = x
        /\ \A i \in 1 .. Len(s) : Append(s, x)[i] = s[i]
    BY AppendProperties
  <1>2. IsFiniteSet(I) /\ Len(s) + 1 \notin I
    <2>1. IsFiniteSet(I)
      BY CountType
    <2>2. Len(s) + 1 \notin 1 .. Len(s)
      BY <1>1
    <2> QED
      BY <2>1, <2>2
  <1>3. J = IF x \in S THEN I \cup {Len(s) + 1} ELSE I
    BY <1>1
  <1> HIDE DEF I, J
  <1>4. Cardinality(J) = IF x \in S THEN Cardinality(I) + 1 ELSE Cardinality(I)
    BY <1>2, <1>3, FS_AddElement
  <1>5. Count(s, S) = Cardinality(I) /\ Count(Append(s, x), S) = Cardinality(J)
    BY DEF Count, I, J
  <1> QED
    BY <1>4, <1>5

LEMMA CountTail ==
    ASSUME NEW T, NEW s \in Seq(T), s # <<>>, NEW S
    PROVE  Count(s, S) = IF Head(s) \in S THEN Count(Tail(s), S) + 1 ELSE Count(Tail(s), S)
  <1> DEFINE I == {i \in 1 .. Len(s) : s[i] \in S}
             J == {i \in 1 .. Len(Tail(s)) : Tail(s)[i] \in S}
             f == [i \in J |-> i + 1]
  <1>1. /\ Tail(s) \in Seq(T) /\ Len(Tail(s)) = Len(s) - 1 /\ Head(s) = s[1]
        /\ \A i \in 1 .. Len(Tail(s)) : Tail(s)[i] = s[i + 1]
        /\ Len(s) \in Nat /\ Len(s) >= 1
    BY HeadTailProperties
  <1>2. IsFiniteSet(I) /\ IsFiniteSet(J) /\ Cardinality(I) \in Nat /\ Cardinality(J) \in Nat
    BY <1>1, CountType DEF Count
  <1>3. f \in Bijection(J, I \ {1})
    <2>1. \A i \in J : i \in Nat /\ i + 1 \in I /\ i + 1 # 1
      BY <1>1
    <2>2. \A k \in I \ {1} : k \in Nat /\ k - 1 \in J /\ (k - 1) + 1 = k
      BY <1>1
    <2>3. \A i, j \in J : i + 1 = j + 1 => i = j
      BY <2>1
    <2> HIDE DEF I, J
    <2>4. f \in [J -> I \ {1}] /\ DOMAIN f = J /\ \A i, j \in J : f[i] = f[j] => i = j
      BY <2>1, <2>3
    <2>5. \A k \in I \ {1} : \E i \in J : f[i] = k
      BY <2>2
    <2> HIDE DEF f
    <2> QED
      BY <2>4, <2>5 DEF Bijection, Injection, Surjection, IsInjective
  <1>4. Cardinality(I \ {1}) = Cardinality(J)
    <2>1. ExistsBijection(J, I \ {1})
      BY <1>3 DEF ExistsBijection
    <2> QED
      BY <1>2, <2>1, FS_Bijection
  <1>5. 1 \in I <=> Head(s) \in S
    BY <1>1
  <1> HIDE DEF I, J
  <1>6. Cardinality(I \ {1}) = IF 1 \in I THEN Cardinality(I) - 1 ELSE Cardinality(I)
    BY <1>2, FS_RemoveElement
  <1>7. Cardinality(I) = IF Head(s) \in S THEN Cardinality(J) + 1 ELSE Cardinality(J)
    BY <1>2, <1>4, <1>5, <1>6
  <1>8. Count(s, S) = Cardinality(I) /\ Count(Tail(s), S) = Cardinality(J)
    BY DEF Count, I, J
  <1> QED
    BY <1>7, <1>8

\* A larger set counts no less, and counting nothing means there is none.
LEMMA CountSubset ==
    ASSUME NEW T, NEW s \in Seq(T), NEW S, NEW R, R \subseteq S
    PROVE  Count(s, R) <= Count(s, S)
  <1> DEFINE I == {i \in 1 .. Len(s) : s[i] \in S}
             J == {i \in 1 .. Len(s) : s[i] \in R}
  <1>1. J \in SUBSET I /\ IsFiniteSet(I)
    BY CountType
  <1>2. Count(s, R) = Cardinality(J) /\ Count(s, S) = Cardinality(I)
    BY DEF Count
  <1> HIDE DEF I, J
  <1> QED
    BY <1>1, <1>2, FS_Subset

LEMMA CountNone ==
    ASSUME NEW T, NEW s \in Seq(T), NEW S, Count(s, S) = 0
    PROVE  \A i \in 1 .. Len(s) : s[i] \notin S
  <1> DEFINE I == {i \in 1 .. Len(s) : s[i] \in S}
  <1>1. IsFiniteSet(I) /\ Cardinality(I) = 0
    BY CountType DEF Count
  <1>2. I = {}
    <2> HIDE DEF I
    <2> QED
      BY <1>1, FS_EmptySet
  <1> QED
    BY <1>2

LEMMA CountAll ==
    ASSUME NEW T, NEW s \in Seq(T)
    PROVE  Count(s, T) = Len(s)
  <1>1. {i \in 1 .. Len(s) : s[i] \in T} = 1 .. Len(s) /\ Len(s) \in Nat
    OBVIOUS
  <1>2. Count(s, T) = Cardinality(1 .. Len(s))
    BY <1>1 DEF Count
  <1>3. Cardinality(1 .. Len(s)) = IF 1 > Len(s) THEN 0 ELSE Len(s) - 1 + 1
    BY <1>1, FS_Interval
  <1> QED
    BY <1>1, <1>2, <1>3

\* The PDUs and frames with command X and a number in Q, and how many of them
\* wait for the wire or are on their way out.
PdusIn(X, Q) == {p \in Pdus : p.cmd = X /\ p.seq \in Q}
FramesIn(X, Q) == {f \in Frames : f.pdu \in PdusIn(X, Q)}
Unsent(X, Q) == Count(chan, FramesIn(X, Q)) + Count(wframe, FramesIn(X, Q))
Outgoing(X, Q) == Unsent(X, Q) + Count(outq, PdusIn(X, Q))

LEMMA OutgoingType ==
    ASSUME TypeOK, NEW X, NEW Q
    PROVE  /\ Count(chan, FramesIn(X, Q)) \in Nat /\ Count(wframe, FramesIn(X, Q)) \in Nat
           /\ Count(outq, PdusIn(X, Q)) \in Nat /\ Count(inq, PdusIn(X, Q)) \in Nat
           /\ Count(linkQ, Q) \in Nat /\ Unsent(X, Q) \in Nat /\ Outgoing(X, Q) \in Nat
  <1>1. Count(chan, FramesIn(X, Q)) \in Nat /\ Count(wframe, FramesIn(X, Q)) \in Nat
    BY CountType DEF TypeOK
  <1>2. Count(outq, PdusIn(X, Q)) \in Nat /\ Count(inq, PdusIn(X, Q)) \in Nat
        /\ Count(linkQ, Q) \in Nat
    BY CountType DEF TypeOK
  <1> QED
    BY <1>1, <1>2 DEF Unsent, Outgoing

\* A frame in hand counts for its PDU.
LEMMA CountOne ==
    ASSUME NEW f \in Frames, NEW X, NEW Q
    PROVE  Count(<<f>>, FramesIn(X, Q)) = IF f.pdu \in PdusIn(X, Q) THEN 1 ELSE 0
  <1>1. <<f>> = Append(<<>>, f) /\ <<>> \in Seq(Frames)
    OBVIOUS
  <1>2. f \in FramesIn(X, Q) <=> f.pdu \in PdusIn(X, Q)
    BY DEF FramesIn
  <1>3. Count(Append(<<>>, f), FramesIn(X, Q)) =
          IF f \in FramesIn(X, Q) THEN Count(<<>>, FramesIn(X, Q)) + 1
                                  ELSE Count(<<>>, FramesIn(X, Q))
    BY <1>1, CountAppend
  <1>4. Count(<<>>, FramesIn(X, Q)) = 0
    BY CountEmpty
  <1> QED
    BY <1>1, <1>2, <1>3, <1>4

\* Taking and writing keep the number; only what is queued adds to it.
LEMMA OutgoingMoves ==
    ASSUME TypeOK, TypeOK', Local, NEW X, NEW Q
    PROVE  \/ Outgoing(X, Q)' <= Outgoing(X, Q)
           \/ /\ Outgoing(X, Q)' = Outgoing(X, Q) + 1
              /\ \E p \in PdusIn(X, Q) : Source(p)
  <1> DEFINE F == FramesIn(X, Q)
             P == PdusIn(X, Q)
  <1>1. /\ Count(chan, F) \in Nat /\ Count(wframe, F) \in Nat /\ Count(outq, P) \in Nat
        /\ Count(chan', F) \in Nat /\ Count(wframe', F) \in Nat /\ Count(outq', P) \in Nat
    <2>1. /\ chan \in Seq(Frames) /\ wframe \in Seq(Frames) /\ outq \in Seq(Pdus)
          /\ chan' \in Seq(Frames) /\ wframe' \in Seq(Frames) /\ outq' \in Seq(Pdus)
      BY DEF TypeOK
    <2> QED
      BY <2>1, CountType
  <1>2. /\ Outgoing(X, Q) = Count(chan, F) + Count(wframe, F) + Count(outq, P)
        /\ Outgoing(X, Q)' = Count(chan', F) + Count(wframe', F) + Count(outq', P)
    BY DEF Outgoing, Unsent
  <1>3. Count(<<>>, F) = 0
    BY CountEmpty
  <1>4. \A f \in Frames : f \in F <=> f.pdu \in P
    BY DEF FramesIn
  <1> HIDE DEF F, P
  <1>5. ASSUME NEW f \in Frames, Queues(f)
        PROVE  \/ Outgoing(X, Q)' <= Outgoing(X, Q)
               \/ Outgoing(X, Q)' = Outgoing(X, Q) + 1 /\ \E p \in P : Source(p)
    <2>1. Count(chan', F) = IF f \in F THEN Count(chan, F) + 1 ELSE Count(chan, F)
      BY <1>5, CountAppend DEF Queues, TypeOK
    <2>2. wframe' = wframe /\ outq' = outq /\ Source(f.pdu)
      BY <1>5 DEF Queues
    <2> QED
      BY <1>1, <1>2, <1>4, <2>1, <2>2
  <1>6. CASE Takes
    <2>1. PICK f : wframe' = <<f>> /\ f.pdu = Head(chan).pdu
      BY <1>6 DEF Takes
    <2>2. f \in Frames
      <3>1. wframe' \in Seq(Frames) /\ Len(wframe') = 1 /\ wframe'[1] = f
        BY <2>1 DEF TypeOK
      <3> QED
        BY <3>1
    <2>3. chan \in Seq(Frames) /\ chan # <<>> /\ Head(chan) \in Frames
      BY <1>6 DEF Takes, TypeOK
    <2>4. Count(chan, F) = IF Head(chan) \in F THEN Count(chan', F) + 1 ELSE Count(chan', F)
      BY <1>6, <2>3, CountTail DEF Takes
    <2>5. Count(wframe', F) = IF f.pdu \in P THEN 1 ELSE 0
      BY <2>1, <2>2, CountOne DEF F, P
    <2> QED
      BY <1>1, <1>2, <1>3, <1>4, <1>6, <2>1, <2>3, <2>4, <2>5 DEF Takes
  <1>7. CASE Puts
    <2>1. wframe \in Seq(Frames) /\ Len(wframe) = 1
      BY <1>7 DEF Puts, TypeOK
    <2>2. wframe[1] \in Frames /\ wframe = <<wframe[1]>>
      BY <2>1
    <2>3. wframe[1].pdu \in Pdus
      BY <2>2 DEF Frames
    <2>4. Count(outq', P) = IF wframe[1].pdu \in P THEN Count(outq, P) + 1 ELSE Count(outq, P)
      BY <1>7, <2>3, CountAppend DEF Puts, TypeOK
    <2>5. Count(wframe, F) = IF wframe[1].pdu \in P THEN 1 ELSE 0
      BY <2>2, CountOne DEF F, P
    <2> QED
      BY <1>1, <1>2, <1>3, <1>7, <2>4, <2>5 DEF Puts
  <1>8. CASE Loses
    BY <1>1, <1>2, <1>3, <1>8 DEF Loses
  <1> QED
    BY <1>5, <1>6, <1>7, <1>8, PathMoves DEF P

\* Neither the listener tasks nor the read loop ever send a probe, and only the
\* read loop answers one.
Replies ==
    /\ \A p \in Elements(tasks) : p.cmd \notin {"enquire_link", "enquire_link_resp"}
    /\ rpc = "send" => rout.cmd # "enquire_link"

LEMMA RepliesInit ==
    ASSUME Init
    PROVE  Replies
  BY DEF Init, LocalInit, Replies, Elements

LEMMA RepliesMove ==
    ASSUME TypeOK, Local, Replies, \A p \in Elements(inq) : p.good
    PROVE  Replies'
  <1>1. \A p : Handled(p) => RespOf[p.cmd] \notin {"enquire_link", "enquire_link_resp"}
    BY SessionAssumption DEF Handled, HandlerCmds, ClientHandlers, ServerHandlers, MaySubmit,
       MayDeliver, Roles, Binds, RespOf
  <1>2. \A p \in Elements(tasks') : p.cmd \notin {"enquire_link", "enquire_link_resp"}
    BY <1>1, TaskMoves DEF Replies, Pdu
  <1>3. rpc' = "send" => rout'.cmd # "enquire_link"
    BY LoopMoves DEF Replies, LoopAnswers, Pdu
  <1> QED
    BY <1>2, <1>3 DEF Replies

LEMMA ProbeSource ==
    ASSUME TypeOK, Replies, NEW p, Source(p)
    PROVE  /\ p.cmd = "enquire_link" =>
                tpc = "send" /\ tpc' = "await" /\ UNCHANGED tseq /\ p.seq = tseq
           /\ p.cmd = "enquire_link_resp" => rpc = "send" /\ rpc' = rthen /\ p = rout
  <1>1. \A c \in Calls : RequestFrame(c).pdu.cmd \notin {"enquire_link", "enquire_link_resp"}
    BY SessionAssumption DEF RequestFrame, Sends, ClientSends, ServerSends
  <1>2. ProbeFrame.pdu.cmd = "enquire_link" /\ ProbeFrame.pdu.seq = tseq
    BY DEF ProbeFrame
  <1> QED
    BY <1>1, <1>2 DEF Source, Replies

\* The answers on their way to the ticker: on the wire, in the reader's hand, in
\* the channel between the two.
Forwarding(Q) == IF rpc = "forward" /\ rout.seq \in Q THEN 1 ELSE 0
Arriving(Q) == Count(inq, PdusIn("enquire_link_resp", Q)) + Forwarding(Q) + Count(linkQ, Q)

\* The PDU the reader takes off the wire.
LEMMA ArrivalTaken ==
    ASSUME TypeOK, inq # <<>>, inq' = Tail(inq), NEW X, NEW Q
    PROVE  Count(inq, PdusIn(X, Q)) =
             IF Head(inq).cmd = X /\ Head(inq).seq \in Q THEN Count(inq', PdusIn(X, Q)) + 1
                                                         ELSE Count(inq', PdusIn(X, Q))
  <1>1. inq \in Seq(Pdus) /\ Head(inq) \in Pdus
    BY DEF TypeOK
  <1>2. Head(inq) \in PdusIn(X, Q) <=> Head(inq).cmd = X /\ Head(inq).seq \in Q
    BY <1>1 DEF PdusIn
  <1> QED
    BY <1>1, <1>2, CountTail

\* Apart from the ticker, whoever moves an answer moves it on by one place.
LEMMA ArrivalMoves ==
    ASSUME TypeOK, TypeOK', Local, ~TickerStep, tpc # "gone", NEW Q
    PROVE  UNCHANGED <<tpc, tseq>> /\ Arriving(Q)' <= Arriving(Q)
  <1> DEFINE P == PdusIn("enquire_link_resp", Q)
  <1> USE DEF readerVars, tickerVars
  <1>1. /\ Count(inq, P) \in Nat /\ Count(linkQ, Q) \in Nat
        /\ Count(inq', P) \in Nat /\ Count(linkQ', Q) \in Nat
    <2>1. inq \in Seq(Pdus) /\ inq' \in Seq(Pdus) /\ linkQ \in Seq(Seqs) /\ linkQ' \in Seq(Seqs)
      BY DEF TypeOK
    <2> QED
      BY <2>1, CountType
  <1>2. /\ Arriving(Q) = Count(inq, P) + Forwarding(Q) + Count(linkQ, Q)
        /\ Arriving(Q)' = Count(inq', P) + Forwarding(Q)' + Count(linkQ', Q)
    BY DEF Arriving
  <1>3. Forwarding(Q) \in 0 .. 1 /\ Forwarding(Q)' \in 0 .. 1
    BY DEF Forwarding
  <1>4. Count(<<>>, P) = 0
    BY CountEmpty
  <1>5. CASE Dispatch
    <2>1. inq # <<>> /\ inq' = Tail(inq) /\ UNCHANGED tickerVars
      BY <1>5, DispatchTakes DEF Dispatch, ReaderRequest, ReaderReply, ReaderUnbindResp,
         ReaderNack, ReaderAlert, ReaderEnquireLink, ReaderUnbind, ReaderUnsupported,
         ReaderLinkResp
    <2>2. Count(inq, P) = IF Head(inq).cmd = "enquire_link_resp" /\ Head(inq).seq \in Q
                            THEN Count(inq', P) + 1 ELSE Count(inq', P)
      BY <2>1, ArrivalTaken
    <2>3. rpc' = "forward" => rout' = Head(inq) /\ Head(inq).cmd = "enquire_link_resp"
      BY <1>5, DispatchTakes DEF Dispatch, ReaderRequest, ReaderReply, ReaderUnbindResp,
         ReaderNack, ReaderAlert, ReaderEnquireLink, ReaderUnbind, ReaderUnsupported,
         ReaderLinkResp, Next1, Settle, GoTo, SendThen
    <2>4. Forwarding(Q) = 0
      BY <1>5, DispatchTakes DEF Forwarding
    <2>5. Forwarding(Q)' =
            IF rpc' = "forward" /\ rout'.seq \in Q THEN 1 ELSE 0
      BY DEF Forwarding
    <2> HIDE DEF P
    <2> QED
      BY <1>1, <1>2, <2>1, <2>2, <2>3, <2>4, <2>5
  <1>6. CASE ReaderForwards
    <2>1. /\ rpc = "forward" /\ rpc' = "unlink" /\ UNCHANGED <<inq, tpc, tseq>>
          /\ linkQ' = Append(linkQ, rout.seq)
      BY <1>6 DEF ReaderForwards
    <2>2. linkQ \in Seq(Seqs) /\ rout.seq \in Seqs
      BY DEF TypeOK, Pdus
    <2>3. Count(linkQ', Q) = IF rout.seq \in Q THEN Count(linkQ, Q) + 1 ELSE Count(linkQ, Q)
      BY <2>1, <2>2, CountAppend
    <2>4. Forwarding(Q) = (IF rout.seq \in Q THEN 1 ELSE 0) /\ Forwarding(Q)' = 0
      BY <2>1 DEF Forwarding
    <2> HIDE DEF P
    <2> QED
      BY <1>1, <1>2, <2>1, <2>3, <2>4
  <1>7. CASE (Moves /\ ~ReaderForwards) \/ ReaderEof \/ ReaderSends
    <2>1. UNCHANGED tickerVars /\ inq' \in {inq, <<>>}
      BY <1>7 DEF Moves, ReaderBound, ReaderReads, ReaderMissesTicker, ReaderInactive,
         ReaderStopped, ReaderUnlinks, ReaderSweep, ReaderCloses, ReaderCancelled, ReaderPanics,
         ReaderEof,
         ReaderSends
    <2>2. rpc' # "forward"
      BY <1>7 DEF Moves, ReaderBound, ReaderReads, ReaderMissesTicker, ReaderInactive,
         ReaderStopped, ReaderUnlinks, ReaderSweep, ReaderCloses, ReaderCancelled, ReaderPanics,
         ReaderEof,
         ReaderSends, ReaderEnds, GoTo, LoopTop, TypeOK
    <2>3. Forwarding(Q)' = 0
      BY <2>2 DEF Forwarding
    <2> HIDE DEF P
    <2> QED
      BY <1>1, <1>2, <1>3, <1>4, <2>1, <2>3
  <1>8. CASE ~ReaderStep
    <2>1. UNCHANGED <<tickerVars, inq, rpc, rout>>
      BY <1>8 DEF Local, CallStep, CallBegin, CallPanics, CallEnqueue, CallRefused,
         CallReturns, CallTimesOut, WriterStep, WriterTop, WriterTake, WriterClosed,
         WriterWrites, WriterFails, WriterCancelled, Stop, Ages, TaskAnswers
    <2>2. Forwarding(Q)' = Forwarding(Q)
      BY <2>1 DEF Forwarding
    <2> HIDE DEF P
    <2> QED
      BY <1>1, <1>2, <1>3, <2>1, <2>2
  <1> QED
    BY <1>5, <1>6, <1>7, <1>8, ReaderKinds

\* All that the ticker's side holds of a probe and its answer.
Probing(Q) == Outgoing("enquire_link", Q) + Arriving(Q)

LEMMA ProbingType ==
    ASSUME TypeOK, NEW Q
    PROVE  Arriving(Q) \in Nat /\ Probing(Q) \in Nat /\ Forwarding(Q) \in 0 .. 1
  BY OutgoingType DEF Arriving, Probing, Forwarding

\* It grows by the probe the ticker sends and shrinks by the answer it takes.
LEMMA ProbingMoves ==
    ASSUME TypeOK, TypeOK', Local, Replies, tpc # "gone", tpc' # "gone", NEW Q
    PROVE  \/ UNCHANGED <<tpc, tseq>> /\ Probing(Q)' <= Probing(Q)
           \/ tpc = "wait" /\ tpc' = "send" /\ Probing(Q)' <= Probing(Q)
           \/ /\ tpc = "send" /\ tpc' = "await" /\ UNCHANGED tseq
              /\ Probing(Q)' <= Probing(Q) + 1
              /\ tseq \notin Q => Probing(Q)' <= Probing(Q)
           \/ /\ tpc = "await" /\ tpc' = "wait"
              /\ tseq \in Q => Probing(Q)' + 1 <= Probing(Q)
  <1> DEFINE G == Outgoing("enquire_link", Q)
             A == Arriving(Q)
  <1>1. G \in Nat /\ A \in Nat /\ G' \in Nat /\ A' \in Nat
    <2>1. G \in Nat /\ A \in Nat
      BY OutgoingType, ProbingType
    <2>2. /\ Count(chan', FramesIn("enquire_link", Q)) \in Nat
          /\ Count(wframe', FramesIn("enquire_link", Q)) \in Nat
          /\ Count(outq', PdusIn("enquire_link", Q)) \in Nat
          /\ Count(inq', PdusIn("enquire_link_resp", Q)) \in Nat
          /\ Count(linkQ', Q) \in Nat
      <3>1. /\ chan' \in Seq(Frames) /\ wframe' \in Seq(Frames) /\ outq' \in Seq(Pdus)
            /\ inq' \in Seq(Pdus) /\ linkQ' \in Seq(Seqs)
        BY DEF TypeOK
      <3> QED
        BY <3>1, CountType
    <2>3. Forwarding(Q)' \in Nat
      BY DEF Forwarding
    <2> QED
      BY <2>1, <2>2, <2>3 DEF Outgoing, Unsent, Arriving
  <1>2. Probing(Q) = G + A /\ Probing(Q)' = G' + A'
    BY DEF Probing
  <1>3. \/ G' <= G
        \/ G' = G + 1 /\ tpc = "send" /\ tpc' = "await" /\ UNCHANGED tseq /\ tseq \in Q
    BY OutgoingMoves, ProbeSource DEF PdusIn
  <1>4. CASE ~TickerStep
    <2>1. UNCHANGED <<tpc, tseq>> /\ A' <= A
      BY <1>4, ArrivalMoves
    <2> QED
      BY <1>1, <1>2, <1>3, <2>1
  <1>5. CASE TickerTick \/ TickerSends
    <2>1. /\ UNCHANGED <<inq, rpc, rout, linkQ>>
          /\ \/ tpc = "wait" /\ tpc' = "send"
             \/ tpc = "send" /\ tpc' = "await" /\ UNCHANGED tseq
      BY <1>5 DEF TickerTick, TickerSends, TickerEnds, readerVars
    <2>2. A' = A
      BY <2>1 DEF Arriving, Forwarding
    <2> QED
      BY <1>1, <1>2, <1>3, <2>1, <2>2
  <1>6. CASE TickerReceives
    <2>1. /\ UNCHANGED <<inq, rpc, rout>> /\ tpc = "await" /\ tpc' = "wait"
          /\ linkQ # <<>> /\ linkQ' = Tail(linkQ) /\ Head(linkQ) = tseq
      BY <1>6 DEF TickerReceives, TickerEnds, readerVars
    <2>2. Count(linkQ, Q) = IF tseq \in Q THEN Count(linkQ', Q) + 1 ELSE Count(linkQ', Q)
      BY <2>1, CountTail DEF TypeOK
    <2>3. Forwarding(Q)' = Forwarding(Q) /\ Forwarding(Q) \in Nat
      BY <2>1 DEF Forwarding
    <2>4. /\ Count(inq, PdusIn("enquire_link_resp", Q)) \in Nat
          /\ Count(linkQ, Q) \in Nat /\ Count(linkQ', Q) \in Nat
      <3>1. linkQ' \in Seq(Seqs)
        BY DEF TypeOK
      <3> QED
        BY <3>1, OutgoingType, CountType
    <2>5. tseq \in Q => A' + 1 = A
      BY <2>1, <2>2, <2>3, <2>4 DEF Arriving
    <2> QED
      BY <1>1, <1>2, <1>3, <2>1, <2>5
  <1>7. CASE TickerTimesOut \/ TickerCancelled
    BY <1>7 DEF TickerTimesOut, TickerCancelled, TickerEnds
  <1> QED
    BY <1>4, <1>5, <1>6, <1>7 DEF TickerStep

\* All that the other side holds: probes on the wire, the answer the read loop is
\* about to queue, answers on their way out.  It never grows by itself.
Answering(Q) == IF rpc = "send" /\ rout \in PdusIn("enquire_link_resp", Q) THEN 1 ELSE 0
Answered(Q) == Count(inq, PdusIn("enquire_link", Q)) + Answering(Q)
                 + Outgoing("enquire_link_resp", Q)

LEMMA AnsweredMoves ==
    ASSUME TypeOK, TypeOK', Local, Replies, \A p \in Elements(inq) : p.good, NEW Q
    PROVE  Answered(Q)' <= Answered(Q)
  <1> DEFINE P == PdusIn("enquire_link", Q)
  <1> USE DEF readerVars, writerVars
  <1>1. /\ Count(inq, P) \in Nat /\ Outgoing("enquire_link_resp", Q) \in Nat
        /\ Count(inq', P) \in Nat /\ Outgoing("enquire_link_resp", Q)' \in Nat
    <2>1. /\ chan' \in Seq(Frames) /\ wframe' \in Seq(Frames) /\ outq' \in Seq(Pdus)
          /\ inq' \in Seq(Pdus)
      BY DEF TypeOK
    <2>2. /\ Count(chan', FramesIn("enquire_link_resp", Q)) \in Nat
          /\ Count(wframe', FramesIn("enquire_link_resp", Q)) \in Nat
          /\ Count(outq', PdusIn("enquire_link_resp", Q)) \in Nat
          /\ Count(inq', P) \in Nat
      BY <2>1, CountType
    <2> QED
      BY <2>2, OutgoingType DEF Outgoing, Unsent
  <1>2. /\ Answered(Q) = Count(inq, P) + Answering(Q) + Outgoing("enquire_link_resp", Q)
        /\ Answered(Q)' = Count(inq', P) + Answering(Q)' + Outgoing("enquire_link_resp", Q)'
    BY DEF Answered
  <1>3. Answering(Q) \in 0 .. 1 /\ Answering(Q)' \in 0 .. 1
    BY DEF Answering
  <1>4. Count(<<>>, P) = 0
    BY CountEmpty
  <1>5. \/ Outgoing("enquire_link_resp", Q)' <= Outgoing("enquire_link_resp", Q)
        \/ /\ Outgoing("enquire_link_resp", Q)' = Outgoing("enquire_link_resp", Q) + 1
           /\ rpc = "send" /\ rpc' = rthen /\ Answering(Q) = 1
    BY OutgoingMoves, ProbeSource DEF PdusIn, Answering
  <1>6. rthen # "send"
    BY DEF TypeOK
  <1>7. CASE Dispatch
    <2>1. inq # <<>> /\ inq' = Tail(inq) /\ UNCHANGED <<chan, wframe, outq>> /\ rpc = "dispatch"
      BY <1>7, DispatchTakes
    <2>2. Outgoing("enquire_link_resp", Q)' = Outgoing("enquire_link_resp", Q)
      BY <2>1 DEF Outgoing, Unsent
    <2>3. Count(inq, P) = IF Head(inq).cmd = "enquire_link" /\ Head(inq).seq \in Q
                            THEN Count(inq', P) + 1 ELSE Count(inq', P)
      BY <2>1, ArrivalTaken
    <2>4. Answering(Q)' = 1 => Head(inq).cmd = "enquire_link" /\ Head(inq).seq \in Q
      <3>1. rpc' = "send" => LoopAnswers(Head(inq), rout', rthen')
        BY <1>7, <2>1, HeadElement, DispatchAnswers
      <3> QED
        BY <3>1 DEF Answering, LoopAnswers, Pdu, PdusIn
    <2>5. Answering(Q) = 0
      BY <2>1 DEF Answering
    <2> HIDE DEF P
    <2> QED
      BY <1>1, <1>2, <1>3, <2>2, <2>3, <2>4, <2>5
  <1>8. CASE ReaderSends
    <2>1. UNCHANGED inq /\ rpc' # "send"
      BY <1>6, <1>8 DEF ReaderSends, GoTo
    <2>2. Answering(Q)' = 0
      BY <2>1 DEF Answering
    <2> HIDE DEF P
    <2> QED
      BY <1>1, <1>2, <1>3, <1>5, <2>1, <2>2
  <1>9. CASE Moves \/ ReaderEof
    <2>1. UNCHANGED <<chan, wframe, outq>> /\ rpc' # "send" /\ inq' \in {inq, <<>>}
      BY <1>9, MovesStay DEF ReaderEof, GoTo
    <2>2. Outgoing("enquire_link_resp", Q)' = Outgoing("enquire_link_resp", Q)
      BY <2>1 DEF Outgoing, Unsent
    <2>3. Answering(Q)' = 0
      BY <2>1 DEF Answering
    <2> HIDE DEF P
    <2> QED
      BY <1>1, <1>2, <1>3, <1>4, <2>1, <2>2, <2>3
  <1>10. CASE ~ReaderStep
    <2>1. UNCHANGED <<inq, rpc, rout>>
      BY <1>10, ElsewhereStays DEF Local, Elsewhere, TaskAnswers
    <2>2. Answering(Q)' = Answering(Q)
      BY <2>1 DEF Answering
    <2> HIDE DEF P
    <2> QED
      BY <1>1, <1>2, <1>3, <1>5, <1>6, <2>1, <2>2
  <1> QED
    BY <1>7, <1>8, <1>9, <1>10, ReaderKinds

\* Fewer numbers count for less.
LEMMA ProbeSubset ==
    ASSUME TypeOK, NEW R, NEW Q, Q \subseteq R
    PROVE  /\ Probing(Q) <= Probing(R) /\ Answering(Q) <= Answering(R)
           /\ Unsent("enquire_link_resp", Q) <= Unsent("enquire_link_resp", R)
  <1>1. \A X : PdusIn(X, Q) \subseteq PdusIn(X, R) /\ FramesIn(X, Q) \subseteq FramesIn(X, R)
    BY DEF PdusIn, FramesIn
  <1>2. ASSUME NEW X PROVE /\ Count(chan, FramesIn(X, Q)) <= Count(chan, FramesIn(X, R))
                           /\ Count(wframe, FramesIn(X, Q)) <= Count(wframe, FramesIn(X, R))
                           /\ Count(outq, PdusIn(X, Q)) <= Count(outq, PdusIn(X, R))
                           /\ Count(inq, PdusIn(X, Q)) <= Count(inq, PdusIn(X, R))
    <2>1. /\ chan \in Seq(Frames) /\ wframe \in Seq(Frames) /\ outq \in Seq(Pdus)
          /\ inq \in Seq(Pdus)
      BY DEF TypeOK
    <2> QED
      BY <1>1, <2>1, CountSubset
  <1>3. Count(linkQ, Q) <= Count(linkQ, R)
    BY CountSubset DEF TypeOK
  <1>4. Forwarding(Q) <= Forwarding(R) /\ Forwarding(Q) \in Nat /\ Forwarding(R) \in Nat
    BY DEF Forwarding
  <1>5. Answering(Q) <= Answering(R)
    BY <1>1 DEF Answering
  <1>6. \A X : Unsent(X, Q) <= Unsent(X, R) /\ Outgoing(X, Q) <= Outgoing(X, R)
    BY <1>2, OutgoingType DEF Unsent, Outgoing
  <1>7. Probing(Q) <= Probing(R)
    BY <1>2, <1>3, <1>4, <1>6, OutgoingType DEF Probing, Arriving
  <1> QED
    BY <1>5, <1>6, <1>7

\* A ticker that has ended does not come back.
LEMMA TickerGone ==
    ASSUME TypeOK, Local, tpc = "gone"
    PROVE  tpc' = "gone"
  BY DEF Local, CallStep, CallBegin, CallPanics, CallEnqueue, CallRefused, CallReturns,
     CallTimesOut, WriterStep, WriterTop, WriterTake, WriterClosed, WriterWrites, WriterFails,
     WriterCancelled, TickerStep, TickerTick, TickerSends, TickerReceives, TickerTimesOut,
     TickerCancelled, Stop, Ages, TaskAnswers, ReaderStep, ReaderBound, ReaderReads,
     ReaderMissesTicker, ReaderInactive, ReaderEof, ReaderStopped, ReaderRequest, ReaderReply,
     ReaderUnbindResp, ReaderNack, ReaderAlert, ReaderEnquireLink, ReaderUnbind,
     ReaderUnsupported, ReaderSends, ReaderLinkResp, ReaderForwards, ReaderUnlinks,
     ReaderSweep, ReaderCloses, ReaderCancelled, ReaderPanics, tickerVars
=============================================================================
