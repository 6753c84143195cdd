--------------------------- MODULE SessionProofs ---------------------------
(***************************************************************************)
(* Proofs about Session, for every role, bind, set of calls, set of PDUs   *)
(* the peer may send, and size of the channels and of the sequence space.  *)
(***************************************************************************)
EXTENDS Session, SequenceTheorems, TLAPS

-----------------------------------------------------------------------------
(* Facts about the operators the model is built from *)

\* The answers a session sends are commands, never requests.
LEMMA AnswersAreCommands ==
    /\ \A role \in Roles, bind \in Binds :
         \A cmd \in HandlerCmds(role, bind) \cup {"enquire_link"} :
            RespOf[cmd] \in Commands \ Requests
    /\ \A role \in Roles, cmd \in Commands : RejectOf(role, cmd) \in Commands \ Requests
  BY DEF RespOf, HandlerCmds, ClientHandlers, ServerHandlers, Commands, Requests,
         Responses, RejectOf, ClientReject, ServerReject, Roles, Binds

\* The next sequence number stays within the sequence space.
LEMMA SeqWraps ==
    /\ \A n \in Nat : n % SeqSpace \in Seqs
    /\ 0 \in Seqs
  BY SessionAssumption DEF Seqs

\* The placeholder in an empty reply or an idle reader is a PDU.
LEMMA NoPduType == NoPdu \in Pdus
  BY SeqWraps DEF NoPdu, Pdus, Commands, Tags

\* A reader that takes the first n elements of a sequence leaves the others.
LEMMA DropType ==
    ASSUME NEW T, NEW s \in Seq(T), NEW n \in 1 .. Len(s)
    PROVE  LET t == SubSeq(s, n + 1, Len(s)) IN
           /\ t \in Seq(T) /\ Len(t) <= Len(s)
           /\ \A j \in 1 .. Len(t) : \E k \in 1 .. Len(s) : t[j] = s[k]
  <1> DEFINE t == SubSeq(s, n + 1, Len(s))
  <1>1. /\ Len(s) \in Nat /\ n \in Nat /\ 1 <= n /\ n <= Len(s)
        /\ \A j \in n + 1 .. Len(s) : s[j] \in T
    OBVIOUS
  <1>2. /\ t \in Seq(T)
        /\ Len(t) = IF n + 1 <= Len(s) THEN Len(s) - (n + 1) + 1 ELSE 0
        /\ \A j \in 1 .. Len(s) - (n + 1) + 1 : t[j] = s[(n + 1) + j - 1]
    <2>1. n + 1 \in Int /\ Len(s) \in Int
      BY <1>1
    <2> QED
      BY <1>1, <2>1, SubSeqProperties
  <1> HIDE DEF t
  <1>3. Len(t) = Len(s) - n
    BY <1>1, <1>2
  <1>4. ASSUME NEW j \in 1 .. Len(t)
        PROVE  \E k \in 1 .. Len(s) : t[j] = s[k]
    <2>1. t[j] = s[(n + 1) + j - 1] /\ (n + 1) + j - 1 \in 1 .. Len(s)
      BY <1>1, <1>2, <1>3
    <2> QED
      BY <2>1
  <1>5. t \in Seq(T) /\ Len(t) <= Len(s)
    BY <1>1, <1>2, <1>3
  <1> QED
    BY <1>4, <1>5 DEF t

\* Taking an element out of a sequence keeps its element type ...
LEMMA RemoveAtType ==
    ASSUME NEW T, NEW s \in Seq(T), NEW i \in 1 .. Len(s)
    PROVE  RemoveAt(s, i) \in Seq(T)
  <1>1. SubSeq(s, 1, i - 1) \in Seq(T)
    BY SubSeqProperties, \A j \in 1 .. i - 1 : s[j] \in T
  <1>2. SubSeq(s, i + 1, Len(s)) \in Seq(T)
    BY SubSeqProperties, \A j \in i + 1 .. Len(s) : s[j] \in T
  <1> QED
    BY <1>1, <1>2, ConcatProperties DEF RemoveAt

\* ... and adds no element to it.
LEMMA RemoveAtElements ==
    ASSUME NEW T, NEW s \in Seq(T), NEW i \in 1 .. Len(s)
    PROVE  \A j \in 1 .. Len(RemoveAt(s, i)) : \E k \in 1 .. Len(s) : RemoveAt(s, i)[j] = s[k]
  <1> DEFINE a == SubSeq(s, 1, i - 1)
             b == SubSeq(s, i + 1, Len(s))
  <1>1. /\ a \in Seq(T) /\ Len(a) = i - 1
        /\ \A j \in 1 .. i - 1 : a[j] = s[j]
    BY SubSeqProperties, \A j \in 1 .. i - 1 : s[j] \in T
  <1>2. /\ b \in Seq(T) /\ Len(b) = Len(s) - i
        /\ \A j \in 1 .. Len(s) - i : b[j] = s[i + j]
    BY SubSeqProperties, \A j \in i + 1 .. Len(s) : s[j] \in T
  <1>3. RemoveAt(s, i) = a \o b
    BY DEF RemoveAt
  <1> HIDE DEF a, b
  <1>4. /\ Len(a \o b) = Len(a) + Len(b)
        /\ \A j \in 1 .. Len(a) + Len(b) :
             (a \o b)[j] = IF j <= Len(a) THEN a[j] ELSE b[j - Len(a)]
    BY <1>1, <1>2, ConcatProperties
  <1>5. i \in Nat /\ Len(s) \in Nat /\ i <= Len(s) /\ i >= 1
    OBVIOUS
  <1> SUFFICES ASSUME NEW j \in 1 .. Len(a \o b)
               PROVE  \E k \in 1 .. Len(s) : (a \o b)[j] = s[k]
    BY <1>3
  <1>6. CASE j <= Len(a)
    BY <1>1, <1>2, <1>4, <1>5, <1>6
  <1>7. CASE j > Len(a)
    <2>1. (a \o b)[j] = b[j - Len(a)] /\ j - Len(a) \in 1 .. Len(s) - i
      BY <1>1, <1>2, <1>4, <1>5, <1>7
    <2>2. i + (j - Len(a)) \in 1 .. Len(s)
      BY <1>5, <2>1
    <2>3. b[j - Len(a)] = s[i + (j - Len(a))]
      BY <1>2, <2>1
    <2> QED
      BY <2>1, <2>2, <2>3
  <1> QED
    BY <1>1, <1>2, <1>4, <1>5, <1>6, <1>7

-----------------------------------------------------------------------------
(* Type correctness *)

\* The state a session starts in after the bind is well typed.
LEMMA TypeInit == Init => TypeOK
  <1> SUFFICES ASSUME Init PROVE TypeOK
    OBVIOUS
  <1>1. seqNo \in Seqs
    <2> DEFINE first == IF Role = "client" THEN 2 ELSE 1
    <2>1. first \in Nat
      OBVIOUS
    <2> QED
      BY <2>1, SeqWraps DEF Init, LocalInit
  <1>2. /\ callSeq \in [Calls -> Seqs] /\ reply \in [Calls -> Pdus]
        /\ rout \in Pdus /\ tseq \in Seqs
    BY SeqWraps, NoPduType DEF Init, LocalInit
  <1>3. late \subseteq {s \in Seqs : pending[s] # "absent"}
    BY DEF Init, LocalInit
  <1>4. /\ chan \in Seq(Frames) /\ Len(chan) <= ChanCap
        /\ wframe \in Seq(Frames) /\ Len(wframe) = 0 /\ wpc = "recv"
        /\ tasks \in Seq(Pdus)
        /\ linkQ \in Seq(Seqs) /\ Len(linkQ) <= LinkCap
        /\ inq \in Seq(Pdus) /\ outq \in Seq(Pdus)
        /\ Len(inq) <= WireCap /\ Len(outq) <= WireCap
        /\ probes \in 0 .. MaxProbes
    BY SessionAssumption DEF Init, LocalInit
  <1> QED
    BY <1>1, <1>2, <1>3, <1>4 DEF Init, LocalInit, TypeOK

\* A send that waited for space leaves the channel within its capacity.
LEMMA EnqueueType ==
    ASSUME TypeOK, NEW f \in Frames, CanEnqueue
    PROVE  Append(chan, f) \in Seq(Frames) /\ Len(Append(chan, f)) <= ChanCap
  BY SessionAssumption DEF TypeOK, CanEnqueue

\* A WriteFrame without our_sequence_number is a frame.
LEMMA ReplyFrameType ==
    ASSUME NEW p \in Pdus
    PROVE  ReplyFrame(p) \in Frames
  BY DEF ReplyFrame, Frames, Tags

\* The send_* calls preserve the types.
LEMMA TypeCall ==
    ASSUME TypeOK, UNCHANGED peer, NEW c \in Calls, CallStep(c)
    PROVE  TypeOK'
  <1> USE DEF TypeOK, callVars, writerVars, readerVars, tickerVars, tableVars
  <1>1. CASE CallBegin(c)
    <2>1. seqNo' \in Seqs
      BY <1>1, SeqWraps DEF CallBegin, NextSeq, Seqs
    <2> QED
      BY <1>1, <2>1 DEF CallBegin
  <1>2. CASE CallPanics(c)
    BY <1>2 DEF CallPanics, Returned
  <1>3. CASE CallEnqueue(c)
    <2>1. RequestFrame(c) \in Frames
      BY SessionAssumption DEF RequestFrame, Frames, Pdus, Tags, Sends, ClientSends,
         ServerSends, Commands, Requests, Responses
    <2> QED
      BY <1>3, <2>1, EnqueueType DEF CallEnqueue, Returned
  <1>4. CASE CallRefused(c)
    BY <1>4 DEF CallRefused, DropSlots, Returned
  <1>5. CASE CallReturns(c)
    <2>1. OutcomeOf(c) \in Returned
      BY DEF OutcomeOf, Returned
    <2>2. callSt' \in [Calls -> {"idle", "sending", "waiting"} \cup Returned]
      BY <1>5, <2>1 DEF CallReturns, Returned
    <2>3. slot' \in [Calls -> {"none", "open", "full", "gone"}]
      BY <1>5 DEF CallReturns, DropSlots
    <2>4. reply' \in [Calls -> Pdus]
      BY <1>5, NoPduType DEF CallReturns
    <2> QED
      BY <1>5, <2>2, <2>3, <2>4 DEF CallReturns
  <1>6. CASE CallTimesOut(c)
    BY <1>6 DEF CallTimesOut, Returned
  <1> QED
    BY <1>1, <1>2, <1>3, <1>4, <1>5, <1>6 DEF CallStep

\* The writer task preserves the types.
LEMMA TypeWriter ==
    ASSUME TypeOK, UNCHANGED peer, WriterStep
    PROVE  TypeOK'
  <1> USE DEF TypeOK, callVars, readerVars, tickerVars, tableVars
  <1>0. ASSUME WriterEnds,
               UNCHANGED <<alive, seqNo, callVars, tasks, readerVars, tickerVars, inq, outq>>
        PROVE  TypeOK'
    <2>1. /\ chan' \in Seq(Frames) /\ Len(chan') <= ChanCap
          /\ wframe' \in Seq(Frames) /\ Len(wframe') = 0 /\ wpc' = "gone"
      BY <1>0, SessionAssumption DEF WriterEnds
    <2>2. slot' \in [Calls -> {"none", "open", "full", "gone"}]
      BY <1>0 DEF WriterEnds, DropSlots
    <2>3. /\ pending' \in [Seqs -> Tags \cup {"absent"}]
          /\ late' \subseteq {s \in Seqs : pending'[s] # "absent"}
      BY <1>0 DEF WriterEnds, Forget
    <2> QED
      BY <1>0, <2>1, <2>2, <2>3 DEF WriterEnds
  <1>1. CASE WriterTop
    BY <1>0, <1>1 DEF WriterTop
  <1>2. CASE WriterTake
    <2>1. /\ Head(chan) \in Frames /\ chan' \in Seq(Frames) /\ Len(chan') <= ChanCap
      BY <1>2, SessionAssumption DEF WriterTake
    <2> DEFINE f == Head(chan)
    <2>2. f.pdu.seq \in Seqs /\ f.slot \in Tags
      BY <2>1 DEF Frames, Pdus
    <2>3. [pdu |-> f.pdu, reg |-> TRUE, slot |-> "none"] \in Frames
      BY <2>1 DEF Frames, Tags
    <2>4. wframe' \in Seq(Frames) /\ Len(wframe') = 1
      <3>1. wframe' = <<f>> \/ wframe' = <<[pdu |-> f.pdu, reg |-> TRUE, slot |-> "none"]>>
        BY <1>2 DEF WriterTake, Register
      <3>2. \A g \in Frames : <<g>> \in Seq(Frames) /\ Len(<<g>>) = 1
        OBVIOUS
      <3> QED
        BY <2>1, <2>3, <3>1, <3>2
    <2>5. /\ pending' \in [Seqs -> Tags \cup {"absent"}]
          /\ late' \subseteq {s \in Seqs : pending'[s] # "absent"}
          /\ slot' \in [Calls -> {"none", "open", "full", "gone"}]
      <3>1. "absent" \notin Tags
        BY SessionAssumption DEF Tags
      <3> QED
        BY <1>2, <2>2, <3>1 DEF WriterTake, Register, DropSlots
    <2> QED
      BY <1>2, <2>1, <2>4, <2>5 DEF WriterTake
  <1>3. CASE WriterClosed
    BY <1>0, <1>3 DEF WriterClosed
  <1>4. CASE WriterWrites
    <2>1. wframe[1].pdu \in Pdus
      <3>1. wframe[1] \in Frames
        BY <1>4, ElementOfSeq, 1 \in 1 .. Len(wframe) DEF WriterWrites
      <3> QED
        BY <3>1 DEF Frames
    <2> QED
      BY <1>4, <2>1, SessionAssumption DEF WriterWrites, writerVars
  <1>5. CASE WriterFails
    BY <1>5 DEF WriterFails, Forget, DropSlots
  <1>6. CASE WriterCancelled
    BY <1>0, <1>6 DEF WriterCancelled
  <1> QED
    BY <1>1, <1>2, <1>3, <1>4, <1>5, <1>6 DEF WriterStep

\* The enquire_link ticker preserves the types.
LEMMA TypeTicker ==
    ASSUME TypeOK, UNCHANGED peer, TickerStep
    PROVE  TypeOK'
  <1> USE DEF TypeOK, callVars, writerVars, readerVars, tickerVars, tableVars
  <1>0. TickerEnds => /\ tpc' = "gone" /\ tseq' \in Seqs
                      /\ linkQ' \in Seq(Seqs) /\ Len(linkQ') <= LinkCap
                      /\ aborts' \subseteq {"reader", "writer", "ticker"}
    BY SeqWraps, SessionAssumption DEF TickerEnds
  <1>1. CASE TickerTick
    <2>1. seqNo' \in Seqs
      <3>1. seqNo' = seqNo \/ seqNo' = (seqNo + 1) % SeqSpace
        BY <1>1 DEF TickerTick, NextSeq
      <3>2. seqNo + 1 \in Nat
        BY SessionAssumption DEF Seqs
      <3> QED
        BY <3>1, <3>2, SeqWraps
    <2>2. probes' \in 0 .. MaxProbes
      BY <1>1, SessionAssumption DEF TickerTick
    <2>3. CASE TickerEnds
      <3>1. /\ tpc' = "gone" /\ tseq' \in Seqs
            /\ linkQ' \in Seq(Seqs) /\ Len(linkQ') <= LinkCap
            /\ aborts' \subseteq {"reader", "writer", "ticker"}
        BY <1>0, <2>3
      <3> QED
        BY <1>1, <2>1, <2>2, <3>1 DEF TickerTick
    <2>4. CASE tseq' = seqNo /\ tpc' = "send" /\ UNCHANGED <<linkQ, aborts>>
      BY <1>1, <2>1, <2>2, <2>4 DEF TickerTick
    <2> QED
      BY <1>1, <2>3, <2>4 DEF TickerTick
  <1>2. CASE TickerSends
    <2>1. ProbeFrame \in Frames
      BY DEF ProbeFrame, Frames, Pdus, Tags, Commands, Requests
    <2>2. chan' \in Seq(Frames) /\ Len(chan') <= ChanCap
      <3>1. UNCHANGED chan \/ (CanEnqueue /\ chan' = Append(chan, ProbeFrame))
        BY <1>2 DEF TickerSends
      <3> QED
        BY <2>1, <3>1, EnqueueType
    <2>3. CASE tpc' = "await" /\ UNCHANGED <<tseq, linkQ, aborts>>
      BY <1>2, <2>2, <2>3 DEF TickerSends
    <2>4. CASE TickerEnds
      <3>1. /\ tpc' = "gone" /\ tseq' \in Seqs
            /\ linkQ' \in Seq(Seqs) /\ Len(linkQ') <= LinkCap
            /\ aborts' \subseteq {"reader", "writer", "ticker"}
        BY <1>0, <2>4
      <3> QED
        BY <1>2, <2>2, <3>1 DEF TickerSends
    <2> QED
      BY <1>2, <2>3, <2>4 DEF TickerSends
  <1>3. CASE TickerReceives
    <2>1. /\ Tail(linkQ) \in Seq(Seqs) /\ Len(Tail(linkQ)) <= LinkCap
      BY <1>3, HeadTailProperties, SessionAssumption DEF TickerReceives
    <2> QED
      BY <1>0, <1>3, <2>1, SeqWraps DEF TickerReceives
  <1>4. CASE TickerTimesOut
    BY <1>0, <1>4 DEF TickerTimesOut
  <1>5. CASE TickerCancelled
    BY <1>0, <1>5 DEF TickerCancelled
  <1> QED
    BY <1>1, <1>2, <1>3, <1>4, <1>5 DEF TickerStep

\* A listener task that answers preserves the types.
LEMMA TypeTask ==
    ASSUME TypeOK, UNCHANGED peer, NEW i \in 1 .. Len(tasks), TaskAnswers(i)
    PROVE  TypeOK'
  <1>1. tasks[i] \in Pdus /\ tasks' \in Seq(Pdus)
    BY RemoveAtType, ElementOfSeq DEF TypeOK, TaskAnswers
  <1>2. chan' \in Seq(Frames) /\ Len(chan') <= ChanCap
    BY <1>1, ReplyFrameType, EnqueueType DEF TypeOK, TaskAnswers
  <1> QED
    BY <1>1, <1>2
    DEF TypeOK, TaskAnswers, callVars, writerVars, readerVars, tickerVars, tableVars

\* An answer built from a PDU is a PDU.
LEMMA PduType ==
    ASSUME NEW p \in Pdus, NEW cmd \in Commands
    PROVE  Pdu(cmd, p) \in Pdus
  BY DEF Pdu, Pdus

\* What Forget and DropSlots leave of the table and of the oneshots.
LEMMA ForgetType ==
    ASSUME TypeOK, NEW S, Forget(S)
    PROVE  /\ pending' \in [Seqs -> Tags \cup {"absent"}]
           /\ late' \subseteq {s \in Seqs : pending'[s] # "absent"}
  BY DEF TypeOK, Forget

\* Dropping oneshot senders keeps every oneshot in one of its four states.
LEMMA DropSlotsType ==
    ASSUME TypeOK, NEW S, DropSlots(S)
    PROVE  slot' \in [Calls -> {"none", "open", "full", "gone"}]
  BY DEF TypeOK, DropSlots

\* A step of the reader that only moves its control.
LEMMA TypeReaderMoves ==
    ASSUME TypeOK, UNCHANGED peer,
           ReaderBound \/ ReaderReads \/ ReaderMissesTicker \/ ReaderInactive
             \/ ReaderEof \/ ReaderStopped
    PROVE  TypeOK'
  <1> USE DEF TypeOK, callVars, writerVars, tickerVars, tableVars, GoTo
  <1>1. CASE ReaderBound
    BY <1>1, NoPduType DEF ReaderBound, LoopTop
  <1>2. CASE ReaderReads
    BY <1>2, NoPduType DEF ReaderReads
  <1>3. CASE ReaderMissesTicker
    BY <1>3, NoPduType DEF ReaderMissesTicker
  <1>4. CASE ReaderInactive
    BY <1>4, NoPduType DEF ReaderInactive
  <1>5. CASE ReaderEof
    <2>1. inq' \in Seq(Pdus) /\ Len(inq') <= WireCap
      BY <1>5, SessionAssumption DEF ReaderEof
    <2> QED
      BY <1>5, <2>1, NoPduType DEF ReaderEof
  <1>6. CASE ReaderStopped
    BY <1>6, NoPduType DEF ReaderStopped
  <1> QED
    BY <1>1, <1>2, <1>3, <1>4, <1>5, <1>6

\* The PDU the reader takes off the buffer is a PDU, and the rest stay PDUs.
LEMMA Next1Type ==
    ASSUME TypeOK, NEW cmds, Next1(cmds)
    PROVE  /\ Head(inq) \in Pdus /\ Head(inq).cmd \in Commands /\ Head(inq).seq \in Seqs
           /\ inq' \in Seq(Pdus) /\ Len(inq') <= WireCap
  <1>1. Head(inq) \in Pdus /\ Tail(inq) \in Seq(Pdus) /\ Len(Tail(inq)) = Len(inq) - 1
    BY HeadTailProperties DEF TypeOK, Next1
  <1> QED
    BY <1>1, SessionAssumption DEF TypeOK, Next1, Pdus

\* Matching a response against pending_requests preserves the types it touches.
LEMMA SettleType ==
    ASSUME TypeOK, NEW p \in Pdus, NEW done \in {"dispatch", "close"},
           NEW bad \in Commands \cup {"none"}, rpc = "dispatch", Settle(p, done, bad)
    PROVE  /\ pending' \in [Seqs -> Tags \cup {"absent"}]
           /\ late' \subseteq {s \in Seqs : pending'[s] # "absent"}
           /\ slot' \in [Calls -> {"none", "open", "full", "gone"}]
           /\ reply' \in [Calls -> Pdus]
           /\ rpc' \in {"dispatch", "send", "close"} /\ rout' \in Pdus
           /\ rthen' \in {"dispatch", "close"}
  <1> DEFINE s == p.seq
  <1>1. CASE pending[s] = "absent" /\ UNCHANGED <<pending, late, slot, reply, readerVars>>
    BY <1>1 DEF TypeOK, readerVars
  <1>2. CASE /\ Forget({s}) /\ DropSlots({pending[s]}) /\ UNCHANGED <<reply, readerVars>>
    BY <1>2, ForgetType, DropSlotsType DEF TypeOK, readerVars
  <1>3. CASE Forget({s}) /\ Deliver(pending[s], p) /\ GoTo(done)
    <2>1. /\ slot' \in [Calls -> {"none", "open", "full", "gone"}]
          /\ reply' \in [Calls -> Pdus]
      <3>1. CASE pending[s] \in Calls
        <4>1. /\ slot' = [slot EXCEPT ![pending[s]] =
                            IF callSt[pending[s]] = "waiting" THEN "full" ELSE "gone"]
              /\ reply' = [reply EXCEPT ![pending[s]] =
                            IF callSt[pending[s]] = "waiting" THEN p ELSE @]
          BY <1>3, <3>1 DEF Deliver
        <4> QED
          BY <3>1, <4>1 DEF TypeOK
      <3>2. CASE pending[s] \notin Calls
        BY <1>3, <3>2 DEF Deliver, TypeOK
      <3> QED
        BY <3>1, <3>2
    <2> QED
      BY <1>3, <2>1, ForgetType, NoPduType DEF GoTo
  <1>4. CASE /\ Forget({s}) /\ DropSlots({pending[s]})
             /\ IF bad = "none" THEN UNCHANGED readerVars
                                ELSE SendThen(Pdu(bad, p), "dispatch")
             /\ UNCHANGED reply
    <2>1. /\ rpc' \in {"dispatch", "send", "close"} /\ rout' \in Pdus
          /\ rthen' \in {"dispatch", "close"}
      BY <1>4, PduType DEF SendThen, TypeOK, readerVars
    <2> QED
      BY <1>4, <2>1, ForgetType, DropSlotsType DEF TypeOK
  <1> QED
    BY <1>1, <1>2, <1>3, <1>4 DEF Settle

\* The read loop and its teardown preserve the types.
LEMMA TypeReader ==
    ASSUME TypeOK, UNCHANGED peer, ReaderStep
    PROVE  TypeOK'
  <1> USE DEF TypeOK, callVars, writerVars, tickerVars, tableVars
  <1>0. \A role \in Roles, cmd \in Commands : RejectOf(role, cmd) \in Commands
    BY AnswersAreCommands
  <1>1. CASE ReaderBound \/ ReaderReads \/ ReaderMissesTicker \/ ReaderInactive
               \/ ReaderEof \/ ReaderStopped
    BY <1>1, TypeReaderMoves
  <1>2. CASE ReaderRequest
    <2> DEFINE p == Head(inq)
    <2>1. p \in Pdus /\ p.cmd \in Commands /\ inq' \in Seq(Pdus) /\ Len(inq') <= WireCap
      BY <1>2, Next1Type DEF ReaderRequest
    <2>2. CASE tasks' = Append(tasks, Pdu(RespOf[p.cmd], p)) /\ UNCHANGED readerVars
      <3>1. RespOf[p.cmd] \in Commands
        BY <1>2, AnswersAreCommands, SessionAssumption DEF ReaderRequest, Next1
      <3>2. tasks' \in Seq(Pdus)
        BY <2>1, <2>2, <3>1, PduType
      <3> QED
        BY <1>2, <2>1, <2>2, <3>2 DEF ReaderRequest, readerVars
    <2>3. CASE SendThen(Pdu(RejectOf(Role, p.cmd), p), "dispatch") /\ UNCHANGED tasks
      <3>1. Pdu(RejectOf(Role, p.cmd), p) \in Pdus
        BY <1>0, <2>1, PduType, SessionAssumption
      <3> QED
        BY <1>2, <2>1, <2>3, <3>1 DEF ReaderRequest, SendThen
    <2> QED
      BY <1>2, <2>2, <2>3 DEF ReaderRequest
  <1>3. CASE ReaderReply \/ ReaderUnbindResp \/ ReaderNack
    <2> DEFINE p == Head(inq)
    <2>1. /\ p \in Pdus /\ p.cmd \in Commands /\ rpc = "dispatch"
          /\ inq' \in Seq(Pdus) /\ Len(inq') <= WireCap
      BY <1>3, Next1Type DEF ReaderReply, ReaderUnbindResp, ReaderNack, Next1
    <2>2. \E done \in {"dispatch", "close"}, bad \in Commands \cup {"none"} :
             Settle(p, done, bad)
      <3>1. RejectOf(Role, p.cmd) \in Commands
        BY <1>0, <2>1, SessionAssumption
      <3>2. "generic_nack" \in Commands
        BY DEF Commands
      <3> QED
        BY <1>3, <3>1, <3>2 DEF ReaderReply, ReaderUnbindResp, ReaderNack
    <2>3. /\ pending' \in [Seqs -> Tags \cup {"absent"}]
          /\ late' \subseteq {s \in Seqs : pending'[s] # "absent"}
          /\ slot' \in [Calls -> {"none", "open", "full", "gone"}]
          /\ reply' \in [Calls -> Pdus]
          /\ rpc' \in {"dispatch", "send", "close"} /\ rout' \in Pdus
          /\ rthen' \in {"dispatch", "close"}
      BY <2>1, <2>2, SettleType
    <2>4. UNCHANGED <<alive, seqNo, callSt, callSeq, chan, writerVars, tasks,
                      tickerVars, aborts, outq>>
      BY <1>3 DEF ReaderReply, ReaderUnbindResp, ReaderNack
    <2> QED
      BY <2>1, <2>3, <2>4
  <1>4. CASE ReaderAlert \/ ReaderEnquireLink \/ ReaderUnbind \/ ReaderUnsupported
    <2> DEFINE p == Head(inq)
    <2>1. /\ p \in Pdus /\ p.cmd \in Commands
          /\ inq' \in Seq(Pdus) /\ Len(inq') <= WireCap
      BY <1>4, Next1Type DEF ReaderAlert, ReaderEnquireLink, ReaderUnbind, ReaderUnsupported
    <2>2. /\ rpc' = "send" /\ rout' \in Pdus /\ rthen' \in {"dispatch", "close"}
          \/ UNCHANGED readerVars
      <3>1. \A cmd \in {"generic_nack", "unbind_resp"} : cmd \in Commands
        BY DEF Commands, Responses
      <3>2. RejectOf(Role, p.cmd) \in Commands
        BY <1>0, <2>1, SessionAssumption
      <3>3. CASE ReaderAlert
        BY <2>1, <3>1, <3>3, PduType DEF ReaderAlert, SendThen
      <3>4. CASE ReaderEnquireLink
        <4>1. RespOf["enquire_link"] \in Commands
          BY DEF RespOf, Commands, Responses
        <4>2. p.cmd = "enquire_link"
          BY <3>4 DEF ReaderEnquireLink, Next1
        <4> QED
          BY <2>1, <3>2, <3>4, <4>1, <4>2, PduType DEF ReaderEnquireLink, SendThen
      <3>5. CASE ReaderUnbind
        BY <2>1, <3>1, <3>5, PduType DEF ReaderUnbind, SendThen
      <3>6. CASE ReaderUnsupported
        BY <2>1, <3>1, <3>6, PduType DEF ReaderUnsupported, SendThen
      <3> QED
        BY <1>4, <3>3, <3>4, <3>5, <3>6
    <2>3. /\ UNCHANGED <<alive, seqNo, callVars, slot, chan, writerVars, tableVars, tasks,
                         tickerVars, outq>>
          /\ aborts' \subseteq {"reader", "writer", "ticker"}
      BY <1>4 DEF ReaderAlert, ReaderEnquireLink, ReaderUnbind, ReaderUnsupported
    <2> QED
      BY <2>1, <2>2, <2>3 DEF readerVars
  <1>5. CASE ReaderSends
    <2>1. chan' \in Seq(Frames) /\ Len(chan') <= ChanCap
      BY <1>5, ReplyFrameType, EnqueueType DEF ReaderSends
    <2> QED
      BY <1>5, <2>1, NoPduType DEF ReaderSends, GoTo
  <1>6. CASE ReaderLinkResp
    <2>1. Head(inq) \in Pdus /\ inq' \in Seq(Pdus) /\ Len(inq') <= WireCap
      BY <1>6, Next1Type DEF ReaderLinkResp
    <2> QED
      BY <1>6, <2>1 DEF ReaderLinkResp
  <1>7. CASE ReaderForwards
    <2>1. rout.seq \in Seqs
      BY DEF Pdus
    <2>2. linkQ' \in Seq(Seqs) /\ Len(linkQ') <= LinkCap
      <3>1. CASE UNCHANGED linkQ
        BY <3>1
      <3>2. CASE Len(linkQ) < LinkCap /\ linkQ' = Append(linkQ, rout.seq)
        BY <2>1, <3>2, SessionAssumption
      <3> QED
        BY <1>7, <3>1, <3>2 DEF ReaderForwards
    <2> QED
      BY <1>7, <2>2 DEF ReaderForwards
  <1>8. CASE ReaderUnlinks
    BY <1>8, ForgetType, DropSlotsType, NoPduType DEF ReaderUnlinks, GoTo
  <1>9. CASE ReaderSweep
    BY <1>9, ForgetType, DropSlotsType, NoPduType DEF ReaderSweep, GoTo, LoopTop
  <1>10. ASSUME ReaderEnds
         PROVE  /\ pending' \in [Seqs -> Tags \cup {"absent"}]
                /\ late' \subseteq {s \in Seqs : pending'[s] # "absent"}
                /\ slot' \in [Calls -> {"none", "open", "full", "gone"}]
                /\ rpc' = "gone" /\ rout' \in Pdus /\ rthen' = "dispatch"
    BY <1>10, ForgetType, DropSlotsType, NoPduType DEF ReaderEnds, GoTo
  <1>11. CASE ReaderCloses
    <2>1. alive' \in BOOLEAN /\ aborts' \subseteq {"reader", "writer", "ticker"}
      BY <1>11 DEF ReaderCloses
    <2> QED
      BY <1>10, <1>11, <2>1 DEF ReaderCloses
  <1>12. CASE ReaderCancelled
    BY <1>10, <1>12 DEF ReaderCancelled
  <1>13. CASE ReaderPanics
    BY <1>10, <1>13 DEF ReaderPanics
  <1> QED
    BY <1>1, <1>2, <1>3, <1>4, <1>5, <1>6, <1>7, <1>8, <1>9, <1>11, <1>12, <1>13
    DEF ReaderStep

\* stop(), the passing of response_timer and the peer preserve the types.
LEMMA TypeOther ==
    ASSUME TypeOK,
           \/ (Stop \/ \E s \in Seqs : Ages(s)) /\ UNCHANGED peer
           \/ Environment
    PROVE  TypeOK'
  <1> USE DEF TypeOK, callVars, writerVars, readerVars, tickerVars, tableVars
  <1>1. CASE Stop /\ UNCHANGED peer
    BY <1>1 DEF Stop
  <1>2. CASE (\E s \in Seqs : Ages(s)) /\ UNCHANGED peer
    BY <1>2 DEF Ages
  <1>3. CASE \E p \in PeerPdus : PeerSends(p)
    <2>1. inq' \in Seq(Pdus) /\ Len(inq') <= WireCap
      <3>1. PICK p \in Pdus : Len(inq) < WireCap /\ inq' = Append(inq, p)
        BY <1>3, SessionAssumption DEF PeerSends
      <3> QED
        BY <3>1, SessionAssumption
    <2> QED
      BY <1>3, <2>1 DEF PeerSends, localVars
  <1>4. CASE PeerReceives
    <2>1. outq' \in Seq(Pdus) /\ Len(outq') <= WireCap
      <3>1. PICK n \in 1 .. Len(outq) : outq' = SubSeq(outq, n + 1, Len(outq))
        BY <1>4 DEF PeerReceives
      <3>2. outq' \in Seq(Pdus) /\ Len(outq') <= Len(outq)
        BY <3>1, DropType
      <3> QED
        BY <3>2, SessionAssumption
    <2> QED
      BY <1>4, <2>1 DEF PeerReceives, localVars
  <1>5. CASE PeerCloses
    BY <1>5 DEF PeerCloses, localVars
  <1> QED
    BY <1>1, <1>2, <1>3, <1>4, <1>5 DEF Environment

\* Every step preserves the types.
LEMMA TypeNext == TypeOK /\ [Next]_vars => TypeOK'
  <1> SUFFICES ASSUME TypeOK, [Next]_vars PROVE TypeOK'
    OBVIOUS
  <1>1. CASE UNCHANGED vars
    BY <1>1 DEF vars, localVars, callVars, writerVars, readerVars, tickerVars,
                tableVars, TypeOK
  <1>2. CASE Next
    BY <1>2, TypeCall, TypeWriter, TypeTicker, TypeReader, TypeTask, TypeOther
    DEF Next, Local
  <1> QED
    BY <1>1, <1>2

\* Type correctness of the session for every instance: in particular no channel
\* and no wire ever holds more than its capacity, and an expired entry is an entry.
THEOREM TypeCorrect == Spec => []TypeOK
  BY TypeInit, TypeNext, PTL DEF Spec

-----------------------------------------------------------------------------
(***************************************************************************)
(* The inductive invariant.  OneOwnerPerCall says where an open oneshot is;*)
(* to be preserved it needs to know how the oneshot of a call depends on   *)
(* how far the call is, that a queued request carries the sequence number  *)
(* of its own call, that what has left the channel is registered, that     *)
(* answers are never requests, and what the ends of the tasks leave behind.*)
(***************************************************************************)
Launched(c) == callSt[c] \notin {"idle", "sending", "panicked"}

CallInv ==
    \A c \in Calls :
      /\ callSt[c] \in {"idle", "panicked"} => slot[c] = "none"
      /\ InHand(c) => slot[c] = "open"
      /\ slot[c] = "full" => /\ reply[c].seq = callSeq[c]
                             /\ reply[c].cmd \in Responses \cup {"generic_nack"}

OwnerOf(c) ==
    /\ \A s \in Seqs : pending[s] = c => s = callSeq[c] /\ slot[c] = "open" /\ Launched(c)
    /\ \A i \in 1 .. Len(chan) :
         chan[i].slot = c => slot[c] = "open" /\ Launched(c) /\ pending[callSeq[c]] # c
    /\ \A i, j \in 1 .. Len(chan) : chan[i].slot = c /\ chan[j].slot = c => i = j
    /\ slot[c] = "open" => \/ InHand(c)
                           \/ \E i \in 1 .. Len(chan) : chan[i].slot = c
                           \/ pending[callSeq[c]] = c

OwnerInv == \A c \in Calls : OwnerOf(c)

QueuedInv ==
    \A i \in 1 .. Len(chan) :
      /\ chan[i].slot \in Calls => chan[i].reg /\ chan[i].pdu.seq = callSeq[chan[i].slot]
      /\ chan[i].pdu.cmd \in Requests /\ chan[i].pdu.tag \in Calls
           => chan[i].slot = chan[i].pdu.tag

\* A request that has left the channel: its call is registered while it waits.
Registered(p) ==
    p.cmd \in Requests /\ p.tag \in Calls =>
      /\ Launched(p.tag)
      /\ slot[p.tag] = "open" => pending[callSeq[p.tag]] = p.tag

WrittenInv ==
    /\ \A i \in 1 .. Len(wframe) : wframe[i].slot = "none" /\ Registered(wframe[i].pdu)
    /\ \A i \in 1 .. Len(outq) : Registered(outq[i])

AnswerInv ==
    /\ \A i \in 1 .. Len(tasks) : tasks[i].cmd \notin Requests
    /\ rpc = "send" => rout.cmd \notin Requests

EndInv ==
    /\ wpc = "gone" => chan = <<>>
    /\ rpc = "gone" /\ wpc = "gone" => \A s \in Seqs : pending[s] = "absent"

SlotInv == CallInv /\ OwnerInv /\ QueuedInv /\ WrittenInv

Inv == TypeOK /\ SlotInv /\ AnswerInv /\ EndInv

\* What the invariant is for.
LEMMA InvImplies ==
    Inv => /\ OneOwnerPerCall /\ RegisteredOnceWritten
           /\ AnswerMatchesCall /\ NoOrphanAfterTeardown
  <1> SUFFICES ASSUME Inv
               PROVE  /\ OneOwnerPerCall /\ RegisteredOnceWritten
                      /\ AnswerMatchesCall /\ NoOrphanAfterTeardown
    OBVIOUS
  <1> USE DEF Inv, SlotInv
  <1>1. RegisteredOnceWritten
    BY DEF WrittenInv, Registered, RegisteredOnceWritten
  <1>2. AnswerMatchesCall
    BY DEF CallInv, AnswerMatchesCall, OutcomeOf
  <1>3. NoOrphanAfterTeardown
    <2> SUFFICES ASSUME rpc = "gone", wpc = "gone", NEW c \in Calls,
                        callSt[c] = "waiting", slot[c] = "open"
                 PROVE  FALSE
      BY DEF NoOrphanAfterTeardown
    <2>1. callSeq[c] \in Seqs
      BY DEF TypeOK
    <2>2. pending[callSeq[c]] # c
      BY <2>1, SessionAssumption DEF EndInv
    <2>3. ~ \E i \in 1 .. Len(chan) : chan[i].slot = c
      BY DEF EndInv
    <2> QED
      BY <2>2, <2>3 DEF OwnerInv, OwnerOf, InHand
  <1>4. OneOwnerPerCall
    <2> SUFFICES ASSUME NEW c \in Calls
        PROVE /\ RegisteredAt(c) \subseteq {callSeq[c]}
              /\ \A i, j \in QueuedAt(c) : i = j
              /\ slot[c] = "open" =>
                   \/ InHand(c) /\ QueuedAt(c) = {} /\ RegisteredAt(c) = {}
                   \/ ~InHand(c) /\ QueuedAt(c) # {} /\ RegisteredAt(c) = {}
                   \/ ~InHand(c) /\ QueuedAt(c) = {} /\ RegisteredAt(c) # {}
              /\ slot[c] # "open" =>
                   ~InHand(c) /\ QueuedAt(c) = {} /\ RegisteredAt(c) = {}
      BY DEF OneOwnerPerCall
    <2>1. callSeq[c] \in Seqs
      BY DEF TypeOK
    <2>2. RegisteredAt(c) = IF pending[callSeq[c]] = c THEN {callSeq[c]} ELSE {}
      BY <2>1 DEF RegisteredAt, OwnerInv, OwnerOf
    <2>3. InHand(c) => ~Launched(c)
      BY DEF InHand, Launched
    <2>4. InHand(c) => slot[c] = "open"
      BY DEF CallInv
    <2>5. QueuedAt(c) # {} => slot[c] = "open" /\ Launched(c) /\ pending[callSeq[c]] # c
      BY DEF QueuedAt, OwnerInv, OwnerOf
    <2>6. \A i, j \in QueuedAt(c) : i = j
      BY DEF QueuedAt, OwnerInv, OwnerOf
    <2>7. pending[callSeq[c]] = c => slot[c] = "open" /\ Launched(c)
      BY <2>1 DEF OwnerInv, OwnerOf
    <2>8. slot[c] = "open" => InHand(c) \/ QueuedAt(c) # {} \/ pending[callSeq[c]] = c
      BY DEF QueuedAt, OwnerInv, OwnerOf
    <2> QED
      BY <2>2, <2>3, <2>4, <2>5, <2>6, <2>7, <2>8
  <1> QED
    BY <1>1, <1>2, <1>3, <1>4

\* The invariant holds when the session starts: no call, no frame, no entry.
LEMMA InvInit == Init => Inv
  <1> SUFFICES ASSUME Init PROVE Inv
    OBVIOUS
  <1>1. TypeOK
    BY TypeInit
  <1>2. SlotInv
    BY SessionAssumption
    DEF Init, LocalInit, SlotInv, CallInv, OwnerInv, OwnerOf, QueuedInv, WrittenInv, InHand
  <1>3. AnswerInv /\ EndInv
    BY DEF Init, LocalInit, AnswerInv, EndInv
  <1> QED
    BY <1>1, <1>2, <1>3 DEF Inv

-----------------------------------------------------------------------------
(* Three kinds of step that leave the calls alone *)

\* A step that touches neither calls, nor oneshots, nor the way of a request.
LEMMA SlotStutter ==
    ASSUME SlotInv,
           UNCHANGED <<callSt, callSeq, slot, reply, chan, wframe, pending, outq>>
    PROVE  SlotInv'
  BY DEF SlotInv, CallInv, OwnerInv, OwnerOf, QueuedInv, WrittenInv, Registered, Launched, InHand

\* A frame of no call is queued.
LEMMA SlotEnqueue ==
    ASSUME TypeOK, SlotInv, NEW f \in Frames, f.slot = "none",
           f.pdu.cmd \in Requests => f.pdu.tag = "none",
           chan' = Append(chan, f),
           UNCHANGED <<callSt, callSeq, slot, reply, wframe, pending, outq>>
    PROVE  SlotInv'
  <1>1. "none" \notin Calls
    BY SessionAssumption
  <1>2. /\ Len(chan') = Len(chan) + 1 /\ chan'[Len(chan) + 1] = f
        /\ \A i \in 1 .. Len(chan) : chan'[i] = chan[i]
    BY DEF TypeOK
  <1>3. Len(chan) \in Nat
    BY DEF TypeOK
  <1>4. CallInv' /\ WrittenInv'
    BY DEF SlotInv, CallInv, WrittenInv, Registered, Launched, InHand
  <1>5. QueuedInv'
    BY <1>1, <1>2, <1>3 DEF SlotInv, QueuedInv
  <1>6. OwnerInv'
    BY <1>1, <1>2, <1>3 DEF SlotInv, OwnerInv, OwnerOf, Launched, InHand
  <1> QED
    BY <1>4, <1>5, <1>6 DEF SlotInv

\* Entries are removed and the oneshots they held are dropped.
LEMMA SlotForget ==
    ASSUME TypeOK, SlotInv, NEW S \in SUBSET Seqs,
           Forget(S), DropSlots({pending[s] : s \in S}),
           wframe' = wframe \/ wframe' = <<>>,
           UNCHANGED <<callSt, callSeq, reply, chan, outq>>
    PROVE  SlotInv'
  <1>1. \A c \in Calls : slot'[c] = IF \E s \in S : pending[s] = c THEN "gone" ELSE slot[c]
    BY DEF DropSlots
  <1>2. \A s \in Seqs : pending'[s] = IF s \in S THEN "absent" ELSE pending[s]
    BY DEF Forget
  <1>3. "absent" \notin Calls
    BY SessionAssumption
  <1>4. \A c \in Calls : callSeq[c] \in Seqs
    BY DEF TypeOK
  <1>5. CallInv'
    <2>1. \A c \in Calls, s \in S : pending[s] = c => Launched(c)
      BY DEF SlotInv, OwnerInv, OwnerOf
    <2> QED
      BY <1>1, <2>1 DEF SlotInv, CallInv, InHand, Launched
  <1>6. OwnerInv'
    BY <1>1, <1>2, <1>3, <1>4 DEF SlotInv, OwnerInv, OwnerOf, Launched, InHand
  <1>7. QueuedInv'
    BY DEF SlotInv, QueuedInv
  <1>8. WrittenInv'
    <2>1. \A p : Registered(p) => Registered(p)'
      BY <1>1, <1>2, <1>4 DEF Registered, Launched
    <2> QED
      BY <2>1 DEF SlotInv, WrittenInv
  <1> QED
    BY <1>5, <1>6, <1>7, <1>8 DEF SlotInv

-----------------------------------------------------------------------------
(* The steps that move a oneshot *)

\* A send_* call keeps its oneshot in one place: in hand, then in its frame.
LEMMA SlotCall ==
    ASSUME TypeOK, SlotInv, NEW c \in Calls, CallStep(c)
    PROVE  SlotInv'
  <1> USE DEF SlotInv, callVars, writerVars, tableVars
  <1>0. callSeq[c] \in Seqs /\ seqNo \in Seqs /\ Len(chan) \in Nat
    BY DEF TypeOK
  <1>1. CASE CallBegin(c)
    <2>1. /\ callSt[c] = "idle" /\ slot[c] = "none"
          /\ callSt' = [callSt EXCEPT ![c] = "sending"]
          /\ callSeq' = [callSeq EXCEPT ![c] = seqNo]
          /\ slot' = [slot EXCEPT ![c] = IF CmdOf[c] = "alert_notification"
                                           THEN "none" ELSE "open"]
          /\ UNCHANGED <<reply, chan, wframe, pending, outq>>
      BY <1>1 DEF CallBegin, MayBegin, CallInv
    <2>2. \A i \in 1 .. Len(chan) : chan[i].slot # c
      BY <2>1 DEF OwnerInv, OwnerOf
    <2>3. \A s \in Seqs : pending[s] # c
      BY <2>1 DEF OwnerInv, OwnerOf
    <2>4. CallInv'
      BY <2>1 DEF CallInv, InHand, TypeOK
    <2>5. OwnerInv'
      BY <1>0, <2>1, <2>2, <2>3 DEF OwnerInv, OwnerOf, InHand, Launched, TypeOK
    <2>6. QueuedInv'
      BY <2>1, <2>2 DEF QueuedInv, TypeOK
    <2>7. \A p : Registered(p) => Registered(p)'
      BY <2>1 DEF Registered, Launched, TypeOK
    <2> QED
      BY <2>1, <2>4, <2>5, <2>6, <2>7 DEF WrittenInv
  <1>2. CASE CallPanics(c)
    <2>1. /\ callSt[c] = "idle" /\ slot[c] = "none"
          /\ callSt' = [callSt EXCEPT ![c] = "panicked"]
          /\ UNCHANGED <<callSeq, slot, reply, chan, wframe, pending, outq>>
      BY <1>2 DEF CallPanics, MayBegin, CallInv
    <2>2. CallInv'
      BY <2>1 DEF CallInv, InHand, TypeOK
    <2>3. OwnerInv' /\ QueuedInv'
      BY <2>1 DEF OwnerInv, OwnerOf, QueuedInv, InHand, Launched, TypeOK
    <2>4. \A p : Registered(p) => Registered(p)'
      BY <2>1 DEF Registered, Launched, TypeOK
    <2> QED
      BY <2>1, <2>2, <2>3, <2>4 DEF WrittenInv
  <1>3. CASE CallEnqueue(c)
    <2> DEFINE f == RequestFrame(c)
    <2>1. /\ callSt[c] = "sending"
          /\ chan' = Append(chan, f)
          /\ callSt' = [callSt EXCEPT ![c] = IF CmdOf[c] = "alert_notification"
                                               THEN "sent" ELSE "waiting"]
          /\ UNCHANGED <<callSeq, slot, reply, wframe, pending, outq>>
      BY <1>3 DEF CallEnqueue
    <2>2. /\ Len(chan') = Len(chan) + 1 /\ chan'[Len(chan) + 1] = f
          /\ \A i \in 1 .. Len(chan) : chan'[i] = chan[i]
      BY <2>1 DEF TypeOK
    <2>3. /\ f.slot = IF CmdOf[c] = "alert_notification" THEN "none" ELSE c
          /\ f.reg /\ f.pdu.seq = callSeq[c] /\ f.pdu.tag = c /\ f.pdu.cmd = CmdOf[c]
      BY DEF RequestFrame
    <2>4. "alert_notification" \notin Requests /\ "none" \notin Calls
      BY SessionAssumption DEF Requests
    <2>5. /\ \A i \in 1 .. Len(chan) : chan[i].slot # c
          /\ \A s \in Seqs : pending[s] # c
      BY <2>1 DEF OwnerInv, OwnerOf, Launched
    <2>6. CallInv'
      BY <2>1 DEF CallInv, InHand, TypeOK
    <2>7. OwnerInv'
      <3>1. CASE CmdOf[c] = "alert_notification"
        <4>1. slot[c] # "open"
          BY <1>0, <2>1, <2>5, <3>1 DEF OwnerInv, OwnerOf, InHand
        <4>2. \A d \in Calls : d # c => InHand(d)' = InHand(d) /\ Launched(d)' = Launched(d)
          BY <2>1 DEF InHand, Launched, TypeOK
        <4>3. \A i \in 1 .. Len(chan') : chan'[i].slot \in Calls => i \in 1 .. Len(chan)
          BY <1>0, <2>2, <2>3, <2>4, <3>1
        <4> QED
          BY <1>0, <2>1, <2>2, <2>5, <4>1, <4>2, <4>3 DEF OwnerInv, OwnerOf
      <3>2. CASE CmdOf[c] # "alert_notification"
        BY <1>0, <2>1, <2>2, <2>3, <2>4, <2>5, <3>2 DEF OwnerInv, OwnerOf, CallInv, InHand, Launched, TypeOK
      <3> QED
        BY <3>1, <3>2
    <2>8. QueuedInv'
      BY <1>0, <2>1, <2>2, <2>3, <2>4 DEF QueuedInv
    <2>9. \A p : Registered(p) => Registered(p)'
      BY <2>1 DEF Registered, Launched, TypeOK
    <2> QED
      BY <2>1, <2>6, <2>7, <2>8, <2>9 DEF WrittenInv
  <1>4. CASE CallRefused(c)
    <2>1. /\ callSt[c] = "sending"
          /\ callSt' = [callSt EXCEPT ![c] = "refused"]
          /\ slot' = [slot EXCEPT ![c] = "gone"]
          /\ UNCHANGED <<callSeq, reply, chan, wframe, pending, outq>>
      BY <1>4 DEF CallRefused, DropSlots, TypeOK
    <2>2. CallInv'
      BY <2>1 DEF CallInv, InHand, TypeOK
    <2>3. OwnerInv'
      BY <1>0, <2>1 DEF OwnerInv, OwnerOf, InHand, Launched, TypeOK
    <2>4. QueuedInv'
      BY <2>1 DEF QueuedInv
    <2>5. \A p : Registered(p) => Registered(p)'
      BY <2>1 DEF Registered, Launched, TypeOK
    <2> QED
      BY <2>1, <2>2, <2>3, <2>4, <2>5 DEF WrittenInv
  <1>5. CASE CallReturns(c)
    <2>1. PICK st \in Returned : callSt' = [callSt EXCEPT ![c] = st] /\ st # "panicked"
      BY <1>5 DEF CallReturns, OutcomeOf, Returned
    <2>2. st \notin {"idle", "sending", "panicked"}
      BY <2>1 DEF Returned
    <2>3. /\ callSt[c] = "waiting" /\ slot[c] # "open"
          /\ slot' = [slot EXCEPT ![c] = "gone"]
          /\ \A d \in Calls : d # c => reply'[d] = reply[d]
          /\ UNCHANGED <<callSeq, chan, wframe, pending, outq>>
      BY <1>5 DEF CallReturns, DropSlots, TypeOK
    <2>4. CallInv'
      BY <2>1, <2>2, <2>3 DEF CallInv, InHand, TypeOK
    <2>5. OwnerInv'
      BY <1>0, <2>1, <2>2, <2>3 DEF OwnerInv, OwnerOf, InHand, Launched, TypeOK
    <2>6. QueuedInv'
      BY <2>3 DEF QueuedInv
    <2>7. \A p : Registered(p) => Registered(p)'
      BY <2>1, <2>2, <2>3 DEF Registered, Launched, TypeOK
    <2> QED
      BY <2>3, <2>4, <2>5, <2>6, <2>7 DEF WrittenInv
  <1>6. CASE CallTimesOut(c)
    <2>1. /\ callSt[c] = "waiting"
          /\ callSt' = [callSt EXCEPT ![c] = "timeout"]
          /\ UNCHANGED <<callSeq, slot, reply, chan, wframe, pending, outq>>
      BY <1>6 DEF CallTimesOut
    <2>2. CallInv'
      BY <2>1 DEF CallInv, InHand, TypeOK
    <2>3. OwnerInv' /\ QueuedInv'
      BY <2>1 DEF OwnerInv, OwnerOf, QueuedInv, InHand, Launched, TypeOK
    <2>4. \A p : Registered(p) => Registered(p)'
      BY <2>1 DEF Registered, Launched, TypeOK
    <2> QED
      BY <2>1, <2>2, <2>3, <2>4 DEF WrittenInv
  <1> QED
    BY <1>1, <1>2, <1>3, <1>4, <1>5, <1>6 DEF CallStep

\* The end of the writer drops the oneshots of every frame it still held.
LEMMA SlotWriterEnds ==
    ASSUME TypeOK, SlotInv, WriterEnds, UNCHANGED <<callSt, callSeq, reply, outq>>
    PROVE  SlotInv'
  <1> USE DEF SlotInv
  <1> DEFINE queued(c) == \E i \in 1 .. Len(chan) : chan[i].slot = c
             freed(c)  == rpc = "gone" /\ \E s \in Seqs : pending[s] = c
  <1>0. /\ \A c \in Calls : callSeq[c] \in Seqs
        /\ "absent" \notin Calls /\ "none" \notin Calls
    BY SessionAssumption DEF TypeOK
  <1>1. chan' = <<>> /\ wframe' = <<>>
    BY DEF WriterEnds
  <1>2. \A c \in Calls : slot'[c] = IF queued(c) \/ freed(c) THEN "gone" ELSE slot[c]
    <2>1. Held(wframe) \cap Calls = {}
      BY <1>0 DEF Held, WrittenInv
    <2> QED
      BY <2>1 DEF WriterEnds, DropSlots, Held, FreedBy
  <1>3. \A s \in Seqs : pending'[s] = IF rpc = "gone" THEN "absent" ELSE pending[s]
    BY DEF WriterEnds, Forget
  <1>4. \A c \in Calls : queued(c) \/ freed(c) => Launched(c)
    BY DEF OwnerInv, OwnerOf
  <1>5. CallInv'
    BY <1>2, <1>4 DEF CallInv, InHand, Launched
  <1>6. OwnerInv'
    BY <1>0, <1>1, <1>2, <1>3 DEF OwnerInv, OwnerOf, InHand, Launched
  <1>7. QueuedInv'
    BY <1>1 DEF QueuedInv
  <1>8. WrittenInv'
    <2>1. \A p : Registered(p) => Registered(p)'
      BY <1>0, <1>2, <1>3 DEF Registered, Launched
    <2> QED
      BY <1>1, <2>1 DEF WrittenInv
  <1> QED
    BY <1>5, <1>6, <1>7, <1>8

\* The writer takes a frame: an earlier entry of that number gives way.
LEMMA SlotTake ==
    ASSUME TypeOK, SlotInv, WriterTake
    PROVE  SlotInv'
  <1> USE DEF SlotInv
  <1> DEFINE f == Head(chan)
             n == f.pdu.seq
  <1>1. /\ f \in Frames /\ f = chan[1] /\ 1 \in 1 .. Len(chan) /\ Len(chan) \in Nat
        /\ Len(chan') = Len(chan) - 1
        /\ \A i \in 1 .. Len(chan') : chan'[i] = chan[i + 1] /\ i + 1 \in 1 .. Len(chan)
        /\ \A i \in 2 .. Len(chan) : i - 1 \in 1 .. Len(chan') /\ chan'[i - 1] = chan[i]
    BY DEF WriterTake, TypeOK
  <1>2. n \in Seqs /\ f.slot \in Tags /\ \A c \in Calls : callSeq[c] \in Seqs
    BY <1>1 DEF Frames, Pdus, TypeOK
  <1>3. "absent" \notin Tags /\ "none" \notin Calls
    BY SessionAssumption DEF Tags
  <1>4. UNCHANGED <<callSt, callSeq, reply, outq>>
    BY DEF WriterTake, callVars
  <1>5. CASE ~f.reg
    <2>1. f.slot \notin Calls
      BY <1>1, <1>5 DEF QueuedInv
    <2>2. wframe' = <<f>> /\ UNCHANGED <<pending, slot>>
      BY <1>5 DEF WriterTake, Register
    <2>3. ~(f.pdu.cmd \in Requests /\ f.pdu.tag \in Calls) /\ f.slot = "none"
      BY <1>1, <1>2, <2>1 DEF QueuedInv, Tags
    <2>4. CallInv' /\ QueuedInv'
      BY <1>1, <1>4, <2>2 DEF CallInv, QueuedInv, InHand
    <2>5. OwnerInv'
      <3> SUFFICES ASSUME NEW c \in Calls
                   PROVE  OwnerOf(c)'
        BY DEF OwnerInv
      <3>1. \A i \in 1 .. Len(chan) : chan[i].slot = c => i \in 2 .. Len(chan)
        BY <1>1, <2>1
      <3>2. OwnerOf(c)
        BY DEF OwnerInv
      <3>3. (\E i \in 1 .. Len(chan) : chan[i].slot = c)
              => \E i \in 1 .. Len(chan') : chan'[i].slot = c
        BY <1>1, <3>1
      <3>4. \A i, j \in 1 .. Len(chan') : chan'[i].slot = c /\ chan'[j].slot = c => i = j
        BY <1>1, <3>2 DEF OwnerOf
      <3> QED
        BY <1>1, <1>4, <2>2, <3>2, <3>3, <3>4 DEF OwnerOf, InHand, Launched
    <2>6. WrittenInv'
      BY <1>4, <2>2, <2>3 DEF WrittenInv, Registered, Launched
    <2> QED
      BY <2>4, <2>5, <2>6
  <1>6. CASE f.reg
    <2>1. /\ \A s \in Seqs : pending'[s] = IF s = n THEN f.slot ELSE pending[s]
          /\ \A c \in Calls : slot'[c] = IF c = pending[n] /\ c # f.slot THEN "gone" ELSE slot[c]
          /\ wframe' = <<[pdu |-> f.pdu, reg |-> TRUE, slot |-> "none"]>>
      BY <1>2, <1>6 DEF WriterTake, Register, DropSlots, TypeOK
    <2>2. f.slot \in Calls => /\ n = callSeq[f.slot] /\ slot[f.slot] = "open"
                              /\ Launched(f.slot) /\ \A s \in Seqs : pending[s] # f.slot
      BY <1>1, <1>2 DEF QueuedInv, OwnerInv, OwnerOf
    <2>3. \A i \in 1 .. Len(chan') : f.slot \in Calls => chan'[i].slot # f.slot
      <3> SUFFICES ASSUME NEW i \in 1 .. Len(chan'), f.slot \in Calls, chan'[i].slot = f.slot
                   PROVE  FALSE
        OBVIOUS
      <3>1. \A j, k \in 1 .. Len(chan) : chan[j].slot = f.slot /\ chan[k].slot = f.slot => j = k
        BY DEF OwnerInv, OwnerOf
      <3>2. i \in Nat \ {0} /\ i + 1 \in 1 .. Len(chan) /\ chan[i + 1].slot = f.slot
        BY <1>1
      <3>3. i + 1 = 1
        BY <1>1, <3>1, <3>2
      <3> QED
        BY <3>2, <3>3
    <2>4. \A c \in Calls : c = pending[n] => Launched(c) /\ callSeq[c] = n
      BY <1>2 DEF OwnerInv, OwnerOf
    <2>5. CallInv'
      BY <1>4, <2>1, <2>4 DEF CallInv, InHand, Launched
    <2>6. QueuedInv'
      BY <1>1, <1>4 DEF QueuedInv
    <2>7. OwnerInv'
      <3> SUFFICES ASSUME NEW c \in Calls
                   PROVE  OwnerOf(c)'
        BY DEF OwnerInv
      <3>1. CASE c = f.slot
        BY <1>1, <1>2, <1>3, <1>4, <2>1, <2>2, <2>3, <3>1 DEF OwnerInv, OwnerOf, InHand, Launched
      <3>2. CASE c # f.slot /\ c = pending[n]
        <4>1. \A i \in 1 .. Len(chan') : chan'[i].slot # c
          BY <1>1, <1>2, <2>4, <3>2 DEF OwnerInv, OwnerOf
        <4>2. slot'[c] = "gone"
          BY <2>1, <3>2
        <4>3. \A s \in Seqs : pending'[s] # c
          BY <1>2, <2>1, <2>4, <3>2 DEF OwnerInv, OwnerOf
        <4> QED
          BY <4>1, <4>2, <4>3 DEF OwnerOf
      <3>3. CASE c # f.slot /\ c # pending[n]
        <4>1. slot'[c] = slot[c] /\ \A s \in Seqs : pending'[s] = c <=> pending[s] = c
          BY <2>1, <3>3
        <4>2. \A i \in 1 .. Len(chan) : chan[i].slot = c => i \in 2 .. Len(chan)
          BY <1>1, <3>3
        <4> QED
          BY <1>1, <1>2, <1>4, <4>1, <4>2 DEF OwnerInv, OwnerOf, InHand, Launched
      <3> QED
        BY <3>1, <3>2, <3>3
    <2>8. WrittenInv'
      <3>1. \A p : Registered(p) => Registered(p)'
        <4> SUFFICES ASSUME NEW p, Registered(p), p.cmd \in Requests, p.tag \in Calls
                     PROVE  /\ Launched(p.tag)'
                            /\ slot'[p.tag] = "open" => pending'[callSeq'[p.tag]] = p.tag
          BY DEF Registered
        <4>1. Launched(p.tag)'
          BY <1>4 DEF Registered, Launched
        <4>2. ASSUME slot'[p.tag] = "open" PROVE pending'[callSeq[p.tag]] = p.tag
          BY <1>2, <2>1, <2>2, <4>2 DEF Registered
        <4> QED
          BY <1>4, <4>1, <4>2
      <3>2. ASSUME NEW q, q = f.pdu PROVE Registered(q)'
        <4>1. f.pdu.cmd \in Requests /\ f.pdu.tag \in Calls => f.slot = f.pdu.tag
          BY <1>1 DEF QueuedInv
        <4> QED
          BY <1>2, <1>4, <2>1, <2>2, <3>2, <4>1 DEF Registered, Launched
      <3>3. /\ Len(wframe') = 1 /\ wframe'[1].slot = "none" /\ wframe'[1].pdu = f.pdu
        BY <2>1
      <3>4. \A q : q = f.pdu => Registered(q)'
        BY <3>2
      <3> QED
        BY <1>4, <3>1, <3>3, <3>4 DEF WrittenInv
    <2> QED
      BY <2>5, <2>6, <2>7, <2>8
  <1> QED
    BY <1>5, <1>6

\* A response takes its entry out of the table before it uses the oneshot.
LEMMA SlotSettle ==
    ASSUME TypeOK, SlotInv, NEW p \in Pdus, NEW done, NEW bad, Settle(p, done, bad),
           p.cmd \in Responses \cup {"generic_nack"},
           UNCHANGED <<callSt, callSeq, chan, wframe, outq>>
    PROVE  SlotInv'
  <1> DEFINE s == p.seq
  <1>0. s \in Seqs /\ {s} \in SUBSET Seqs /\ {pending[t] : t \in {s}} = {pending[s]}
    BY DEF Pdus
  <1>1. CASE UNCHANGED <<pending, late, slot, reply>>
    BY <1>1, SlotStutter
  <1>2. CASE Forget({s}) /\ DropSlots({pending[s]}) /\ UNCHANGED reply
    BY <1>0, <1>2, SlotForget
  <1>3. CASE Forget({s}) /\ Deliver(pending[s], p)
    <2> USE DEF SlotInv
    <2>0. /\ \A c \in Calls : callSeq[c] \in Seqs
          /\ "absent" \notin Calls
      BY SessionAssumption DEF TypeOK
    <2>1. \A t \in Seqs : pending'[t] = IF t = s THEN "absent" ELSE pending[t]
      BY <1>3 DEF Forget
    <2>2. \A c \in Calls : IF c = pending[s]
                             THEN slot'[c] = "gone" \/ (slot'[c] = "full" /\ reply'[c] = p)
                             ELSE slot'[c] = slot[c] /\ reply'[c] = reply[c]
      <3>1. CASE pending[s] \in Calls
        <4>1. /\ slot' = [slot EXCEPT ![pending[s]] =
                            IF callSt[pending[s]] = "waiting" THEN "full" ELSE "gone"]
              /\ reply' = [reply EXCEPT ![pending[s]] =
                            IF callSt[pending[s]] = "waiting" THEN p ELSE @]
          BY <1>3, <3>1 DEF Deliver
        <4>2. \A c \in Calls : c # pending[s] => slot'[c] = slot[c] /\ reply'[c] = reply[c]
          BY <3>1, <4>1 DEF TypeOK
        <4>3. \/ slot'[pending[s]] = "gone"
              \/ slot'[pending[s]] = "full" /\ reply'[pending[s]] = p
          BY <3>1, <4>1 DEF TypeOK
        <4> QED
          BY <4>2, <4>3
      <3>2. CASE pending[s] \notin Calls
        BY <1>3, <3>2 DEF Deliver, TypeOK
      <3> QED
        BY <3>1, <3>2
    <2>3. \A c \in Calls : c = pending[s] => s = callSeq[c] /\ Launched(c)
      BY <1>0 DEF OwnerInv, OwnerOf
    <2>4. CallInv'
      BY <2>2, <2>3 DEF CallInv, InHand, Launched
    <2>5. OwnerInv'
      BY <1>0, <2>0, <2>1, <2>2, <2>3 DEF OwnerInv, OwnerOf, InHand, Launched
    <2>6. QueuedInv'
      BY DEF QueuedInv
    <2>7. \A q : Registered(q) => Registered(q)'
      BY <2>0, <2>1, <2>2 DEF Registered, Launched
    <2> QED
      BY <2>4, <2>5, <2>6, <2>7 DEF WrittenInv
  <1> QED
    BY <1>1, <1>2, <1>3 DEF Settle

\* The writer moves each oneshot from its frame into the table.
LEMMA SlotWriter ==
    ASSUME TypeOK, SlotInv, WriterStep
    PROVE  SlotInv'
  <1> USE DEF callVars, tableVars
  <1>1. CASE WriterTop
    BY <1>1, SlotStutter, SlotWriterEnds DEF WriterTop
  <1>2. CASE WriterTake
    BY <1>2, SlotTake
  <1>3. CASE WriterClosed
    BY <1>3, SlotWriterEnds DEF WriterClosed
  <1>4. CASE WriterWrites
    <2>1. /\ wframe' = <<>> /\ 1 \in 1 .. Len(wframe) /\ outq' = Append(outq, wframe[1].pdu)
          /\ UNCHANGED <<callSt, callSeq, slot, reply, chan, pending>>
      BY <1>4 DEF WriterWrites, TypeOK
    <2>2. /\ Len(outq') = Len(outq) + 1 /\ outq'[Len(outq) + 1] = wframe[1].pdu
          /\ Len(outq) \in Nat
          /\ \A i \in 1 .. Len(outq) : outq'[i] = outq[i]
      BY <2>1 DEF TypeOK
    <2>3. CallInv' /\ OwnerInv' /\ QueuedInv'
      BY <2>1 DEF SlotInv, CallInv, OwnerInv, OwnerOf, QueuedInv, InHand, Launched
    <2>4. \A q : Registered(q) => Registered(q)'
      BY <2>1 DEF Registered, Launched
    <2> QED
      BY <2>1, <2>2, <2>3, <2>4 DEF SlotInv, WrittenInv
  <1>5. CASE WriterFails
    <2> DEFINE f == wframe[1]
    <2>1. /\ wframe' = <<>> /\ UNCHANGED <<callSt, callSeq, reply, chan, outq>>
          /\ f \in Frames
      <3>1. 1 \in 1 .. Len(wframe)
        BY <1>5 DEF WriterFails, TypeOK
      <3> QED
        BY <1>5, <3>1, ElementOfSeq DEF WriterFails, TypeOK
    <2>2. CASE f.reg
      <3>1. /\ {f.pdu.seq} \in SUBSET Seqs
            /\ {pending[s] : s \in {f.pdu.seq}} = {pending[f.pdu.seq]}
        BY <2>1 DEF Frames, Pdus
      <3> QED
        BY <1>5, <2>1, <2>2, <3>1, SlotForget DEF WriterFails
    <2>3. CASE ~f.reg
      <3>1. UNCHANGED <<pending, slot>>
        BY <1>5, <2>3 DEF WriterFails
      <3> QED
        BY <2>1, <3>1
        DEF SlotInv, CallInv, OwnerInv, OwnerOf, QueuedInv, WrittenInv, Registered, Launched, InHand
    <2> QED
      BY <2>2, <2>3
  <1>6. CASE WriterCancelled
    BY <1>6, SlotWriterEnds DEF WriterCancelled
  <1> QED
    BY <1>1, <1>2, <1>3, <1>4, <1>5, <1>6 DEF WriterStep

\* The read loop only ever removes oneshots from the table.
LEMMA SlotReader ==
    ASSUME TypeOK, SlotInv, AnswerInv, ReaderStep
    PROVE  SlotInv'
  <1> USE DEF callVars, writerVars, tableVars
  <1>1. CASE \/ ReaderBound \/ ReaderReads \/ ReaderMissesTicker \/ ReaderInactive
             \/ ReaderEof \/ ReaderStopped \/ ReaderRequest \/ ReaderAlert
             \/ ReaderEnquireLink \/ ReaderUnbind \/ ReaderUnsupported
             \/ ReaderLinkResp \/ ReaderForwards
    <2>1. UNCHANGED <<callSt, callSeq, slot, reply, chan, wframe, pending, outq>>
      BY <1>1 DEF ReaderBound, ReaderReads, ReaderMissesTicker, ReaderInactive,
         ReaderEof, ReaderStopped, ReaderRequest, ReaderAlert, ReaderEnquireLink,
         ReaderUnbind, ReaderUnsupported, ReaderLinkResp, ReaderForwards
    <2> QED
      BY <2>1, SlotStutter
  <1>2. CASE ReaderReply \/ ReaderUnbindResp \/ ReaderNack
    <2> DEFINE p == Head(inq)
    <2>1. p \in Pdus
      BY <1>2, Next1Type DEF ReaderReply, ReaderUnbindResp, ReaderNack
    <2>2. p.cmd \in Responses \cup {"generic_nack"}
      <3>1. ReplyCmds(Role, Bind) \subseteq Responses
        BY DEF ReplyCmds, ClientGatedReplies, ClientUngatedReplies, ServerReplies, Responses
      <3>2. "unbind_resp" \in Responses
        BY DEF Responses
      <3> QED
        BY <1>2, <3>1, <3>2 DEF ReaderReply, ReaderUnbindResp, ReaderNack, Next1
    <2>3. \E done, bad : Settle(p, done, bad)
      BY <1>2 DEF ReaderReply, ReaderUnbindResp, ReaderNack
    <2>4. UNCHANGED <<callSt, callSeq, chan, wframe, outq>>
      BY <1>2 DEF ReaderReply, ReaderUnbindResp, ReaderNack
    <2> QED
      BY <2>1, <2>2, <2>3, <2>4, SlotSettle
  <1>3. CASE ReaderSends
    <2>1. UNCHANGED <<callSt, callSeq, slot, reply, wframe, pending, outq>>
      BY <1>3 DEF ReaderSends
    <2>2. CASE UNCHANGED chan
      BY <2>1, <2>2, SlotStutter
    <2>3. CASE chan' = Append(chan, ReplyFrame(rout))
      <3>1. ReplyFrame(rout) \in Frames
        BY ReplyFrameType DEF TypeOK
      <3>2. ReplyFrame(rout).slot = "none" /\ ReplyFrame(rout).pdu.cmd \notin Requests
        BY <1>3 DEF ReplyFrame, AnswerInv, ReaderSends
      <3> QED
        BY <2>1, <2>3, <3>1, <3>2, SlotEnqueue
    <2> QED
      BY <1>3, <2>2, <2>3 DEF ReaderSends
  <1>4. CASE ReaderUnlinks
    <2>1. /\ {rout.seq} \in SUBSET Seqs
          /\ {pending[s] : s \in {rout.seq}} = {pending[rout.seq]}
      BY DEF TypeOK, Pdus
    <2> QED
      BY <1>4, <2>1, SlotForget DEF ReaderUnlinks
  <1>5. CASE ReaderSweep
    <2>1. late \in SUBSET Seqs
      BY DEF TypeOK
    <2> QED
      BY <1>5, <2>1, SlotForget DEF ReaderSweep
  <1>6. CASE ReaderEnds /\ UNCHANGED <<callSt, callSeq, reply, chan, wframe, outq>>
    <2>1. CASE wpc = "gone"
      <3>1. FreedBy(TRUE, wpc = "gone") = {pending[s] : s \in Seqs}
        BY <2>1 DEF FreedBy
      <3>2. Forget(Seqs) /\ DropSlots({pending[s] : s \in Seqs})
        BY <1>6, <2>1, <3>1 DEF ReaderEnds
      <3> QED
        BY <1>6, <3>2, SlotForget
    <2>2. CASE wpc # "gone"
      <3>1. FreedBy(TRUE, wpc = "gone") = {}
        BY <2>2 DEF FreedBy
      <3>2. slot' = slot /\ pending' = pending
        BY <1>6, <2>2, <3>1 DEF ReaderEnds, DropSlots, TypeOK
      <3> QED
        BY <1>6, <3>2, SlotStutter
    <2> QED
      BY <2>1, <2>2
  <1>7. CASE ReaderCloses
    BY <1>6, <1>7 DEF ReaderCloses
  <1>8. CASE ReaderCancelled
    BY <1>6, <1>8 DEF ReaderCancelled
  <1>9. CASE ReaderPanics
    BY <1>6, <1>9 DEF ReaderPanics
  <1> QED
    BY <1>1, <1>2, <1>3, <1>4, <1>5, <1>7, <1>8, <1>9 DEF ReaderStep

-----------------------------------------------------------------------------
(* Assembly *)

\* Every step preserves the ownership part of the invariant.
LEMMA SlotNext ==
    ASSUME TypeOK, SlotInv, AnswerInv, Next
    PROVE  SlotInv'
  <1> USE DEF callVars, writerVars, tableVars
  <1>1. CASE \E c \in Calls : CallStep(c)
    BY <1>1, SlotCall
  <1>2. CASE WriterStep
    BY <1>2, SlotWriter
  <1>3. CASE TickerStep
    <2>1. CASE TickerSends /\ chan' = Append(chan, ProbeFrame)
      <3>1. ProbeFrame \in Frames
        BY DEF ProbeFrame, Frames, Pdus, Tags, Commands, Requests, TypeOK
      <3>2. ProbeFrame.slot = "none" /\ ProbeFrame.pdu.tag = "none"
        BY DEF ProbeFrame
      <3> QED
        BY <2>1, <3>1, <3>2, SlotEnqueue DEF TickerSends
    <2>2. CASE ~(TickerSends /\ chan' = Append(chan, ProbeFrame))
      <3>1. UNCHANGED <<callSt, callSeq, slot, reply, chan, wframe, pending, outq>>
        BY <1>3, <2>2 DEF TickerStep, TickerTick, TickerSends, TickerReceives,
           TickerTimesOut, TickerCancelled
      <3> QED
        BY <3>1, SlotStutter
    <2> QED
      BY <2>1, <2>2
  <1>4. CASE ReaderStep
    BY <1>4, SlotReader
  <1>5. CASE \E i \in 1 .. Len(tasks) : TaskAnswers(i)
    <2>1. PICK i \in 1 .. Len(tasks) : TaskAnswers(i)
      BY <1>5
    <2>2. UNCHANGED <<callSt, callSeq, slot, reply, wframe, pending, outq>>
      BY <2>1 DEF TaskAnswers
    <2>3. CASE UNCHANGED chan
      BY <2>2, <2>3, SlotStutter
    <2>4. CASE chan' = Append(chan, ReplyFrame(tasks[i]))
      <3>1. ReplyFrame(tasks[i]) \in Frames
        BY ReplyFrameType, ElementOfSeq DEF TypeOK
      <3>2. ReplyFrame(tasks[i]).slot = "none" /\ ReplyFrame(tasks[i]).pdu.cmd \notin Requests
        BY DEF ReplyFrame, AnswerInv
      <3> QED
        BY <2>2, <2>4, <3>1, <3>2, SlotEnqueue
    <2> QED
      BY <2>1, <2>3, <2>4 DEF TaskAnswers
  <1>6. CASE Stop \/ (\E s \in Seqs : Ages(s)) \/ PeerCloses \/ \E p \in PeerPdus : PeerSends(p)
    <2>1. UNCHANGED <<callSt, callSeq, slot, reply, chan, wframe, pending, outq>>
      BY <1>6 DEF Stop, Ages, PeerCloses, PeerSends, localVars
    <2> QED
      BY <2>1, SlotStutter
  <1>7. CASE PeerReceives
    <2>1. /\ UNCHANGED <<callSt, callSeq, slot, reply, chan, wframe, pending>>
          /\ \A i \in 1 .. Len(outq') : \E k \in 1 .. Len(outq) : outq'[i] = outq[k]
      <3>1. PICK n \in 1 .. Len(outq) : outq' = SubSeq(outq, n + 1, Len(outq))
        BY <1>7 DEF PeerReceives
      <3>2. outq \in Seq(Pdus)
        BY DEF TypeOK
      <3> QED
        BY <1>7, <3>1, <3>2, DropType DEF PeerReceives, localVars
    <2>2. CallInv' /\ OwnerInv' /\ QueuedInv'
      BY <2>1 DEF SlotInv, CallInv, OwnerInv, OwnerOf, QueuedInv, InHand, Launched
    <2>3. \A q : Registered(q) => Registered(q)'
      BY <2>1 DEF Registered, Launched
    <2> QED
      BY <2>1, <2>2, <2>3 DEF SlotInv, WrittenInv
  <1> QED
    BY <1>1, <1>2, <1>3, <1>4, <1>5, <1>6, <1>7 DEF Next, Local, Environment

\* Answers are never requests, whatever the peer sent.
LEMMA AnswerNext ==
    ASSUME TypeOK, AnswerInv, Next
    PROVE  AnswerInv'
  <1> USE DEF readerVars
  <1>0. /\ \A role \in Roles, cmd \in Commands : RejectOf(role, cmd) \notin Requests
        /\ \A cmd \in HandlerCmds(Role, Bind) \cup {"enquire_link"} : RespOf[cmd] \notin Requests
        /\ "generic_nack" \notin Requests /\ "unbind_resp" \notin Requests
    BY AnswersAreCommands, SessionAssumption DEF Requests
  <1>1. ASSUME NEW cmd, NEW p PROVE Pdu(cmd, p).cmd = cmd
    BY DEF Pdu
  <1>2. CASE ReaderRequest
    <2> DEFINE p == Head(inq)
    <2>1. p \in Pdus /\ p.cmd \in Commands /\ p.cmd \in HandlerCmds(Role, Bind) /\ rpc = "dispatch"
      BY <1>2, Next1Type DEF ReaderRequest, Next1
    <2>2. CASE tasks' = Append(tasks, Pdu(RespOf[p.cmd], p)) /\ UNCHANGED readerVars
      BY <1>0, <1>1, <2>1, <2>2 DEF AnswerInv, TypeOK
    <2>3. CASE SendThen(Pdu(RejectOf(Role, p.cmd), p), "dispatch") /\ UNCHANGED tasks
      BY <1>0, <1>1, <2>1, <2>3, SessionAssumption DEF AnswerInv, SendThen
    <2> QED
      BY <1>2, <2>2, <2>3 DEF ReaderRequest
  <1>3. CASE ReaderReply \/ ReaderUnbindResp \/ ReaderNack
    <2> DEFINE p == Head(inq)
    <2>1. p \in Pdus /\ p.cmd \in Commands /\ rpc = "dispatch" /\ UNCHANGED tasks
      BY <1>3, Next1Type DEF ReaderReply, ReaderUnbindResp, ReaderNack, Next1
    <2>2. RejectOf(Role, p.cmd) \notin Requests
      BY <1>0, <2>1, SessionAssumption
    <2>3. rpc' = "send" => rout'.cmd \notin Requests
      BY <1>0, <1>1, <1>3, <2>1, <2>2
      DEF ReaderReply, ReaderUnbindResp, ReaderNack, Settle, SendThen, GoTo
    <2> QED
      BY <2>1, <2>3 DEF AnswerInv
  <1>4. CASE ReaderAlert \/ ReaderEnquireLink \/ ReaderUnbind \/ ReaderUnsupported
    <2> DEFINE p == Head(inq)
    <2>1. p \in Pdus /\ p.cmd \in Commands /\ rpc = "dispatch" /\ UNCHANGED tasks
      BY <1>4, Next1Type
      DEF ReaderAlert, ReaderEnquireLink, ReaderUnbind, ReaderUnsupported, Next1
    <2>2. RejectOf(Role, p.cmd) \notin Requests
      BY <1>0, <2>1, SessionAssumption
    <2>3. ReaderEnquireLink => p.cmd = "enquire_link"
      BY DEF ReaderEnquireLink, Next1
    <2>4. rpc' = "send" => rout'.cmd \notin Requests
      BY <1>0, <1>1, <1>4, <2>1, <2>2, <2>3
      DEF ReaderAlert, ReaderEnquireLink, ReaderUnbind, ReaderUnsupported, SendThen
    <2> QED
      BY <2>1, <2>4 DEF AnswerInv
  <1>5. CASE \E i \in 1 .. Len(tasks) : TaskAnswers(i)
    <2>1. PICK i \in 1 .. Len(tasks) : TaskAnswers(i)
      BY <1>5
    <2>2. \A j \in 1 .. Len(tasks') : \E k \in 1 .. Len(tasks) : tasks'[j] = tasks[k]
      BY <2>1, RemoveAtElements DEF TaskAnswers, TypeOK
    <2>3. UNCHANGED readerVars
      BY <2>1 DEF TaskAnswers
    <2> QED
      BY <2>2, <2>3 DEF AnswerInv
  <1>6. CASE ReaderSends
    BY <1>6 DEF ReaderSends, GoTo, AnswerInv, TypeOK
  <1>7. CASE \/ ReaderBound \/ ReaderReads \/ ReaderMissesTicker \/ ReaderInactive
             \/ ReaderEof \/ ReaderStopped \/ ReaderLinkResp \/ ReaderForwards
             \/ ReaderUnlinks \/ ReaderSweep \/ ReaderCloses \/ ReaderCancelled
             \/ ReaderPanics
    <2>1. rpc' # "send" /\ UNCHANGED tasks
      BY <1>7 DEF ReaderBound, ReaderReads, ReaderMissesTicker, ReaderInactive,
         ReaderEof, ReaderStopped, ReaderLinkResp, ReaderForwards, ReaderUnlinks,
         ReaderSweep, ReaderCloses, ReaderCancelled, ReaderPanics, ReaderEnds, GoTo, LoopTop
    <2> QED
      BY <2>1 DEF AnswerInv
  <1>8. CASE \/ \E c \in Calls : CallStep(c)
             \/ WriterStep \/ TickerStep \/ Stop \/ (\E s \in Seqs : Ages(s)) \/ Environment
    <2>1. UNCHANGED <<tasks, readerVars>>
      <3>1. CASE \E c \in Calls : CallStep(c)
        BY <3>1 DEF CallStep, CallBegin, CallPanics, CallEnqueue, CallRefused,
           CallReturns, CallTimesOut
      <3>2. CASE WriterStep
        BY <3>2 DEF WriterStep, WriterTop, WriterTake, WriterClosed, WriterWrites,
           WriterFails, WriterCancelled
      <3>3. CASE TickerStep
        BY <3>3 DEF TickerStep, TickerTick, TickerSends, TickerReceives,
           TickerTimesOut, TickerCancelled
      <3>4. CASE Stop \/ (\E s \in Seqs : Ages(s)) \/ Environment
        BY <3>4 DEF Stop, Ages, Environment, PeerSends, PeerReceives, PeerCloses, localVars
      <3> QED
        BY <1>8, <3>1, <3>2, <3>3, <3>4
    <2> QED
      BY <2>1 DEF AnswerInv
  <1> QED
    BY <1>2, <1>3, <1>4, <1>5, <1>6, <1>7, <1>8 DEF Next, Local, ReaderStep

\* What the ends of reader and writer leave: no queued frame, no entry.
LEMMA EndNext ==
    ASSUME TypeOK, EndInv, Next
    PROVE  EndInv'
  <1> USE DEF callVars, writerVars, tableVars, readerVars, tickerVars, EndInv
  <1>1. CASE \E c \in Calls : CallStep(c)
    <2>1. UNCHANGED <<rpc, wpc, pending>>
      BY <1>1 DEF CallStep, CallBegin, CallPanics, CallEnqueue, CallRefused,
         CallReturns, CallTimesOut
    <2>2. wpc = "gone" => chan' = chan
      BY <1>1 DEF CallStep, CallBegin, CallPanics, CallEnqueue, CallRefused,
         CallReturns, CallTimesOut, CanEnqueue, ChanOpen
    <2> QED
      BY <2>1, <2>2
  <1>2. CASE WriterEnds /\ UNCHANGED rpc
    BY <1>2 DEF WriterEnds, Forget
  <1>3. CASE WriterStep /\ ~WriterEnds
    <2>1. wpc' # "gone" /\ UNCHANGED rpc
      BY <1>3 DEF WriterStep, WriterTop, WriterTake, WriterClosed, WriterWrites,
         WriterFails, WriterCancelled
    <2> QED
      BY <2>1
  <1>4. CASE WriterStep
    <2>1. UNCHANGED rpc
      BY <1>4 DEF WriterStep, WriterTop, WriterTake, WriterClosed, WriterWrites,
         WriterFails, WriterCancelled
    <2> QED
      BY <1>2, <1>3, <1>4, <2>1
  <1>5. CASE TickerStep \/ \E i \in 1 .. Len(tasks) : TaskAnswers(i)
    <2>1. UNCHANGED <<rpc, wpc, pending>>
      BY <1>5 DEF TickerStep, TickerTick, TickerSends, TickerReceives,
         TickerTimesOut, TickerCancelled, TaskAnswers
    <2>2. wpc = "gone" => chan' = chan
      BY <1>5 DEF TickerStep, TickerTick, TickerSends, TickerReceives,
         TickerTimesOut, TickerCancelled, TaskAnswers, CanEnqueue, ChanOpen
    <2> QED
      BY <2>1, <2>2
  <1>6. CASE ReaderEnds /\ UNCHANGED <<wpc, chan>>
    BY <1>6 DEF ReaderEnds, Forget
  <1>7. CASE ReaderStep
    <2>1. UNCHANGED wpc /\ (wpc = "gone" => chan' = chan)
      <3>1. CASE ReaderSends
        BY <3>1 DEF ReaderSends, CanEnqueue, ChanOpen
      <3>2. CASE ~ReaderSends
        BY <1>7, <3>2 DEF ReaderStep, ReaderBound, ReaderReads, ReaderMissesTicker,
           ReaderInactive, ReaderEof, ReaderStopped, ReaderRequest, ReaderReply,
           ReaderUnbindResp, ReaderNack, ReaderAlert, ReaderEnquireLink, ReaderUnbind,
           ReaderUnsupported, ReaderLinkResp, ReaderForwards, ReaderUnlinks,
           ReaderSweep, ReaderCloses, ReaderCancelled, ReaderPanics
      <3> QED
        BY <3>1, <3>2
    <2>2. CASE ReaderCloses \/ ReaderCancelled \/ ReaderPanics
      BY <1>6, <2>2 DEF ReaderCloses, ReaderCancelled, ReaderPanics
    <2>3. CASE ~(ReaderCloses \/ ReaderCancelled \/ ReaderPanics)
      <3>1. rpc' # "gone"
        BY <1>7, <2>3 DEF ReaderStep, ReaderBound, ReaderReads, ReaderMissesTicker,
           ReaderInactive, ReaderEof, ReaderStopped, ReaderRequest, ReaderReply,
           ReaderUnbindResp, ReaderNack, ReaderAlert, ReaderEnquireLink, ReaderUnbind,
           ReaderUnsupported, ReaderSends, ReaderLinkResp, ReaderForwards,
           ReaderUnlinks, ReaderSweep, Settle, Next1, GoTo, LoopTop, SendThen, TypeOK
      <3> QED
        BY <2>1, <3>1
    <2> QED
      BY <2>2, <2>3
  <1>8. CASE Stop \/ (\E s \in Seqs : Ages(s)) \/ Environment
    BY <1>8 DEF Stop, Ages, Environment, PeerSends, PeerReceives, PeerCloses, localVars
  <1> QED
    BY <1>1, <1>4, <1>5, <1>7, <1>8 DEF Next, Local

\* Every step preserves the invariant.
LEMMA InvNext == Inv /\ [Next]_vars => Inv'
  <1> SUFFICES ASSUME Inv, [Next]_vars PROVE Inv'
    OBVIOUS
  <1>1. CASE UNCHANGED vars
    <2>1. TypeOK'
      BY <1>1, TypeNext DEF Inv
    <2>2. SlotInv'
      BY <1>1, SlotStutter DEF Inv, vars, localVars, callVars, writerVars, tableVars
    <2>3. AnswerInv' /\ EndInv'
      BY <1>1 DEF Inv, AnswerInv, EndInv, vars, localVars, writerVars, readerVars, tableVars
    <2> QED
      BY <2>1, <2>2, <2>3 DEF Inv
  <1>2. CASE Next
    BY <1>2, TypeNext, SlotNext, AnswerNext, EndNext DEF Inv
  <1> QED
    BY <1>1, <1>2

\* The invariant holds throughout.
LEMMA InvHolds == Spec => []Inv
  BY InvInit, InvNext, PTL DEF Spec

\* Whatever the peer sends and however calls, timers and teardown interleave,
\* the oneshot of every call has exactly one owner, or none once it is used up.
THEOREM OwnershipCorrect == Spec => []OneOwnerPerCall
  BY InvHolds, InvImplies, PTL

\* A response can never arrive before the writer has registered its request.
THEOREM RegistrationCorrect == Spec => []RegisteredOnceWritten
  BY InvHolds, InvImplies, PTL

\* A call is only ever answered by a response with its own sequence number.
THEOREM CorrelationCorrect == Spec => []AnswerMatchesCall
  BY InvHolds, InvImplies, PTL

\* Teardown leaves no caller waiting on a oneshot nobody will complete.
THEOREM TeardownCorrect == Spec => []NoOrphanAfterTeardown
  BY InvHolds, InvImplies, PTL

-----------------------------------------------------------------------------
(* Calls awaited inside the bound callback *)

\* Such a call is under way only while the reader has not begun to read, or was
\* aborted before it did, and so nothing has completed its oneshot.
BoundInv ==
    \A c \in BoundCalls :
      /\ callSt[c] \notin {"ok", "nack", "wrong"} /\ slot[c] # "full"
      /\ callSt[c] \in {"sending", "waiting"} => rpc \in {"bound", "gone"}

\* The calls themselves: one that begins finds the reader in the callback.
LEMMA BoundCall ==
    ASSUME TypeOK, BoundInv, NEW c \in Calls, CallStep(c)
    PROVE  BoundInv'
  <1>0. /\ BoundCalls \subseteq Calls
        /\ callSt \in [Calls -> {"idle", "sending", "waiting"} \cup Returned]
        /\ slot \in [Calls -> {"none", "open", "full", "gone"}]
    BY SessionAssumption DEF TypeOK
  <1>1. UNCHANGED rpc
    BY DEF CallStep, CallBegin, CallPanics, CallEnqueue, CallRefused, CallReturns,
           CallTimesOut, readerVars
  <1>2. \A d \in Calls \ {c} : callSt'[d] = callSt[d] /\ slot'[d] = slot[d]
    BY <1>0 DEF CallStep, CallBegin, CallPanics, CallEnqueue, CallRefused, CallReturns,
                CallTimesOut, DropSlots
  <1>3. ASSUME c \in BoundCalls
        PROVE  /\ callSt'[c] \notin {"ok", "nack", "wrong"} /\ slot'[c] # "full"
               /\ callSt'[c] \in {"sending", "waiting"} => rpc \in {"bound", "gone"}
    <2>1. callSt[c] \notin {"ok", "nack", "wrong"} /\ slot[c] # "full"
          /\ (callSt[c] \in {"sending", "waiting"} => rpc \in {"bound", "gone"})
      BY <1>3 DEF BoundInv
    <2>2. CASE CallBegin(c) \/ CallPanics(c)
      BY <1>0, <1>3, <2>1, <2>2 DEF CallBegin, CallPanics, MayBegin
    <2>3. CASE CallEnqueue(c) \/ CallRefused(c)
      BY <1>0, <2>1, <2>3 DEF CallEnqueue, CallRefused, DropSlots
    <2>4. CASE CallReturns(c) \/ CallTimesOut(c)
      BY <1>0, <2>1, <2>4 DEF CallReturns, CallTimesOut
    <2> QED
      BY <2>2, <2>3, <2>4 DEF CallStep
  <1> QED
    BY <1>0, <1>1, <1>2, <1>3 DEF BoundInv

\* A step that completes no oneshot and does not start the reader is harmless.
LEMMA BoundQuiet ==
    ASSUME BoundInv, BoundCalls \subseteq Calls, UNCHANGED callSt,
           \A c \in Calls : slot'[c] \in {slot[c], "gone"},
           rpc' = rpc \/ rpc' = "gone" \/ rpc \notin {"bound", "gone"}
    PROVE  BoundInv'
  BY DEF BoundInv

\* The writer only drops oneshots.
LEMMA BoundWriter ==
    ASSUME TypeOK, BoundInv, WriterStep
    PROVE  BoundInv'
  <1>1. UNCHANGED callSt /\ UNCHANGED rpc
    BY DEF WriterStep, WriterTop, WriterTake, WriterClosed, WriterWrites, WriterFails,
           WriterCancelled, callVars, readerVars
  <1>2. \A c \in Calls : slot'[c] \in {slot[c], "gone"}
    <2>1. ASSUME NEW S, DropSlots(S) PROVE \A c \in Calls : slot'[c] \in {slot[c], "gone"}
      BY <2>1 DEF DropSlots
    <2>2. CASE UNCHANGED slot
      BY <2>2
    <2>3. UNCHANGED slot \/ \E S : DropSlots(S)
      BY DEF WriterStep, WriterTop, WriterTake, WriterClosed, WriterWrites, WriterFails,
             WriterCancelled, WriterEnds, Register
    <2> QED
      BY <2>1, <2>2, <2>3
  <1> QED
    BY <1>1, <1>2, BoundQuiet, SessionAssumption

\* A response completes a call of the callback only if the reader reads.
LEMMA BoundSettle ==
    ASSUME TypeOK, BoundInv, rpc = "dispatch", UNCHANGED callSt, NEW p, NEW pc, NEW bad,
           Settle(p, pc, bad)
    PROVE  BoundInv'
  <1>0. BoundCalls \subseteq Calls /\ slot \in [Calls -> {"none", "open", "full", "gone"}]
    BY SessionAssumption DEF TypeOK
  <1>1. ASSUME NEW c \in BoundCalls PROVE slot'[c] # "full"
    <2>1. slot[c] # "full" /\ callSt[c] # "waiting" /\ c \in Calls
      BY <1>0, <1>1 DEF BoundInv
    <2>2. CASE UNCHANGED slot
      BY <2>1, <2>2
    <2>3. CASE \E S : DropSlots(S)
      BY <2>1, <2>3 DEF DropSlots
    <2>4. CASE Deliver(pending[p.seq], p)
      BY <1>0, <2>1, <2>4 DEF Deliver
    <2> QED
      BY <2>2, <2>3, <2>4 DEF Settle
  <1> QED
    BY <1>1 DEF BoundInv

\* Every step keeps the calls of the callback unanswered.
LEMMA BoundNext == TypeOK /\ BoundInv /\ [Next]_vars => BoundInv'
  <1> SUFFICES ASSUME TypeOK, BoundInv, [Next]_vars PROVE BoundInv'
    OBVIOUS
  <1> USE DEF callVars, writerVars, tableVars, readerVars, tickerVars
  <1>1. CASE ReaderBound
    <2>1. \A c \in BoundCalls : callSt[c] \in Returned
      BY <1>1 DEF ReaderBound
    <2>2. UNCHANGED <<callSt, slot>>
      BY <1>1 DEF ReaderBound
    <2> QED
      BY <2>1, <2>2 DEF BoundInv, Returned
  <1>2. CASE ReaderReply \/ ReaderUnbindResp \/ ReaderNack
    BY <1>2, BoundSettle DEF ReaderReply, ReaderUnbindResp, ReaderNack, Next1
  <1>3. CASE ReaderUnlinks \/ ReaderSweep \/ ReaderCloses \/ ReaderCancelled \/ ReaderPanics
    <2>1. UNCHANGED callSt /\ \E S : DropSlots(S)
      BY <1>3 DEF ReaderUnlinks, ReaderSweep, ReaderCloses, ReaderCancelled, ReaderPanics,
         ReaderEnds
    <2>2. \A c \in Calls : slot'[c] \in {slot[c], "gone"}
      BY <2>1 DEF DropSlots
    <2>3. rpc' = "gone" \/ rpc \notin {"bound", "gone"}
      BY <1>3 DEF ReaderUnlinks, ReaderSweep, ReaderCloses, ReaderCancelled, ReaderPanics,
         ReaderEnds, GoTo
    <2> QED
      BY <2>1, <2>2, <2>3, BoundQuiet, SessionAssumption
  <1>4. CASE \/ ReaderReads \/ ReaderMissesTicker \/ ReaderInactive \/ ReaderEof
             \/ ReaderStopped \/ ReaderRequest \/ ReaderAlert \/ ReaderEnquireLink
             \/ ReaderUnbind \/ ReaderUnsupported \/ ReaderSends \/ ReaderLinkResp
             \/ ReaderForwards
    <2>1. UNCHANGED <<callSt, slot>> /\ rpc \notin {"bound", "gone"}
      BY <1>4 DEF ReaderReads, ReaderMissesTicker, ReaderInactive, ReaderEof, ReaderStopped,
         ReaderRequest, ReaderAlert, ReaderEnquireLink, ReaderUnbind, ReaderUnsupported,
         ReaderSends, ReaderLinkResp, ReaderForwards, Next1
    <2> QED
      BY <2>1, BoundQuiet, SessionAssumption
  <1>5. CASE \/ TickerStep \/ (\E i \in 1 .. Len(tasks) : TaskAnswers(i))
             \/ (\E s \in Seqs : Ages(s)) \/ Stop \/ Environment \/ UNCHANGED vars
    <2>1. UNCHANGED <<callSt, slot, rpc>>
      BY <1>5 DEF TickerStep, TickerTick, TickerSends, TickerReceives, TickerTimesOut,
         TickerCancelled, TaskAnswers, Ages, Stop, Environment, PeerSends, PeerReceives,
         PeerCloses, localVars, vars
    <2> QED
      BY <2>1, BoundQuiet, SessionAssumption
  <1> QED
    BY <1>1, <1>2, <1>3, <1>4, <1>5, BoundCall, BoundWriter DEF Next, Local, ReaderStep

\* A send_* awaited inside on_smsc_bound or on_esme_bound is never answered,
\* whatever the peer sends: reading starts only after the callback.
THEOREM BoundCallsUnanswered == Spec => []BoundCallNeverAnswered
  <1>1. Init => BoundInv
    BY SessionAssumption DEF Init, LocalInit, BoundInv
  <1>2. BoundInv => BoundCallNeverAnswered
    BY DEF BoundInv, BoundCallNeverAnswered
  <1> QED
    BY <1>1, <1>2, BoundNext, TypeCorrect, PTL DEF Spec
=============================================================================
