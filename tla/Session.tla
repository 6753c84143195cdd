------------------------------ MODULE Session ------------------------------
(***************************************************************************)
(* One bound SMPP session of one endpoint: the tasks that share it and the *)
(* calls the application makes through its handle.                         *)
(*                                                                         *)
(*   calls   SMSC::send_* / ESME::send_*: take a sequence number, enqueue  *)
(*           a WriteFrame, await the oneshot under response_timer;         *)
(*   writer  takes frames off the channel, registers requests in           *)
(*           pending_requests, writes to the socket;                       *)
(*   ticker  sends enquire_link and awaits its answer;                     *)
(*   reader  dispatches what arrives, matches responses by sequence number,*)
(*           sweeps expired entries, tears the session down;               *)
(*   tasks   one spawned listener task per inbound request.                *)
(*                                                                         *)
(* client/mod.rs and server/state.rs hold two copies of this machine; the  *)
(* constant Role selects the dispatch tables and the few real differences. *)
(* The peer is the environment here (any PDU at any time); module Link     *)
(* replaces it by a second Session.                                        *)
(***************************************************************************)
EXTENDS SmppPdu, SequencesExt

CONSTANTS
    Role,        \* "client" or "server"
    Bind,        \* kind of bind of the session
    Calls,       \* the send_* calls the application makes, one element each
    CmdOf,       \* CmdOf[c]: the request that call c sends
    BoundCalls,  \* the calls awaited inside on_smsc_bound / on_esme_bound
    PeerCalls,   \* the calls of the peer's application
    SeqSpace,    \* size of the sequence number space (2^32 in the code)
    ChanCap,     \* capacity of the WriteFrame channel (100)
    LinkCap,     \* capacity of the enquire_link_resp channel (100)
    WireCap,     \* PDUs one direction of the TCP connection buffers
    MaxProbes,   \* bound: enquire_links one session sends
    MaxTasks,    \* bound: listener tasks running at once
    MayStop,     \* whether SmppClient::stop may be called
    PeerPdus     \* PDUs the environment may send

Seqs == 0 .. SeqSpace - 1

\* The calls of this side, or no call.
Tags == Calls \cup {"none"}

\* tag is the call a PDU belongs to: the call, of either side, that sent the
\* request, or whose request is being answered.  It stands for the PDU's contents
\* and message id.
Pdus == [cmd : Commands, seq : Seqs, tag : Tags \cup PeerCalls, good : BOOLEAN]

\* WriteFrame: reg says that our_sequence_number is Some(pdu.seq); slot is the
\* call whose oneshot sender travels with the frame.
Frames == [pdu : Pdus, reg : BOOLEAN, slot : Tags]

ASSUME SessionAssumption ==
    /\ Role \in Roles /\ Bind \in Binds
    /\ CmdOf \in [Calls -> Sends(Role)]
    /\ BoundCalls \subseteq Calls
    /\ SeqSpace \in Nat \ {0}
    /\ ChanCap \in Nat \ {0} /\ LinkCap \in Nat \ {0} /\ WireCap \in Nat \ {0}
    /\ MaxProbes \in Nat /\ MaxTasks \in Nat
    /\ MayStop \in BOOLEAN
    /\ PeerPdus \subseteq Pdus
    /\ {"none", "absent"} \cap Calls = {}

VARIABLES
    alive,     \* the session's AtomicBool
    seqNo,     \* sequence_number: AtomicU32
    callSt,    \* per call: where the send_* function is, or how it returned
    callSeq,   \* per call: the sequence number it took
    slot,      \* per call: its oneshot channel, seen from the sender
    reply,     \* per call: the response sent through the oneshot
    chan,      \* the WriteFrame channel
    wpc,       \* writer task: control
    wframe,    \* writer task: the frame in hand, as a sequence of length <= 1
    pending,   \* pending_requests: per sequence number "absent", "none" (no
               \* oneshot) or the call whose oneshot is stored
    late,      \* sequence numbers whose entry is older than response_timer
    tasks,     \* the answers of the listener tasks still running
    rpc,       \* reader task: control
    rout,      \* reader task: the PDU it is about to send or forward
    rthen,     \* reader task: where it goes once that is sent
    tpc,       \* enquire_link ticker: control
    tseq,      \* enquire_link ticker: sequence number it waits for
    linkQ,     \* channel from the reader to the ticker
    probes,    \* enquire_links sent so far
    aborts,    \* tasks with an abort requested and not yet taken effect
    inq,       \* PDUs on the way in
    outq,      \* PDUs on the way out
    peer       \* "up", or "gone" once the peer has closed the connection

callVars   == <<callSt, callSeq, reply>>
writerVars == <<wpc, wframe>>
readerVars == <<rpc, rout, rthen>>
tickerVars == <<tpc, tseq, linkQ, probes>>
tableVars  == <<pending, late>>

localVars == <<alive, seqNo, callVars, slot, chan, writerVars, tableVars, tasks,
               readerVars, tickerVars, aborts>>
vars == <<localVars, inq, outq, peer>>

NoPdu == [cmd |-> "unknown", seq |-> 0, tag |-> "none", good |-> FALSE]

Returned == {"ok", "nack", "wrong", "broken", "timeout", "refused", "sent",
             "panicked"}

\* The client used sequence number 1 for its bind; the server starts at 1.
LocalInit ==
    /\ alive = TRUE
    /\ seqNo = (IF Role = "client" THEN 2 ELSE 1) % SeqSpace
    /\ callSt = [c \in Calls |-> "idle"]
    /\ callSeq = [c \in Calls |-> 0]
    /\ slot = [c \in Calls |-> "none"]
    /\ reply = [c \in Calls |-> NoPdu]
    /\ chan = <<>> /\ wpc = "recv" /\ wframe = <<>>
    /\ pending = [s \in Seqs |-> "absent"] /\ late = {}
    /\ tasks = <<>>
    /\ rpc = "bound" /\ rout = NoPdu /\ rthen = "dispatch"
    /\ tpc = "wait" /\ tseq = 0 /\ linkQ = <<>> /\ probes = 0
    /\ aborts = {}

Init == LocalInit /\ inq = <<>> /\ outq = <<>> /\ peer = "up"

-----------------------------------------------------------------------------
(* Helpers *)

\* The oneshot senders of S are dropped: a call still waiting sees RecvError.
DropSlots(S) == slot' = [c \in Calls |-> IF c \in S THEN "gone" ELSE slot[c]]

Held(frames) == {frames[i].slot : i \in 1 .. Len(frames)}

\* Mutant of Forget: the entries are read (get) and not removed.
ForgetKeeps(S) == pending' = pending /\ late' = late \ S

\* pending_requests without the entries of S.
Forget(S) ==
    /\ pending' = [s \in Seqs |-> IF s \in S THEN "absent" ELSE pending[s]]
    /\ late' = late \ S

ChanOpen == wpc # "gone"
CanEnqueue == ChanOpen /\ Len(chan) < ChanCap

ReplyFrame(p) == [pdu |-> p, reg |-> FALSE, slot |-> "none"]

Pdu(cmd, p) == [cmd |-> cmd, seq |-> p.seq, tag |-> p.tag, good |-> TRUE]

\* Mutant of FreedBy: a task still holds the table when both have ended.
FreedByNobody(reader, writer) == {}

\* pending_requests is freed when the reader and the writer have both let go
\* of it; the frames still queued are freed with the writer's receiver.
FreedBy(reader, writer) ==
    {pending[s] : s \in IF reader /\ writer THEN Seqs ELSE {}}

\* Mutants of NextSeq: no wrap; no increment.
NextSeqNoWrap == seqNo + 1
NextSeqStuck  == seqNo

\* fetch_add(1) on the AtomicU32.
NextSeq == (seqNo + 1) % SeqSpace

-----------------------------------------------------------------------------
(* Calls: SMSC::send_* and ESME::send_* *)

\* A call awaited by the bound callback is made before the callback returns.
MayBegin(c) == callSt[c] = "idle" /\ (c \in BoundCalls => rpc = "bound")

CallBegin(c) ==
    /\ MayBegin(c)
    /\ Allowed(Role, Bind, CmdOf[c])
    /\ callSeq' = [callSeq EXCEPT ![c] = seqNo]
    /\ seqNo' = NextSeq
    /\ callSt' = [callSt EXCEPT ![c] = "sending"]
    /\ slot' = [slot EXCEPT ![c] = IF CmdOf[c] = "alert_notification"
                                     THEN "none" ELSE "open"]
    /\ UNCHANGED <<alive, reply, chan, writerVars, tableVars, tasks, readerVars,
                   tickerVars, aborts, inq, outq>>

\* send_* panics on the wrong kind of bind, in the task that called it.
CallPanics(c) ==
    /\ MayBegin(c)
    /\ ~Allowed(Role, Bind, CmdOf[c])
    /\ callSt' = [callSt EXCEPT ![c] = "panicked"]
    /\ UNCHANGED <<alive, seqNo, callSeq, slot, reply, chan, writerVars, tableVars,
                   tasks, readerVars, tickerVars, aborts, inq, outq>>

\* Mutant of RequestFrame: the PDU carries the next sequence number.
RequestFrameNext(c) ==
    [pdu  |-> [cmd |-> CmdOf[c], seq |-> (callSeq[c] + 1) % SeqSpace, tag |-> c,
               good |-> TRUE],
     reg  |-> TRUE,
     slot |-> IF CmdOf[c] = "alert_notification" THEN "none" ELSE c]

\* our_sequence_number is Some for every send_*, alert_notification included.
RequestFrame(c) ==
    [pdu  |-> [cmd |-> CmdOf[c], seq |-> callSeq[c], tag |-> c, good |-> TRUE],
     reg  |-> TRUE,
     slot |-> IF CmdOf[c] = "alert_notification" THEN "none" ELSE c]

CallEnqueue(c) ==
    /\ callSt[c] = "sending"
    /\ CanEnqueue
    /\ chan' = Append(chan, RequestFrame(c))
    /\ callSt' = [callSt EXCEPT ![c] = IF CmdOf[c] = "alert_notification"
                                         THEN "sent" ELSE "waiting"]
    /\ UNCHANGED <<alive, seqNo, callSeq, slot, reply, writerVars, tableVars,
                   tasks, readerVars, tickerVars, aborts, inq, outq>>

\* The channel is closed: the writer is gone.
CallRefused(c) ==
    /\ callSt[c] = "sending"
    /\ ~ChanOpen
    /\ callSt' = [callSt EXCEPT ![c] = "refused"]
    /\ DropSlots({c})
    /\ UNCHANGED <<alive, seqNo, callSeq, reply, chan, writerVars, tableVars,
                   tasks, readerVars, tickerVars, aborts, inq, outq>>

\* Downcast of the reply: the expected response, generic_nack, or neither.
OutcomeOf(c) ==
    IF reply[c].cmd = "generic_nack" THEN "nack"
      ELSE IF reply[c].cmd = RespOf[CmdOf[c]] THEN "ok" ELSE "wrong"

CallReturns(c) ==
    /\ callSt[c] = "waiting"
    /\ \/ /\ slot[c] = "full"
          /\ callSt' = [callSt EXCEPT ![c] = OutcomeOf(c)]
          /\ reply' = [reply EXCEPT ![c] = NoPdu]
          /\ DropSlots({c})
       \/ /\ slot[c] = "gone"
          /\ callSt' = [callSt EXCEPT ![c] = "broken"]
          /\ UNCHANGED <<slot, reply>>
    /\ UNCHANGED <<alive, seqNo, callSeq, chan, writerVars, tableVars,
                   tasks, readerVars, tickerVars, aborts, inq, outq>>

\* response_timer; timeout() polls the oneshot first, so a reply wins a tie.
CallTimesOut(c) ==
    /\ callSt[c] = "waiting"
    /\ slot[c] = "open"
    /\ callSt' = [callSt EXCEPT ![c] = "timeout"]
    /\ UNCHANGED <<alive, seqNo, callSeq, slot, reply, chan, writerVars, tableVars,
                   tasks, readerVars, tickerVars, aborts, inq, outq>>

-----------------------------------------------------------------------------
(* Writer task *)

\* The task ends: its receiver goes with every queued frame.
WriterEnds ==
    /\ wpc' = "gone"
    /\ chan' = <<>>
    /\ wframe' = <<>>
    /\ DropSlots(Held(chan) \cup Held(wframe) \cup FreedBy(rpc = "gone", TRUE))
    /\ IF rpc = "gone" THEN Forget(Seqs) ELSE UNCHANGED <<pending, late>>
    /\ aborts' = aborts \ {"writer"}

WriterTop ==
    /\ wpc = "top"
    /\ \/ /\ alive
          /\ wpc' = "recv"
          /\ UNCHANGED <<slot, chan, wframe, pending, late, aborts>>
       \/ ~alive /\ WriterEnds
    /\ UNCHANGED <<alive, seqNo, callVars, tasks, readerVars,
                   tickerVars, inq, outq>>

\* Mutant of Register: the entry is not inserted.
RegisterNever(f) == wframe' = <<f>> /\ UNCHANGED <<pending, late, slot>>

\* Registration comes before the write; an entry under the same sequence
\* number is overwritten and its oneshot dropped.
Register(f) ==
    IF f.reg
      THEN /\ pending' = [pending EXCEPT ![f.pdu.seq] = f.slot]
           /\ late' = late \ {f.pdu.seq}
           /\ DropSlots({pending[f.pdu.seq]} \ {f.slot})
           /\ wframe' = <<[pdu |-> f.pdu, reg |-> TRUE, slot |-> "none"]>>
      ELSE /\ wframe' = <<f>>
           /\ UNCHANGED <<pending, late, slot>>

WriterTake ==
    /\ wpc = "recv"
    /\ chan # <<>>
    /\ chan' = Tail(chan)
    /\ wpc' = "write"
    /\ Register(Head(chan))
    /\ UNCHANGED <<alive, seqNo, callVars, tasks, readerVars,
                   tickerVars, aborts, inq, outq>>

\* recv() yields None: every sender is gone (the application dropped its
\* handle, which this model lets it do once all its calls have returned).
WriterClosed ==
    /\ wpc = "recv"
    /\ chan = <<>> /\ rpc = "gone" /\ tpc = "gone" /\ tasks = <<>>
    /\ \A c \in Calls : callSt[c] \in Returned
    /\ WriterEnds
    /\ UNCHANGED <<alive, seqNo, callVars, tasks, readerVars,
                   tickerVars, inq, outq>>

WriterWrites ==
    /\ wpc = "write"
    /\ Len(outq) < WireCap
    /\ outq' = Append(outq, wframe[1].pdu)
    /\ wpc' = "top"
    /\ wframe' = <<>>
    /\ UNCHANGED <<alive, seqNo, callVars, slot, chan, tableVars, tasks,
                   readerVars, tickerVars, aborts, inq>>

\* The write fails: the registration is taken back.
WriterFails ==
    /\ wpc = "write"
    /\ peer = "gone"
    /\ LET f == wframe[1] IN
         IF f.reg
           THEN /\ Forget({f.pdu.seq})
                /\ DropSlots({pending[f.pdu.seq]})
           ELSE UNCHANGED <<pending, late, slot>>
    /\ wpc' = "top"
    /\ wframe' = <<>>
    /\ UNCHANGED <<alive, seqNo, callVars, chan, tasks,
                   readerVars, tickerVars, aborts, inq, outq>>

WriterCancelled ==
    /\ "writer" \in aborts
    /\ wpc # "gone"
    /\ WriterEnds
    /\ UNCHANGED <<alive, seqNo, callVars, tasks, readerVars,
                   tickerVars, inq, outq>>

-----------------------------------------------------------------------------
(* enquire_link ticker *)

TickerEnds == tpc' = "gone" /\ tseq' = 0 /\ linkQ' = <<>>
              /\ aborts' = aborts \ {"ticker"}

\* Mutant of TickerTick: once `alive' is clear it probes no more, but goes on.
TickerTickIdles ==
    /\ tpc = "wait"
    /\ alive
    /\ probes < MaxProbes
    /\ probes' = probes + 1
    /\ tseq' = seqNo
    /\ seqNo' = NextSeq
    /\ tpc' = "send"
    /\ UNCHANGED <<alive, callVars, slot, chan, writerVars, tableVars, tasks,
                   readerVars, linkQ, aborts, inq, outq>>

TickerTick ==
    /\ tpc = "wait"
    /\ \/ /\ alive
          /\ probes < MaxProbes
          /\ probes' = probes + 1
          /\ tseq' = seqNo
          /\ seqNo' = NextSeq
          /\ tpc' = "send"
          /\ UNCHANGED <<linkQ, aborts>>
       \/ ~alive /\ TickerEnds /\ UNCHANGED <<seqNo, probes>>
    /\ UNCHANGED <<alive, callVars, slot, chan, writerVars, tableVars, tasks,
                   readerVars, inq, outq>>

ProbeFrame ==
    [pdu  |-> [cmd |-> "enquire_link", seq |-> tseq, tag |-> "none", good |-> TRUE],
     reg  |-> TRUE,
     slot |-> "none"]

TickerSends ==
    /\ tpc = "send"
    /\ \/ /\ CanEnqueue
          /\ chan' = Append(chan, ProbeFrame)
          /\ tpc' = "await"
          /\ UNCHANGED <<tseq, linkQ, aborts>>
       \/ ~ChanOpen /\ TickerEnds /\ UNCHANGED chan
    /\ UNCHANGED <<alive, seqNo, callVars, slot, writerVars, tableVars, tasks,
                   readerVars, probes, inq, outq>>

\* Any other sequence number than the one awaited kills the bind.
TickerReceives ==
    /\ tpc = "await"
    /\ linkQ # <<>>
    /\ IF Head(linkQ) = tseq
         THEN tpc' = "wait" /\ tseq' = 0 /\ linkQ' = Tail(linkQ) /\ UNCHANGED aborts
         ELSE TickerEnds
    /\ UNCHANGED <<alive, seqNo, callVars, slot, chan, writerVars, tableVars, tasks,
                   readerVars, probes, inq, outq>>

\* Mutant of TickerTimesOut: the ticker gives up on this probe only.
TickerTimesOutOnce ==
    /\ tpc = "await"
    /\ linkQ = <<>>
    /\ tpc' = "wait" /\ tseq' = 0
    /\ UNCHANGED <<alive, seqNo, callVars, slot, chan, writerVars, tableVars, tasks,
                   readerVars, linkQ, probes, aborts, inq, outq>>

\* response_timer ran out, or the reader's end of the channel is gone.
TickerTimesOut ==
    /\ tpc = "await"
    /\ linkQ = <<>>
    /\ TickerEnds
    /\ UNCHANGED <<alive, seqNo, callVars, slot, chan, writerVars, tableVars, tasks,
                   readerVars, probes, inq, outq>>

TickerCancelled ==
    /\ "ticker" \in aborts
    /\ tpc # "gone"
    /\ TickerEnds
    /\ UNCHANGED <<alive, seqNo, callVars, slot, chan, writerVars, tableVars, tasks,
                   readerVars, probes, inq, outq>>

-----------------------------------------------------------------------------
(* Listener tasks spawned by the reader *)

\* The listener's answer goes to the channel; if the writer is gone it is lost.
TaskAnswers(i) ==
    /\ tasks' = RemoveAt(tasks, i)
    /\ \/ CanEnqueue /\ chan' = Append(chan, ReplyFrame(tasks[i]))
       \/ ~ChanOpen /\ UNCHANGED chan
    /\ UNCHANGED <<alive, seqNo, callVars, slot, writerVars, tableVars, readerVars,
                   tickerVars, aborts, inq, outq>>

-----------------------------------------------------------------------------
(* Reader task *)

\* rout and rthen mean something only while the reader is sending.
GoTo(pc) == rpc' = pc /\ rout' = NoPdu /\ rthen' = "dispatch"

\* Await tx.send(p), then continue at pc.
SendThen(p, pc) == rpc' = "send" /\ rout' = p /\ rthen' = pc

\* The session task ends: it returns, is cancelled, or panics.
ReaderEnds ==
    /\ GoTo("gone")
    /\ DropSlots(FreedBy(TRUE, wpc = "gone"))
    /\ IF wpc = "gone" THEN Forget(Seqs) ELSE UNCHANGED <<pending, late>>

\* The bound callback panics, in the application's code or in a call it awaits:
\* the session task unwinds, past the teardown, and leaves writer and ticker
\* behind.
ReaderPanics ==
    /\ rpc = "bound"
    /\ \A c \in BoundCalls : callSt[c] \notin {"sending", "waiting"}
    /\ ReaderEnds
    /\ aborts' = aborts \ {"reader"}
    /\ UNCHANGED <<alive, seqNo, callVars, chan, writerVars, tasks, tickerVars,
                   inq, outq>>

\* The head of the read loop, passed before a read is awaited: `while alive' in
\* the client, where only stop() clears the flag under the loop.
LoopTop == IF Role = "client" /\ ~alive THEN "close" ELSE "read"

\* Mutant of ReaderBound: the callback is spawned and reading starts at once.
ReaderBoundSpawned ==
    /\ rpc = "bound"
    /\ GoTo("read")
    /\ UNCHANGED <<alive, seqNo, callVars, slot, chan, writerVars, tableVars, tasks,
                   tickerVars, aborts, inq, outq>>

\* The listener's bound callback returns; reading starts only now.
ReaderBound ==
    /\ rpc = "bound"
    /\ \A c \in BoundCalls : callSt[c] \in Returned \ {"panicked"}
    /\ GoTo(LoopTop)
    /\ UNCHANGED <<alive, seqNo, callVars, slot, chan, writerVars, tableVars, tasks,
                   tickerVars, aborts, inq, outq>>

\* A read returns bytes: the PDUs they complete are dispatched one by one, and
\* where the batch ends is decided at each of them (ReaderSweep).
ReaderReads ==
    /\ rpc = "read"
    /\ inq # <<>>
    /\ GoTo("dispatch")
    /\ UNCHANGED <<alive, seqNo, callVars, slot, chan, writerVars, tableVars, tasks,
                   tickerVars, aborts, inq, outq>>

\* 500 ms without a byte, and the ticker task turns out to be finished.
ReaderMissesTicker ==
    /\ rpc = "read"
    /\ inq = <<>>
    /\ tpc = "gone"
    /\ GoTo("close")
    /\ UNCHANGED <<alive, seqNo, callVars, slot, chan, writerVars, tableVars, tasks,
                   tickerVars, aborts, inq, outq>>

\* Mutant of ReaderInactive: inactivity is looked at only without a ticker.
ReaderInactiveUnlessTicking ==
    /\ rpc = "read"
    /\ inq = <<>>
    /\ tpc = "gone"
    /\ GoTo("close")
    /\ UNCHANGED <<alive, seqNo, callVars, slot, chan, writerVars, tableVars, tasks,
                   tickerVars, aborts, inq, outq>>

\* 500 ms without a byte, and the last one is inactivity_timer ago.
ReaderInactive ==
    /\ rpc = "read"
    /\ inq = <<>>
    /\ GoTo("close")
    /\ UNCHANGED <<alive, seqNo, callVars, slot, chan, writerVars, tableVars, tasks,
                   tickerVars, aborts, inq, outq>>

\* End of file, or a connection error that discards what was in flight.
ReaderEof ==
    /\ rpc = "read"
    /\ peer = "gone"
    /\ inq' = <<>>
    /\ GoTo("close")
    /\ UNCHANGED <<alive, seqNo, callVars, slot, chan, writerVars, tableVars, tasks,
                   tickerVars, aborts, outq>>

\* 500 ms without a byte, and back at the head of the loop the flag is clear.
ReaderStopped ==
    /\ rpc = "read"
    /\ LoopTop = "close"
    /\ GoTo("close")
    /\ UNCHANGED <<alive, seqNo, callVars, slot, chan, writerVars, tableVars, tasks,
                   tickerVars, aborts, inq, outq>>

\* Dispatch of the next PDU of the batch to `Branch'.
Next1(cmds) == rpc = "dispatch" /\ inq # <<>> /\ Head(inq).cmd \in cmds
               /\ inq' = Tail(inq)

ReaderRequest ==
    /\ Next1(HandlerCmds(Role, Bind))
    /\ LET p == Head(inq) IN
         \/ /\ p.good /\ Len(tasks) < MaxTasks
            /\ tasks' = Append(tasks, Pdu(RespOf[p.cmd], p))
            /\ UNCHANGED readerVars
         \/ /\ ~p.good
            /\ SendThen(Pdu(RejectOf(Role, p.cmd), p), "dispatch")
            /\ UNCHANGED tasks
    /\ UNCHANGED <<alive, seqNo, callVars, slot, chan, writerVars, tableVars,
                   tickerVars, aborts, outq>>

\* oneshot.send: it reaches the call if the call still waits.
Deliver(c, p) ==
    IF c \in Calls
      THEN LET heard == callSt[c] = "waiting" IN
           /\ slot' = [slot EXCEPT ![c] = IF heard THEN "full" ELSE "gone"]
           /\ reply' = [reply EXCEPT ![c] = IF heard THEN p ELSE @]
      ELSE UNCHANGED <<slot, reply>>

\* pending_requests.remove(seq), the elapsed check, then decode and hand over.
\* `done' is where a delivered reply leads, `bad' what a body that does not
\* decode is answered with ("none": with nothing).
Settle(p, done, bad) ==
    LET s == p.seq IN
    \/ /\ pending[s] = "absent"
       /\ UNCHANGED <<pending, late, slot, reply, readerVars>>
    \/ /\ pending[s] # "absent" /\ s \in late
       /\ Forget({s})
       /\ DropSlots({pending[s]})
       /\ UNCHANGED <<reply, readerVars>>
    \/ /\ pending[s] # "absent" /\ s \notin late /\ p.good
       /\ Forget({s})
       /\ Deliver(pending[s], p)
       /\ GoTo(done)
    \/ /\ pending[s] # "absent" /\ s \notin late /\ ~p.good
       /\ Forget({s})
       /\ DropSlots({pending[s]})
       /\ IF bad = "none" THEN UNCHANGED readerVars
                          ELSE SendThen(Pdu(bad, p), "dispatch")
       /\ UNCHANGED <<reply>>

ReaderReply ==
    /\ Next1(ReplyCmds(Role, Bind))
    /\ Settle(Head(inq), "dispatch", RejectOf(Role, Head(inq).cmd))
    /\ UNCHANGED <<alive, seqNo, callSt, callSeq, chan, writerVars, tasks,
                   tickerVars, aborts, outq>>

ReaderUnbindResp ==
    /\ Role = "client"
    /\ Next1({"unbind_resp"})
    /\ Settle(Head(inq), "close", "generic_nack")
    /\ UNCHANGED <<alive, seqNo, callSt, callSeq, chan, writerVars, tasks,
                   tickerVars, aborts, outq>>

ReaderNack ==
    /\ Next1({"generic_nack"})
    /\ Settle(Head(inq), "dispatch", "none")
    /\ UNCHANGED <<alive, seqNo, callSt, callSeq, chan, writerVars, tasks,
                   tickerVars, aborts, outq>>

ReaderAlert ==
    /\ Role = "client"
    /\ Next1({"alert_notification"})
    /\ IF Head(inq).good THEN UNCHANGED readerVars
         ELSE SendThen(Pdu("generic_nack", Head(inq)), "dispatch")
    /\ UNCHANGED <<alive, seqNo, callVars, slot, chan, writerVars, tableVars, tasks,
                   tickerVars, aborts, outq>>

\* The answer is sent by the read loop itself, which waits for channel space.
ReaderEnquireLink ==
    /\ Next1({"enquire_link"})
    /\ LET p == Head(inq) IN
         SendThen(Pdu(IF p.good THEN RespOf[p.cmd] ELSE RejectOf(Role, p.cmd), p),
                  "dispatch")
    /\ UNCHANGED <<alive, seqNo, callVars, slot, chan, writerVars, tableVars, tasks,
                   tickerVars, aborts, outq>>

\* Mutant of ReaderUnbind: the loop goes on after the answer.
ReaderUnbindStays ==
    /\ Next1({"unbind"})
    /\ SendThen(Pdu("unbind_resp", Head(inq)), "dispatch")
    /\ aborts' = IF tpc = "gone" THEN aborts ELSE aborts \cup {"ticker"}
    /\ UNCHANGED <<alive, seqNo, callVars, slot, chan, writerVars, tableVars, tasks,
                   tickerVars, outq>>

\* Stop the ticker, answer (unbind_resp whether or not the body decodes), close.
ReaderUnbind ==
    /\ Next1({"unbind"})
    /\ SendThen(Pdu("unbind_resp", Head(inq)), "close")
    /\ aborts' = IF tpc = "gone" THEN aborts ELSE aborts \cup {"ticker"}
    /\ UNCHANGED <<alive, seqNo, callVars, slot, chan, writerVars, tableVars, tasks,
                   tickerVars, outq>>

ReaderUnsupported ==
    /\ Next1(Commands \ Supported(Role, Bind))
    /\ SendThen(Pdu("generic_nack", Head(inq)), "dispatch")
    /\ UNCHANGED <<alive, seqNo, callVars, slot, chan, writerVars, tableVars, tasks,
                   tickerVars, aborts, outq>>

\* tx.send of the reader completes, or fails because the writer is gone.
ReaderSends ==
    /\ rpc = "send"
    /\ \/ CanEnqueue /\ chan' = Append(chan, ReplyFrame(rout)) /\ GoTo(rthen)
       \/ ~ChanOpen /\ UNCHANGED chan /\ GoTo("close")
    /\ UNCHANGED <<alive, seqNo, callVars, slot, writerVars, tableVars, tasks,
                   tickerVars, aborts, inq, outq>>

\* enquire_link_resp: first to the ticker, then the pending entry is removed.
ReaderLinkResp ==
    /\ Next1({"enquire_link_resp"})
    /\ rpc' = "forward" /\ rout' = Head(inq) /\ rthen' = "dispatch"
    /\ UNCHANGED <<alive, seqNo, callVars, slot, chan, writerVars, tableVars, tasks,
                   tickerVars, aborts, outq>>

ReaderForwards ==
    /\ rpc = "forward"
    /\ \/ tpc = "gone" /\ UNCHANGED linkQ
       \/ /\ tpc # "gone" /\ Len(linkQ) < LinkCap
          /\ linkQ' = Append(linkQ, rout.seq)
    /\ rpc' = "unlink" /\ UNCHANGED <<rout, rthen>>
    /\ UNCHANGED <<alive, seqNo, callVars, slot, chan, writerVars, tableVars, tasks,
                   tpc, tseq, probes, aborts, inq, outq>>

ReaderUnlinks ==
    /\ rpc = "unlink"
    /\ Forget({rout.seq})
    /\ DropSlots({pending[rout.seq]})
    /\ GoTo("dispatch")
    /\ UNCHANGED <<alive, seqNo, callVars, chan, writerVars, tasks, tickerVars,
                   aborts, inq, outq>>

\* End of a batch: sweep the expired entries, then look at the ticker.
ReaderSweep ==
    /\ rpc = "dispatch"
    /\ Forget(late)
    /\ DropSlots({pending[s] : s \in late})
    /\ GoTo(IF tpc = "gone" THEN "close" ELSE LoopTop)
    /\ UNCHANGED <<alive, seqNo, callVars, chan, writerVars, tasks, tickerVars,
                   aborts, inq, outq>>

\* The tasks whose abort() at teardown still has something to stop.
Running(t) == CASE t = "ticker" -> tpc # "gone" [] t = "writer" -> wpc # "gone"

ReaderCloses ==
    /\ rpc = "close"
    /\ alive' = FALSE
    /\ aborts' = (aborts \ {"reader"}) \cup {t \in {"ticker", "writer"} : Running(t)}
    /\ ReaderEnds
    /\ UNCHANGED <<seqNo, callVars, chan, writerVars, tasks, tickerVars,
                   inq, outq>>

-----------------------------------------------------------------------------
(* SmppClient::stop, time and the peer *)

\* stop() clears the flag and aborts the session task, not writer or ticker.
Stop ==
    /\ MayStop /\ alive /\ rpc # "gone"
    /\ alive' = FALSE
    /\ aborts' = aborts \cup {"reader"}
    /\ UNCHANGED <<seqNo, callVars, slot, chan, writerVars, tableVars, tasks,
                   readerVars, tickerVars, inq, outq>>

ReaderCancelled ==
    /\ "reader" \in aborts
    /\ rpc # "gone"
    /\ ReaderEnds
    /\ aborts' = aborts \ {"reader"}
    /\ UNCHANGED <<alive, seqNo, callVars, chan, writerVars, tasks,
                   tickerVars, inq, outq>>

\* response_timer passes for one pending entry.
Ages(s) ==
    /\ pending[s] # "absent" /\ s \notin late
    /\ late' = late \cup {s}
    /\ UNCHANGED <<alive, seqNo, callVars, slot, chan, writerVars, pending,
                   tasks, readerVars, tickerVars, aborts, inq, outq>>

PeerSends(p) ==
    /\ peer = "up"
    /\ Len(inq) < WireCap
    /\ inq' = Append(inq, p)
    /\ UNCHANGED <<localVars, outq, peer>>

\* The peer reads, one PDU or several.  One that has closed its sending half may
\* still read, and what was on its way to one that is gone is lost.
PeerReceives ==
    /\ \E n \in 1 .. Len(outq) : outq' = SubSeq(outq, n + 1, Len(outq))
    /\ UNCHANGED <<localVars, inq, peer>>

PeerCloses ==
    /\ peer = "up"
    /\ peer' = "gone"
    /\ UNCHANGED <<localVars, inq, outq>>

-----------------------------------------------------------------------------
CallStep(c) == CallBegin(c) \/ CallPanics(c) \/ CallEnqueue(c) \/ CallRefused(c)
                 \/ CallReturns(c) \/ CallTimesOut(c)

WriterStep == WriterTop \/ WriterTake \/ WriterClosed \/ WriterWrites \/ WriterFails
                \/ WriterCancelled

TickerStep == TickerTick \/ TickerSends \/ TickerReceives \/ TickerTimesOut
                \/ TickerCancelled

ReaderStep == ReaderBound \/ ReaderReads \/ ReaderMissesTicker \/ ReaderInactive
                \/ ReaderPanics \/ ReaderEof \/ ReaderStopped \/ ReaderRequest \/ ReaderReply
                \/ ReaderUnbindResp \/ ReaderNack
                \/ ReaderAlert \/ ReaderEnquireLink \/ ReaderUnbind
                \/ ReaderUnsupported \/ ReaderSends \/ ReaderLinkResp
                \/ ReaderForwards \/ ReaderUnlinks \/ ReaderSweep \/ ReaderCloses
                \/ ReaderCancelled

\* The steps of the endpoint; the wires are shared with the peer.
Local ==
    \/ \E c \in Calls : CallStep(c)
    \/ WriterStep \/ TickerStep \/ ReaderStep
    \/ \E i \in 1 .. Len(tasks) : TaskAnswers(i)
    \/ \E s \in Seqs : Ages(s)
    \/ Stop

Environment == (\E p \in PeerPdus : PeerSends(p)) \/ PeerReceives \/ PeerCloses

Next == (Local /\ UNCHANGED peer) \/ Environment

Spec == Init /\ [][Next]_vars

(***************************************************************************)
(* Fairness.  The runtime polls every task that can run and fires every    *)
(* timer, so each task takes a step it can keep taking.  Nothing is assumed*)
(* of the peer, of the application's decision to call, or of response_timer*)
(* of a call: what follows holds without callers being saved by it.        *)
(***************************************************************************)
CallProgress(c) == CallEnqueue(c) \/ CallRefused(c) \/ CallReturns(c)

Fairness ==
    /\ \A c \in Calls : WF_vars(CallProgress(c) /\ UNCHANGED peer)
    /\ WF_vars(WriterStep /\ UNCHANGED peer)
    /\ WF_vars(TickerStep /\ UNCHANGED peer)
    /\ WF_vars(ReaderStep /\ UNCHANGED peer)
    /\ WF_vars((WriterCancelled \/ TickerCancelled \/ ReaderCancelled)
                 /\ UNCHANGED peer)
    /\ WF_vars((\E i \in 1 .. Len(tasks) : TaskAnswers(i)) /\ UNCHANGED peer)

FairSpec == Spec /\ Fairness

\* The connection as the peer sees it: the server's write half shuts the
\* stream down when dropped, the client's two halves share one stream.
HungUp == wpc = "gone" /\ (Role = "server" \/ rpc = "gone")

-----------------------------------------------------------------------------
(* Properties *)

\* Type correctness of the session's state.
TypeOK ==
    /\ alive \in BOOLEAN
    /\ seqNo \in Seqs
    /\ callSt \in [Calls -> {"idle", "sending", "waiting"} \cup Returned]
    /\ callSeq \in [Calls -> Seqs]
    /\ slot \in [Calls -> {"none", "open", "full", "gone"}]
    /\ reply \in [Calls -> Pdus]
    /\ chan \in Seq(Frames) /\ Len(chan) <= ChanCap
    /\ wpc \in {"top", "recv", "write", "gone"}
    /\ wframe \in Seq(Frames) /\ Len(wframe) = IF wpc = "write" THEN 1 ELSE 0
    /\ pending \in [Seqs -> Tags \cup {"absent"}]
    /\ late \subseteq {s \in Seqs : pending[s] # "absent"}
    /\ tasks \in Seq(Pdus)
    /\ rpc \in {"bound", "read", "dispatch", "send", "forward", "unlink", "close",
                "gone"}
    /\ rout \in Pdus
    /\ rthen \in {"dispatch", "close"}
    /\ tpc \in {"wait", "send", "await", "gone"}
    /\ tseq \in Seqs
    /\ linkQ \in Seq(Seqs) /\ Len(linkQ) <= LinkCap
    /\ probes \in 0 .. MaxProbes
    /\ aborts \subseteq {"reader", "writer", "ticker"}
    /\ inq \in Seq(Pdus) /\ outq \in Seq(Pdus)
    /\ Len(inq) <= WireCap /\ Len(outq) <= WireCap
    /\ peer \in {"up", "gone"}

\* Where the oneshot sender of call c is.
InHand(c)     == callSt[c] = "sending" /\ CmdOf[c] # "alert_notification"
QueuedAt(c)   == {i \in 1 .. Len(chan) : chan[i].slot = c}
RegisteredAt(c) == {s \in Seqs : pending[s] = c}

\* Every open oneshot is in exactly one place -- with its caller, in one queued
\* frame, or in one pending_requests entry, which is the entry of the sequence
\* number the call took -- and a used or dropped one is nowhere: no response can
\* complete a call twice and none is left that nobody will ever complete.
OneOwnerPerCall ==
    \A c \in Calls :
      /\ RegisteredAt(c) \subseteq {callSeq[c]}
      /\ \A i, j \in QueuedAt(c) : i = j
      /\ slot[c] = "open" =>
           \/ InHand(c) /\ QueuedAt(c) = {} /\ RegisteredAt(c) = {}
           \/ ~InHand(c) /\ QueuedAt(c) # {} /\ RegisteredAt(c) = {}
           \/ ~InHand(c) /\ QueuedAt(c) = {} /\ RegisteredAt(c) # {}
      /\ slot[c] # "open" =>
           ~InHand(c) /\ QueuedAt(c) = {} /\ RegisteredAt(c) = {}

\* While a request is on the socket and its reply slot is open, pending_requests
\* holds its entry: however fast the peer answers, the read loop finds the call.
RegisteredOnceWritten ==
    \A i \in 1 .. Len(outq) :
      LET c == outq[i].tag IN
      outq[i].cmd \in Requests /\ c \in Calls /\ slot[c] = "open"
        => pending[callSeq[c]] = c

\* What completes a call carries the sequence number the call took, and is a
\* response or a generic_nack, never a request of the peer with that number.
AnswerMatchesCall ==
    \A c \in Calls : slot[c] = "full" =>
      /\ reply[c].seq = callSeq[c]
      /\ OutcomeOf(c) # "nack" => reply[c].cmd \in Responses

\* Once reader and writer have ended, no call waits on a oneshot that is still
\* open: teardown releases every caller without its timer.
NoOrphanAfterTeardown ==
    rpc = "gone" /\ wpc = "gone" =>
      \A c \in Calls : callSt[c] = "waiting" => slot[c] # "open"

\* A call awaited inside the bound callback never gets an answer: the read loop
\* starts only when the callback returns.  src/README.md shows its users that very
\* use ("inside on_smsc_bound(smsc, _): ... .send().await?").
BoundCallNeverAnswered ==
    \A c \in BoundCalls : callSt[c] \notin {"ok", "nack", "wrong"}

\* The reader waits for a channel that cannot drain because the socket is full.
Clogged ==
    /\ Len(chan) = ChanCap /\ wpc = "write" /\ Len(outq) = WireCap
    /\ \/ rpc = "send"
       \/ rpc = "forward" /\ Len(linkQ) = LinkCap /\ tpc = "send"

\* When the session tears down, every call in progress returns even if its own
\* timer never fires: the abort of the writer drops the queued frames and lets
\* go of pending_requests.
TeardownReleasesCalls ==
    "writer" \in aborts ~> \A c \in Calls : callSt[c] \notin {"sending", "waiting"}

\* A peer that falls silent is noticed: the session ends by the enquire_link
\* ticker or by inactivity_timer, unless the reader is stuck behind a channel
\* the peer does not drain.
SilenceEndsSession ==
    (<>[](inq = <<>> /\ ~Clogged)) => <>(rpc = "gone")

\* As SilenceEndsSession, but for every silent peer: "we can always trigger the
\* inactivity timer by keeping track of when the last packet was read".
InactivityAlwaysTriggers ==
    (<>[](inq = <<>>)) => <>(rpc = "gone")

\* After stop(), a teardown or the panic of a bound callback the connection is
\* closed towards the peer, once the application has let go of its handle and
\* unless the writer, which only a teardown aborts, is blocked on a socket the
\* peer does not read.
HangsUp ==
    (~alive \/ rpc = "gone") ~>
      \/ HungUp
      \/ \E c \in Calls : callSt[c] \notin Returned
      \/ wpc = "write" /\ Len(outq) = WireCap
=============================================================================
