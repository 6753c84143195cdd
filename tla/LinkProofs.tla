----------------------------- MODULE LinkProofs -----------------------------
(***************************************************************************)
(* Proofs about Link: a client and a server of this library on one         *)
(* connection, for any calls, channel and wire capacities and numbers of   *)
(* probes.  CP and SP are the two sessions again, with the lemmas of       *)
(* SessionTraffic and SessionProofs.                                       *)
(***************************************************************************)
EXTENDS Link, SequenceTheorems, TLAPS

CP == INSTANCE SessionTraffic WITH
    Role <- "client", Calls <- CCalls, CmdOf <- CCmd, BoundCalls <- {},
    PeerCalls <- SCalls, MaxProbes <- CProbes, MayStop <- FALSE,
    PeerPdus <- LinkPdus, alive <- cAlive,
    seqNo <- cSeqNo, callSt <- cCallSt, callSeq <- cCallSeq, slot <- cSlot,
    reply <- cReply, chan <- cChan, wpc <- cWpc, wframe <- cWframe,
    pending <- cPending, late <- cLate, tasks <- cTasks, rpc <- cRpc,
    rout <- cRout, rthen <- cRthen, tpc <- cTpc, tseq <- cTseq,
    linkQ <- cLinkQ, probes <- cProbes, aborts <- cAborts, inq <- s2c,
    outq <- c2s, peer <- (IF ServerHungUp THEN "gone" ELSE "up")

SP == INSTANCE SessionTraffic WITH
    Role <- "server", Calls <- SCalls, CmdOf <- SCmd, BoundCalls <- {},
    PeerCalls <- CCalls, MaxProbes <- SProbes, MayStop <- FALSE,
    PeerPdus <- LinkPdus, alive <- sAlive,
    seqNo <- sSeqNo, callSt <- sCallSt, callSeq <- sCallSeq, slot <- sSlot,
    reply <- sReply, chan <- sChan, wpc <- sWpc, wframe <- sWframe,
    pending <- sPending, late <- sLate, tasks <- sTasks, rpc <- sRpc,
    rout <- sRout, rthen <- sRthen, tpc <- sTpc, tseq <- sTseq,
    linkQ <- sLinkQ, probes <- sProbes, aborts <- sAborts, inq <- c2s,
    outq <- s2c, peer <- (IF ClientHungUp THEN "gone" ELSE "up")

-----------------------------------------------------------------------------
(* The sessions of Link and of these proofs *)

\* C and CP are instances of the same text.
LEMMA ClientSame == C!Local => CP!Local
  BY ZenonT(400)
     DEF C!Seqs, CP!Seqs, C!callVars, CP!callVars, C!writerVars, CP!writerVars,
         C!readerVars, CP!readerVars, C!tickerVars, CP!tickerVars, C!tableVars,
         CP!tableVars, C!NoPdu, CP!NoPdu, C!Returned, CP!Returned, C!DropSlots,
         CP!DropSlots, C!Held, CP!Held, C!Forget, CP!Forget, C!ChanOpen,
         CP!ChanOpen, C!CanEnqueue, CP!CanEnqueue, C!ReplyFrame, CP!ReplyFrame,
         C!Pdu, CP!Pdu, C!FreedBy, CP!FreedBy, C!NextSeq, CP!NextSeq, C!MayBegin,
         CP!MayBegin, C!CallBegin, CP!CallBegin, C!CallPanics, CP!CallPanics,
         C!RequestFrame, CP!RequestFrame, C!CallEnqueue, CP!CallEnqueue,
         C!CallRefused, CP!CallRefused, C!OutcomeOf, CP!OutcomeOf, C!CallReturns,
         CP!CallReturns, C!CallTimesOut, CP!CallTimesOut, C!WriterEnds,
         CP!WriterEnds, C!WriterTop, CP!WriterTop, C!Register, CP!Register,
         C!WriterTake, CP!WriterTake, C!WriterClosed, CP!WriterClosed,
         C!WriterWrites, CP!WriterWrites, C!WriterFails, CP!WriterFails,
         C!WriterCancelled, CP!WriterCancelled, C!TickerEnds, CP!TickerEnds,
         C!TickerTick, CP!TickerTick, C!ProbeFrame, CP!ProbeFrame, C!TickerSends,
         CP!TickerSends, C!TickerReceives, CP!TickerReceives, C!TickerTimesOut,
         CP!TickerTimesOut, C!TickerCancelled, CP!TickerCancelled, C!TaskAnswers,
         CP!TaskAnswers, C!GoTo, CP!GoTo, C!SendThen, CP!SendThen, C!LoopTop,
         CP!LoopTop, C!ReaderPanics, CP!ReaderPanics, C!ReaderBound,
         CP!ReaderBound, C!ReaderReads, CP!ReaderReads, C!ReaderMissesTicker,
         CP!ReaderMissesTicker, C!ReaderInactive, CP!ReaderInactive, C!ReaderEof,
         CP!ReaderEof, C!ReaderStopped, CP!ReaderStopped, C!Next1, CP!Next1,
         C!ReaderRequest, CP!ReaderRequest, C!Deliver, CP!Deliver, C!Settle,
         CP!Settle, C!ReaderReply, CP!ReaderReply, C!ReaderUnbindResp,
         CP!ReaderUnbindResp, C!ReaderNack, CP!ReaderNack, C!ReaderAlert,
         CP!ReaderAlert, C!ReaderEnquireLink, CP!ReaderEnquireLink, C!ReaderUnbind,
         CP!ReaderUnbind, C!ReaderUnsupported, CP!ReaderUnsupported, C!ReaderSends,
         CP!ReaderSends, C!ReaderLinkResp, CP!ReaderLinkResp, C!ReaderForwards,
         CP!ReaderForwards, C!ReaderUnlinks, CP!ReaderUnlinks, C!ReaderSweep,
         CP!ReaderSweep, C!ReaderEnds, CP!ReaderEnds, C!Running, CP!Running,
         C!ReaderCloses, CP!ReaderCloses, C!Stop, CP!Stop, C!ReaderCancelled,
         CP!ReaderCancelled, C!Ages, CP!Ages, C!CallStep, CP!CallStep, C!WriterStep,
         CP!WriterStep, C!TickerStep, CP!TickerStep, C!ReaderStep, CP!ReaderStep,
         C!Local, CP!Local, C!MaySubmit, CP!MaySubmit, C!MayDeliver, CP!MayDeliver,
         C!RespOf, CP!RespOf, C!Requests, CP!Requests, C!Responses, CP!Responses,
         C!Commands, CP!Commands, C!ClientHandlers, CP!ClientHandlers,
         C!ServerHandlers, CP!ServerHandlers, C!ClientGatedReplies,
         CP!ClientGatedReplies, C!ClientUngatedReplies, CP!ClientUngatedReplies,
         C!ServerReplies, CP!ServerReplies, C!HandlerCmds, CP!HandlerCmds,
         C!ReplyCmds, CP!ReplyCmds, C!CommonCmds, CP!CommonCmds, C!ClientOnlyCmds,
         CP!ClientOnlyCmds, C!Supported, CP!Supported, C!ClientReject,
         CP!ClientReject, C!ServerReject, CP!ServerReject, C!RejectOf, CP!RejectOf,
         C!Allowed, CP!Allowed, C!RemoveAt, CP!RemoveAt

LEMMA ClientSameInit == C!LocalInit => CP!LocalInit
  BY DEF C!LocalInit, CP!LocalInit, C!Seqs, CP!Seqs, C!NoPdu, CP!NoPdu

\* S and SP are instances of the same text.
LEMMA ServerSame == S!Local => SP!Local
  BY ZenonT(400)
     DEF S!Seqs, SP!Seqs, S!callVars, SP!callVars, S!writerVars, SP!writerVars,
         S!readerVars, SP!readerVars, S!tickerVars, SP!tickerVars, S!tableVars,
         SP!tableVars, S!NoPdu, SP!NoPdu, S!Returned, SP!Returned, S!DropSlots,
         SP!DropSlots, S!Held, SP!Held, S!Forget, SP!Forget, S!ChanOpen,
         SP!ChanOpen, S!CanEnqueue, SP!CanEnqueue, S!ReplyFrame, SP!ReplyFrame,
         S!Pdu, SP!Pdu, S!FreedBy, SP!FreedBy, S!NextSeq, SP!NextSeq, S!MayBegin,
         SP!MayBegin, S!CallBegin, SP!CallBegin, S!CallPanics, SP!CallPanics,
         S!RequestFrame, SP!RequestFrame, S!CallEnqueue, SP!CallEnqueue,
         S!CallRefused, SP!CallRefused, S!OutcomeOf, SP!OutcomeOf, S!CallReturns,
         SP!CallReturns, S!CallTimesOut, SP!CallTimesOut, S!WriterEnds,
         SP!WriterEnds, S!WriterTop, SP!WriterTop, S!Register, SP!Register,
         S!WriterTake, SP!WriterTake, S!WriterClosed, SP!WriterClosed,
         S!WriterWrites, SP!WriterWrites, S!WriterFails, SP!WriterFails,
         S!WriterCancelled, SP!WriterCancelled, S!TickerEnds, SP!TickerEnds,
         S!TickerTick, SP!TickerTick, S!ProbeFrame, SP!ProbeFrame, S!TickerSends,
         SP!TickerSends, S!TickerReceives, SP!TickerReceives, S!TickerTimesOut,
         SP!TickerTimesOut, S!TickerCancelled, SP!TickerCancelled, S!TaskAnswers,
         SP!TaskAnswers, S!GoTo, SP!GoTo, S!SendThen, SP!SendThen, S!LoopTop,
         SP!LoopTop, S!ReaderPanics, SP!ReaderPanics, S!ReaderBound,
         SP!ReaderBound, S!ReaderReads, SP!ReaderReads, S!ReaderMissesTicker,
         SP!ReaderMissesTicker, S!ReaderInactive, SP!ReaderInactive, S!ReaderEof,
         SP!ReaderEof, S!ReaderStopped, SP!ReaderStopped, S!Next1, SP!Next1,
         S!ReaderRequest, SP!ReaderRequest, S!Deliver, SP!Deliver, S!Settle,
         SP!Settle, S!ReaderReply, SP!ReaderReply, S!ReaderUnbindResp,
         SP!ReaderUnbindResp, S!ReaderNack, SP!ReaderNack, S!ReaderAlert,
         SP!ReaderAlert, S!ReaderEnquireLink, SP!ReaderEnquireLink, S!ReaderUnbind,
         SP!ReaderUnbind, S!ReaderUnsupported, SP!ReaderUnsupported, S!ReaderSends,
         SP!ReaderSends, S!ReaderLinkResp, SP!ReaderLinkResp, S!ReaderForwards,
         SP!ReaderForwards, S!ReaderUnlinks, SP!ReaderUnlinks, S!ReaderSweep,
         SP!ReaderSweep, S!ReaderEnds, SP!ReaderEnds, S!Running, SP!Running,
         S!ReaderCloses, SP!ReaderCloses, S!Stop, SP!Stop, S!ReaderCancelled,
         SP!ReaderCancelled, S!Ages, SP!Ages, S!CallStep, SP!CallStep, S!WriterStep,
         SP!WriterStep, S!TickerStep, SP!TickerStep, S!ReaderStep, SP!ReaderStep,
         S!Local, SP!Local, S!MaySubmit, SP!MaySubmit, S!MayDeliver, SP!MayDeliver,
         S!RespOf, SP!RespOf, S!Requests, SP!Requests, S!Responses, SP!Responses,
         S!Commands, SP!Commands, S!ClientHandlers, SP!ClientHandlers,
         S!ServerHandlers, SP!ServerHandlers, S!ClientGatedReplies,
         SP!ClientGatedReplies, S!ClientUngatedReplies, SP!ClientUngatedReplies,
         S!ServerReplies, SP!ServerReplies, S!HandlerCmds, SP!HandlerCmds,
         S!ReplyCmds, SP!ReplyCmds, S!CommonCmds, SP!CommonCmds, S!ClientOnlyCmds,
         SP!ClientOnlyCmds, S!Supported, SP!Supported, S!ClientReject,
         SP!ClientReject, S!ServerReject, SP!ServerReject, S!RejectOf, SP!RejectOf,
         S!Allowed, SP!Allowed, S!RemoveAt, SP!RemoveAt

LEMMA ServerSameInit == S!LocalInit => SP!LocalInit
  BY DEF S!LocalInit, SP!LocalInit, S!Seqs, SP!Seqs, S!NoPdu, SP!NoPdu

\* The assumption of Session holds of both sides.
LEMMA ClientAssumption ==
    /\ "client" \in CP!Roles /\ Bind \in CP!Binds
    /\ CCmd \in [CCalls -> CP!Sends("client")]
    /\ {} \subseteq CCalls
    /\ SeqSpace \in Nat \ {0}
    /\ ChanCap \in Nat \ {0} /\ LinkCap \in Nat \ {0} /\ WireCap \in Nat \ {0}
    /\ CProbes \in Nat /\ MaxTasks \in Nat
    /\ FALSE \in BOOLEAN
    /\ LinkPdus \subseteq CP!Pdus
    /\ {"none", "absent"} \cap CCalls = {}
  BY LinkAssumption
  DEF CP!Roles, CP!Binds, Binds, CP!Sends, CP!ClientSends, ClientSends, LinkPdus, CP!Pdus,
      CP!Commands, CP!Requests, CP!Responses, Commands, Requests, Responses, CP!Seqs, CP!Tags

LEMMA ServerAssumption ==
    /\ "server" \in SP!Roles /\ Bind \in SP!Binds
    /\ SCmd \in [SCalls -> SP!Sends("server")]
    /\ {} \subseteq SCalls
    /\ SeqSpace \in Nat \ {0}
    /\ ChanCap \in Nat \ {0} /\ LinkCap \in Nat \ {0} /\ WireCap \in Nat \ {0}
    /\ SProbes \in Nat /\ MaxTasks \in Nat
    /\ FALSE \in BOOLEAN
    /\ LinkPdus \subseteq SP!Pdus
    /\ {"none", "absent"} \cap SCalls = {}
  BY LinkAssumption
  DEF SP!Roles, SP!Binds, Binds, SP!Sends, SP!ServerSends, ServerSends, LinkPdus, SP!Pdus,
      SP!Commands, SP!Requests, SP!Responses, Commands, Requests, Responses, SP!Seqs, SP!Tags

\* A PDU that decodes is one of Link's, on either side.
LEMMA DecodableIsLink == CP!Decodable = LinkPdus /\ SP!Decodable = LinkPdus
  <1>1. CP!Decodable = LinkPdus
    BY DEF CP!Decodable, LinkPdus, CP!Pdus, CP!Commands, CP!Requests, CP!Responses, Commands,
       Requests, Responses, CP!Seqs, CP!Tags
  <1>2. SP!Decodable = LinkPdus
    BY DEF SP!Decodable, LinkPdus, SP!Pdus, SP!Commands, SP!Requests, SP!Responses, Commands,
       Requests, Responses, SP!Seqs, SP!Tags
  <1> QED
    BY <1>1, <1>2

-----------------------------------------------------------------------------
(* Each side is what Session lets a peer be *)

\* What the client does to the wires is, to the server, a step of its peer.
LEMMA ClientIsPeer ==
    ASSUME CP!TypeOK, CP!Traffic(LinkPdus), CP!Quiet \/ CP!Reads \/ CP!Writes, UNCHANGED sVars
    PROVE  [S!Next]_S!vars /\ [SP!Next]_SP!vars
  <1> USE DEF sVars, S!vars, S!localVars, S!callVars, S!writerVars, S!readerVars, S!tickerVars,
              S!tableVars, SP!vars, SP!localVars, SP!callVars, SP!writerVars, SP!readerVars,
              SP!tickerVars, SP!tableVars
  <1>1. ClientHungUp <=> CP!HungUp
    BY DEF ClientHungUp, CP!HungUp
  <1>2. ClientHungUp' <=> CP!HungUp'
    BY DEF ClientHungUp, CP!HungUp
  <1>3. CASE CP!Quiet
    <2>1. CASE ClientHungUp' <=> ClientHungUp
      BY <1>3, <2>1 DEF CP!Quiet
    <2>2. CASE ~ClientHungUp /\ ClientHungUp'
      BY <1>3, <2>2 DEF CP!Quiet, S!Next, S!Environment, S!PeerCloses, SP!Next, SP!Environment,
         SP!PeerCloses
    <2> QED
      BY <1>1, <1>2, <1>3, <2>1, <2>2 DEF CP!Quiet
  <1>4. CASE CP!Reads
    BY <1>1, <1>2, <1>4 DEF CP!Reads, S!Next, S!Environment, S!PeerReceives, SP!Next,
       SP!Environment, SP!PeerReceives
  <1>5. CASE CP!Writes
    <2>1. ~ClientHungUp /\ ~ClientHungUp'
      BY <1>5 DEF CP!Writes, ClientHungUp
    <2>2. cWframe[1].pdu \in LinkPdus
      <3>1. 1 \in 1 .. Len(cWframe)
        BY <1>5 DEF CP!Writes, CP!TypeOK
      <3> QED
        BY <3>1 DEF CP!Traffic, CP!Out, CP!PdusOf
    <2> QED
      BY <1>5, <2>1, <2>2 DEF CP!Writes, S!Next, S!Environment, S!PeerSends, SP!Next,
         SP!Environment, SP!PeerSends
  <1> QED
    BY <1>3, <1>4, <1>5

\* And the other way round.
LEMMA ServerIsPeer ==
    ASSUME SP!TypeOK, SP!Traffic(LinkPdus), SP!Quiet \/ SP!Reads \/ SP!Writes, UNCHANGED cVars
    PROVE  [C!Next]_C!vars /\ [CP!Next]_CP!vars
  <1> USE DEF cVars, C!vars, C!localVars, C!callVars, C!writerVars, C!readerVars, C!tickerVars,
              C!tableVars, CP!vars, CP!localVars, CP!callVars, CP!writerVars, CP!readerVars,
              CP!tickerVars, CP!tableVars
  <1>1. ServerHungUp <=> SP!HungUp
    BY DEF ServerHungUp, SP!HungUp
  <1>2. ServerHungUp' <=> SP!HungUp'
    BY DEF ServerHungUp, SP!HungUp
  <1>3. CASE SP!Quiet
    <2>1. CASE ServerHungUp' <=> ServerHungUp
      BY <1>3, <2>1 DEF SP!Quiet
    <2>2. CASE ~ServerHungUp /\ ServerHungUp'
      BY <1>3, <2>2 DEF SP!Quiet, C!Next, C!Environment, C!PeerCloses, CP!Next, CP!Environment,
         CP!PeerCloses
    <2> QED
      BY <1>1, <1>2, <1>3, <2>1, <2>2 DEF SP!Quiet
  <1>4. CASE SP!Reads
    BY <1>1, <1>2, <1>4 DEF SP!Reads, C!Next, C!Environment, C!PeerReceives, CP!Next,
       CP!Environment, CP!PeerReceives
  <1>5. CASE SP!Writes
    <2>1. ~ServerHungUp /\ ~ServerHungUp'
      BY <1>5 DEF SP!Writes, ServerHungUp
    <2>2. sWframe[1].pdu \in LinkPdus
      <3>1. 1 \in 1 .. Len(sWframe)
        BY <1>5 DEF SP!Writes, SP!TypeOK
      <3> QED
        BY <3>1 DEF SP!Traffic, SP!Out, SP!PdusOf
    <2> QED
      BY <1>5, <2>1, <2>2 DEF SP!Writes, C!Next, C!Environment, C!PeerSends, CP!Next,
         CP!Environment, CP!PeerSends
  <1> QED
    BY <1>3, <1>4, <1>5

-----------------------------------------------------------------------------
(***************************************************************************)
(* The invariant of Session holds on both sides, and what they send each   *)
(* other decodes.  Everything that follows builds on it.                   *)
(***************************************************************************)
LinkInv ==
    /\ CP!Inv /\ SP!Inv
    /\ CP!Traffic(LinkPdus) /\ SP!Traffic(LinkPdus)

LEMMA InitIsInit == Init => C!Init /\ S!Init /\ CP!Init /\ SP!Init
  <1> SUFFICES ASSUME Init PROVE C!Init /\ S!Init /\ CP!Init /\ SP!Init
    OBVIOUS
  <1>1. C!LocalInit /\ S!LocalInit /\ CP!LocalInit /\ SP!LocalInit
    BY ClientSameInit, ServerSameInit DEF Init
  <1>2. ~ServerHungUp /\ ~ClientHungUp
    BY <1>1 DEF C!LocalInit, S!LocalInit, ServerHungUp, ClientHungUp
  <1> QED
    BY <1>1, <1>2 DEF Init, C!Init, S!Init, CP!Init, SP!Init

LEMMA LinkInvInit == Init => LinkInv
  <1> SUFFICES ASSUME Init PROVE LinkInv
    OBVIOUS
  <1>1. CP!Init /\ SP!Init
    BY InitIsInit
  <1>2. CP!Inv /\ CP!Traffic(LinkPdus)
    BY <1>1, ClientAssumption, CP!InvInit, CP!TrafficInit
  <1>3. SP!Inv /\ SP!Traffic(LinkPdus)
    BY <1>1, ServerAssumption, SP!InvInit, SP!TrafficInit
  <1> QED
    BY <1>2, <1>3 DEF LinkInv

\* A step of the client, seen from both sides.
LEMMA ClientStepSeen ==
    ASSUME LinkInv, ClientStep
    PROVE  /\ CP!TypeOK /\ SP!TypeOK /\ CP!Local /\ CP!Next /\ C!Next
           /\ CP!Quiet \/ CP!Reads \/ CP!Writes
           /\ [S!Next]_S!vars /\ [SP!Next]_SP!vars
  <1>1. CP!TypeOK /\ SP!TypeOK
    BY DEF LinkInv, CP!Inv, SP!Inv
  <1>2. C!Local /\ CP!Local /\ UNCHANGED sVars
    BY ClientSame DEF ClientStep
  <1>3. UNCHANGED (IF ServerHungUp THEN "gone" ELSE "up")
    BY <1>2 DEF sVars, ServerHungUp
  <1>4. C!Next /\ CP!Next
    BY <1>2, <1>3 DEF C!Next, CP!Next
  <1>5. CP!Quiet \/ CP!Reads \/ CP!Writes
    BY <1>1, <1>2, ClientAssumption, CP!WiresMove
  <1> QED
    BY <1>1, <1>2, <1>4, <1>5, ClientIsPeer DEF LinkInv

LEMMA ServerStepSeen ==
    ASSUME LinkInv, ServerStep
    PROVE  /\ CP!TypeOK /\ SP!TypeOK /\ SP!Local /\ SP!Next /\ S!Next
           /\ SP!Quiet \/ SP!Reads \/ SP!Writes
           /\ [C!Next]_C!vars /\ [CP!Next]_CP!vars
  <1>1. CP!TypeOK /\ SP!TypeOK
    BY DEF LinkInv, CP!Inv, SP!Inv
  <1>2. S!Local /\ SP!Local /\ UNCHANGED cVars
    BY ServerSame DEF ServerStep
  <1>3. UNCHANGED (IF ClientHungUp THEN "gone" ELSE "up")
    BY <1>2 DEF cVars, ClientHungUp
  <1>4. S!Next /\ SP!Next
    BY <1>2, <1>3 DEF S!Next, SP!Next
  <1>5. SP!Quiet \/ SP!Reads \/ SP!Writes
    BY <1>1, <1>2, ServerAssumption, SP!WiresMove
  <1> QED
    BY <1>1, <1>2, <1>4, <1>5, ServerIsPeer DEF LinkInv

\* What a side reads leaves elements that were on the wire.
LEMMA ClientReads ==
    ASSUME CP!TypeOK, CP!Quiet \/ CP!Reads \/ CP!Writes
    PROVE  SP!Elements(s2c') \subseteq SP!Elements(s2c)
  <1>1. CASE CP!Reads
    <2>1. PICK n \in 1 .. Len(s2c) : s2c' = SubSeq(s2c, n + 1, Len(s2c))
      BY <1>1 DEF CP!Reads
    <2>2. s2c \in Seq(CP!Pdus)
      BY DEF CP!TypeOK
    <2> QED
      BY <2>1, <2>2, ServerAssumption, SP!DropElements
  <1> QED
    BY <1>1 DEF CP!Quiet, CP!Writes

LEMMA ServerReads ==
    ASSUME SP!TypeOK, SP!Quiet \/ SP!Reads \/ SP!Writes
    PROVE  CP!Elements(c2s') \subseteq CP!Elements(c2s)
  <1>1. CASE SP!Reads
    <2>1. PICK n \in 1 .. Len(c2s) : c2s' = SubSeq(c2s, n + 1, Len(c2s))
      BY <1>1 DEF SP!Reads
    <2>2. c2s \in Seq(SP!Pdus)
      BY DEF SP!TypeOK
    <2> QED
      BY <2>1, <2>2, ClientAssumption, CP!DropElements
  <1> QED
    BY <1>1 DEF SP!Quiet, SP!Writes

\* What one side finds on its wire is part of what the other has sent.
LEMMA WireIsTraffic ==
    ASSUME NEW M
    PROVE  /\ SP!Traffic(M) => CP!Elements(s2c) \subseteq M
           /\ CP!Traffic(M) => SP!Elements(c2s) \subseteq M
  BY DEF CP!Traffic, SP!Traffic, CP!Out, SP!Out, CP!Elements, SP!Elements

LEMMA LinkInvNext == LinkInv /\ [Next]_vars => LinkInv'
  <1> SUFFICES ASSUME LinkInv, [Next]_vars PROVE LinkInv'
    OBVIOUS
  <1>1. CASE ClientStep
    <2>1. CP!Inv'
      BY <1>1, ClientStepSeen, ClientAssumption, CP!InvNext DEF LinkInv
    <2>2. SP!Inv'
      BY <1>1, ClientStepSeen, ServerAssumption, SP!InvNext DEF LinkInv
    <2>3. CP!Covers(LinkPdus)
      BY <1>1, ClientStepSeen, WireIsTraffic, DecodableIsLink, ClientAssumption,
         CP!DecodableCovers DEF LinkInv
    <2>4. CP!Traffic(LinkPdus)'
      BY <1>1, <2>3, ClientStepSeen, ClientAssumption, CP!TrafficMoves DEF LinkInv
    <2>5. SP!Traffic(LinkPdus)'
      BY <1>1, ClientStepSeen, ClientReads, ServerAssumption, SP!TrafficStays
      DEF LinkInv, ClientStep, sVars
    <2> QED
      BY <2>1, <2>2, <2>4, <2>5 DEF LinkInv
  <1>2. CASE ServerStep
    <2>1. SP!Inv'
      BY <1>2, ServerStepSeen, ServerAssumption, SP!InvNext DEF LinkInv
    <2>2. CP!Inv'
      BY <1>2, ServerStepSeen, ClientAssumption, CP!InvNext DEF LinkInv
    <2>3. SP!Covers(LinkPdus)
      BY <1>2, ServerStepSeen, WireIsTraffic, DecodableIsLink, ServerAssumption,
         SP!DecodableCovers DEF LinkInv
    <2>4. SP!Traffic(LinkPdus)'
      BY <1>2, <2>3, ServerStepSeen, ServerAssumption, SP!TrafficMoves DEF LinkInv
    <2>5. CP!Traffic(LinkPdus)'
      BY <1>2, ServerStepSeen, ServerReads, ClientAssumption, CP!TrafficStays
      DEF LinkInv, ServerStep, cVars
    <2> QED
      BY <2>1, <2>2, <2>4, <2>5 DEF LinkInv
  <1>3. CASE UNCHANGED vars
    <2>1. UNCHANGED CP!vars /\ UNCHANGED SP!vars
      BY <1>3 DEF vars, cVars, sVars, ServerHungUp, ClientHungUp,
         CP!vars, CP!localVars, CP!callVars, CP!writerVars, CP!readerVars, CP!tickerVars,
         CP!tableVars, SP!vars, SP!localVars, SP!callVars, SP!writerVars, SP!readerVars,
         SP!tickerVars, SP!tableVars
    <2>2. CP!Inv' /\ SP!Inv'
      BY <2>1, ClientAssumption, ServerAssumption, CP!InvNext, SP!InvNext DEF LinkInv
    <2>3. CP!Traffic(LinkPdus)' /\ SP!Traffic(LinkPdus)'
      BY <1>3, ClientAssumption, ServerAssumption, CP!TrafficStays, SP!TrafficStays
      DEF LinkInv, vars, cVars, sVars
    <2> QED
      BY <2>2, <2>3 DEF LinkInv
  <1> QED
    BY <1>1, <1>2, <1>3 DEF Next

LEMMA LinkInvHolds == Spec => []LinkInv
  BY LinkInvInit, LinkInvNext, PTL DEF Spec

\* A client and a server of this library on one connection implement Session on
\* each side: the wires, the hang-ups and the PDUs the other side produces are
\* all among those a Session is proved to cope with.
THEOREM LinkImplementsSessions == Spec => SidesAreSessions
  <1>1. Init => C!Init /\ S!Init
    BY InitIsInit
  <1>2. ASSUME LinkInv, [Next]_vars PROVE [C!Next]_C!vars /\ [S!Next]_S!vars
    <2>1. CASE ClientStep
      BY <1>2, <2>1, ClientStepSeen
    <2>2. CASE ServerStep
      BY <1>2, <2>2, ServerStepSeen
    <2>3. CASE UNCHANGED vars
      BY <2>3 DEF vars, cVars, sVars, ServerHungUp, ClientHungUp,
         C!vars, C!localVars, C!callVars, C!writerVars, C!readerVars, C!tickerVars,
         C!tableVars, S!vars, S!localVars, S!callVars, S!writerVars, S!readerVars,
         S!tickerVars, S!tableVars
    <2> QED
      BY <1>2, <2>1, <2>2, <2>3 DEF Next
  <1> QED
    BY <1>1, <1>2, LinkInvHolds, PTL DEF Spec, SidesAreSessions, C!Spec, S!Spec

\* So the results about Session hold of both sides of a connection at once: each
\* oneshot has one owner, requests are registered before they can be answered,
\* answers match by number, and teardown leaves no caller behind.
THEOREM SessionsStaySound ==
    Spec => [](/\ C!OneOwnerPerCall /\ S!OneOwnerPerCall
               /\ C!RegisteredOnceWritten /\ S!RegisteredOnceWritten
               /\ C!AnswerMatchesCall /\ S!AnswerMatchesCall
               /\ C!NoOrphanAfterTeardown /\ S!NoOrphanAfterTeardown)
  <1>1. LinkInv => /\ C!OneOwnerPerCall /\ C!RegisteredOnceWritten
                   /\ C!AnswerMatchesCall /\ C!NoOrphanAfterTeardown
    <2> SUFFICES ASSUME LinkInv
                 PROVE  /\ C!OneOwnerPerCall /\ C!RegisteredOnceWritten
                        /\ C!AnswerMatchesCall /\ C!NoOrphanAfterTeardown
      OBVIOUS
    <2>1. /\ CP!OneOwnerPerCall /\ CP!RegisteredOnceWritten
          /\ CP!AnswerMatchesCall /\ CP!NoOrphanAfterTeardown
      BY ClientAssumption, CP!InvImplies DEF LinkInv
    <2>2. C!OneOwnerPerCall
      BY <2>1 DEF C!OneOwnerPerCall, CP!OneOwnerPerCall, C!InHand, CP!InHand, C!QueuedAt,
         CP!QueuedAt, C!RegisteredAt, CP!RegisteredAt, C!Seqs, CP!Seqs
    <2>3. C!RegisteredOnceWritten /\ C!NoOrphanAfterTeardown
      BY <2>1 DEF C!RegisteredOnceWritten, CP!RegisteredOnceWritten, C!Requests, CP!Requests,
         C!NoOrphanAfterTeardown, CP!NoOrphanAfterTeardown
    <2>4. C!AnswerMatchesCall
      BY <2>1 DEF C!AnswerMatchesCall, CP!AnswerMatchesCall, C!OutcomeOf, CP!OutcomeOf,
         C!Responses, CP!Responses, C!RespOf, CP!RespOf
    <2> QED
      BY <2>2, <2>3, <2>4
  <1>2. LinkInv => /\ S!OneOwnerPerCall /\ S!RegisteredOnceWritten
                   /\ S!AnswerMatchesCall /\ S!NoOrphanAfterTeardown
    <2> SUFFICES ASSUME LinkInv
                 PROVE  /\ S!OneOwnerPerCall /\ S!RegisteredOnceWritten
                        /\ S!AnswerMatchesCall /\ S!NoOrphanAfterTeardown
      OBVIOUS
    <2>1. /\ SP!OneOwnerPerCall /\ SP!RegisteredOnceWritten
          /\ SP!AnswerMatchesCall /\ SP!NoOrphanAfterTeardown
      BY ServerAssumption, SP!InvImplies DEF LinkInv
    <2>2. S!OneOwnerPerCall
      BY <2>1 DEF S!OneOwnerPerCall, SP!OneOwnerPerCall, S!InHand, SP!InHand, S!QueuedAt,
         SP!QueuedAt, S!RegisteredAt, SP!RegisteredAt, S!Seqs, SP!Seqs
    <2>3. S!RegisteredOnceWritten /\ S!NoOrphanAfterTeardown
      BY <2>1 DEF S!RegisteredOnceWritten, SP!RegisteredOnceWritten, S!Requests, SP!Requests,
         S!NoOrphanAfterTeardown, SP!NoOrphanAfterTeardown
    <2>4. S!AnswerMatchesCall
      BY <2>1 DEF S!AnswerMatchesCall, SP!AnswerMatchesCall, S!OutcomeOf, SP!OutcomeOf,
         S!Responses, SP!Responses, S!RespOf, SP!RespOf
    <2> QED
      BY <2>2, <2>3, <2>4
  <1> QED
    BY <1>1, <1>2, LinkInvHolds, PTL

-----------------------------------------------------------------------------
(***************************************************************************)
(* Unbind.  The server puts unbind_resp on its way out only as it leaves   *)
(* its loop, so as long as it has not left, there is none on the way, none *)
(* in a oneshot of the client, and no unbind of the client has succeeded.  *)
(***************************************************************************)
NotUnbound ==
    /\ \A p \in SP!Out : p.cmd # "unbind_resp"
    /\ \A c \in CCalls : cSlot[c] = "full" => cReply[c].cmd # "unbind_resp"
    /\ \A c \in CCalls : CCmd[c] = "unbind" => cCallSt[c] # "ok"

UnbindInv ==
    /\ \A p \in SP!Elements(sTasks) : p.cmd # "unbind_resp"
    /\ sRpc = "send" /\ sRout.cmd = "unbind_resp" => sRthen = "close"
    /\ sRpc \notin {"close", "gone"} => NotUnbound

LEMMA UnbindInit == Init => UnbindInv
  <1> SUFFICES ASSUME Init PROVE UnbindInv
    OBVIOUS
  <1>1. C!LocalInit /\ S!LocalInit /\ s2c = <<>>
    BY DEF Init
  <1> QED
    BY <1>1 DEF C!LocalInit, S!LocalInit, UnbindInv, NotUnbound, SP!Out, SP!PdusOf, SP!Elements

\* The client passes on only what came over the wire.
LEMMA UnbindClient ==
    ASSUME LinkInv, UnbindInv, ClientStep
    PROVE  UnbindInv'
  <1>1. CP!TypeOK /\ CP!Local /\ UNCHANGED sVars
    BY ClientStepSeen DEF ClientStep
  <1>2. SP!Out' \subseteq SP!Out
    <2>1. SP!Elements(s2c') \subseteq SP!Elements(s2c)
      BY ClientStepSeen, ClientReads
    <2> QED
      BY <1>1, <2>1 DEF SP!Out, sVars
  <1>3. ASSUME NotUnbound PROVE NotUnbound'
    <2>1. ASSUME NEW c \in CCalls, cSlot'[c] = "full" PROVE cReply'[c].cmd # "unbind_resp"
      <3>1. CASE cSlot[c] = "full" /\ cReply'[c] = cReply[c]
        BY <1>3, <3>1 DEF NotUnbound
      <3>2. CASE \E p \in CP!Elements(s2c) : cReply'[c] = p
        BY <1>3, <3>2 DEF NotUnbound, SP!Out, SP!Elements, CP!Elements
      <3> QED
        BY <1>1, <2>1, <3>1, <3>2, ClientAssumption, CP!ReplyMoves
    <2>2. ASSUME NEW c \in CCalls, CCmd[c] = "unbind", cCallSt'[c] = "ok" PROVE FALSE
      <3>1. cCallSt[c] = "ok" \/ (cSlot[c] = "full" /\ cReply[c].cmd = CP!RespOf[CCmd[c]])
        BY <1>1, <2>2, ClientAssumption, CP!OkMoves
      <3> QED
        BY <1>3, <2>2, <3>1 DEF NotUnbound, CP!RespOf
    <2> QED
      BY <1>2, <1>3, <2>1, <2>2 DEF NotUnbound
  <1> QED
    BY <1>1, <1>3 DEF UnbindInv, sVars

\* The server answers an unbind on its way out, and nothing else so.
LEMMA UnbindServer ==
    ASSUME LinkInv, UnbindInv, ServerStep
    PROVE  UnbindInv'
  <1>1. SP!TypeOK /\ SP!Local /\ UNCHANGED cVars
    BY ServerStepSeen DEF ServerStep
  <1>2. \A p \in SP!Elements(sTasks') : p.cmd # "unbind_resp"
    <2>1. \A p : SP!Handled(p) => SP!Pdu(SP!RespOf[p.cmd], p).cmd # "unbind_resp"
      BY LinkAssumption DEF SP!Handled, SP!Pdu, SP!RespOf, SP!HandlerCmds, SP!ServerHandlers
    <2> QED
      BY <1>1, <2>1, ServerAssumption, SP!TaskMoves DEF UnbindInv
  <1>3. sRpc' = "send" /\ sRout'.cmd = "unbind_resp" => sRthen' = "close"
    <2>1. \A p \in SP!Elements(c2s) : p.good
      BY WireIsTraffic DEF LinkInv, LinkPdus
    <2> SUFFICES ASSUME sRpc' = "send" PROVE sRout'.cmd = "unbind_resp" => sRthen' = "close"
      OBVIOUS
    <2>2. \/ sRpc = "send" /\ UNCHANGED <<sRout, sRthen>>
          \/ \E p \in SP!Elements(c2s) : SP!LoopAnswers(p, sRout', sRthen')
      BY <1>1, <2>1, ServerAssumption, SP!LoopMoves
    <2> QED
      BY <2>2 DEF UnbindInv, SP!LoopAnswers, SP!Pdu
  <1>4. ASSUME sRpc' \notin {"close", "gone"} PROVE NotUnbound'
    <2>1. sRpc \notin {"close", "gone"}
      BY <1>1, <1>4, ServerAssumption, SP!EndStays
    <2>2. \A p \in SP!Asking : p.cmd # "unbind_resp"
      <3>1. \A c \in SCalls : SCmd[c] # "unbind_resp"
        BY LinkAssumption DEF ServerSends
      <3> QED
        BY <3>1 DEF SP!Asking, SP!RequestFrame, SP!ProbeFrame
    <2>3. \A p \in SP!Out' : p.cmd # "unbind_resp"
      BY <1>1, <1>4, <2>1, <2>2, ServerAssumption, SP!OutMoves DEF UnbindInv, NotUnbound, SP!Sends1
    <2> QED
      BY <1>1, <2>1, <2>3 DEF UnbindInv, NotUnbound, cVars
  <1> QED
    BY <1>2, <1>3, <1>4 DEF UnbindInv

\* When a client's unbind has been accepted, the server is on its way out as well,
\* whatever else the two sides were doing.
THEOREM UnbindIsAgreed == Spec => []UnbindAgreed
  <1>1. LinkInv /\ UnbindInv /\ [Next]_vars => UnbindInv'
    <2> SUFFICES ASSUME LinkInv, UnbindInv, [Next]_vars PROVE UnbindInv'
      OBVIOUS
    <2>1. CASE UNCHANGED vars
      BY <2>1 DEF vars, cVars, sVars, UnbindInv, NotUnbound, SP!Out
    <2> QED
      BY <2>1, UnbindClient, UnbindServer DEF Next
  <1>2. UnbindInv => UnbindAgreed
    BY DEF UnbindInv, NotUnbound, UnbindAgreed
  <1> QED
    BY <1>1, <1>2, UnbindInit, LinkInvHolds, PTL DEF Spec

-----------------------------------------------------------------------------
(***************************************************************************)
(* Who says what.  Where the server dispatches the answers to its own      *)
(* requests, every PDU on its way is the request of a call, the answer to  *)
(* one, a probe or the answer to a probe, with the number its call drew.   *)
(***************************************************************************)

\* The server has a branch for the answer to every request its calls can send:
\* true on a bind that may submit, as long as no call of the server is unbind.
AnswersDispatched ==
    \A c \in SCalls :
      Allowed("server", Bind, SCmd[c]) /\ SCmd[c] # "alert_notification"
        => RespOf[SCmd[c]] \in Supported("server", Bind)

ProbePdus == {p \in LinkPdus : p.tag = "none" /\ p.cmd \in {"enquire_link", "enquire_link_resp"}}

ClientAsks == {p \in LinkPdus : /\ p.tag \in CCalls /\ CP!Begun(p.tag)
                                /\ p.cmd = CCmd[p.tag] /\ p.seq = cCallSeq[p.tag]}
ServerAsks == {p \in LinkPdus : /\ p.tag \in SCalls /\ SP!Begun(p.tag)
                                /\ p.cmd = SCmd[p.tag] /\ p.seq = sCallSeq[p.tag]}

ClientAnswers == {p \in LinkPdus : /\ p.tag \in SCalls /\ SP!Begun(p.tag)
                                   /\ SCmd[p.tag] # "alert_notification"
                                   /\ p.cmd = RespOf[SCmd[p.tag]] /\ p.seq = sCallSeq[p.tag]}
ServerAnswers == {p \in LinkPdus : /\ p.tag \in CCalls /\ CP!Begun(p.tag)
                                   /\ p.cmd = RespOf[CCmd[p.tag]] /\ p.seq = cCallSeq[p.tag]}

ClientSays == ClientAsks \cup ClientAnswers \cup ProbePdus
ServerSays == ServerAsks \cup ServerAnswers \cup ProbePdus

SaysInv ==
    /\ CP!Traffic(ClientSays) /\ SP!Traffic(ServerSays)
    /\ \A c \in CCalls : CP!Begun(c) => Allowed("client", Bind, CCmd[c])
    /\ \A c \in SCalls : SP!Begun(c) => Allowed("server", Bind, SCmd[c])

LEMMA SaysInit == Init => SaysInv
  <1> SUFFICES ASSUME Init PROVE SaysInv
    OBVIOUS
  <1>1. CP!Init /\ SP!Init
    BY InitIsInit
  <1>2. CP!Traffic(ClientSays) /\ SP!Traffic(ServerSays)
    <2>1. PICK M, N : M = ClientSays /\ N = ServerSays
      OBVIOUS
    <2> QED
      BY <1>1, <2>1, ClientAssumption, ServerAssumption, CP!TrafficInit, SP!TrafficInit
  <1>3. \A c \in CCalls : ~CP!Begun(c)
    BY <1>1 DEF CP!Init, CP!LocalInit, CP!Begun
  <1>4. \A c \in SCalls : ~SP!Begun(c)
    BY <1>1 DEF SP!Init, SP!LocalInit, SP!Begun
  <1> QED
    BY <1>2, <1>3, <1>4 DEF SaysInv

\* The client answers what the server says, and only as an answer.
LEMMA ClientCovers ==
    ASSUME LinkInv, SaysInv, AnswersDispatched
    PROVE  CP!Covers(ClientSays)
  <1> USE LinkAssumption
  <1>1. CP!TypeOK
    BY DEF LinkInv, CP!Inv
  <1>2. CP!Asking \subseteq ClientSays
    <2>1. CP!Asking \subseteq LinkPdus
      BY <1>1, WireIsTraffic, DecodableIsLink, ClientAssumption, CP!DecodableCovers
      DEF LinkInv, CP!Covers
    <2>2. ASSUME NEW c \in CCalls, cCallSt[c] = "sending", CP!RequestFrame(c).pdu \in LinkPdus
          PROVE  CP!RequestFrame(c).pdu \in ClientSays
      BY <2>2 DEF CP!RequestFrame, ClientSays, ClientAsks, CP!Begun
    <2>3. CP!ProbeFrame.pdu \in LinkPdus => CP!ProbeFrame.pdu \in ClientSays
      BY DEF CP!ProbeFrame, ClientSays, ProbePdus
    <2> QED
      BY <2>1, <2>2, <2>3 DEF CP!Asking
  <1>3. ASSUME NEW p \in CP!Elements(s2c), NEW cmd \in Commands
        PROVE  p \in ServerSays /\ p.good /\ CP!Pdu(cmd, p) \in LinkPdus
    <2>1. p \in ServerSays /\ p \in LinkPdus
      BY WireIsTraffic DEF SaysInv, LinkInv, SP!Traffic, SP!Out, SP!Elements, CP!Elements
    <2> QED
      BY <2>1 DEF LinkPdus, CP!Pdu
  <1>4. ASSUME NEW p \in CP!Elements(s2c), CP!Handled(p)
        PROVE  CP!Pdu(CP!RespOf[p.cmd], p) \in ClientSays
    <2>1. p.cmd \in {"deliver_sm", "data_sm"}
      BY <1>4 DEF CP!Handled, CP!HandlerCmds, CP!ClientHandlers
    <2>2. p \in ServerAsks
      BY <1>3, <2>1 DEF ServerSays, ServerAnswers, ProbePdus, ClientSends, RespOf, Commands
    <2>3. CP!RespOf[p.cmd] = RespOf[p.cmd] /\ RespOf[p.cmd] \in Commands
      BY <2>1 DEF CP!RespOf, RespOf, Commands, Responses
    <2> QED
      BY <1>3, <2>1, <2>2, <2>3 DEF ServerAsks, ClientSays, ClientAnswers, CP!Pdu
  <1>5. ASSUME NEW p \in CP!Elements(s2c), NEW a, NEW then, CP!LoopAnswers(p, a, then)
        PROVE  a \in ClientSays
    <2>1. CASE p.cmd = "enquire_link" /\ a = CP!Pdu("enquire_link_resp", p)
      <3>1. p \in ProbePdus
        BY <1>3, <2>1 DEF ServerSays, ServerAsks, ServerAnswers, ServerSends, ClientSends, RespOf,
           Commands
      <3> QED
        BY <1>3, <2>1, <3>1 DEF ProbePdus, ClientSays, CP!Pdu, Commands, Responses
    <2>2. CASE p.cmd = "unbind" /\ a = CP!Pdu("unbind_resp", p)
      <3>1. p \in ServerAsks
        BY <1>3, <2>2 DEF ServerSays, ServerAnswers, ProbePdus, ClientSends, RespOf, Commands
      <3> QED
        BY <1>3, <2>2, <3>1 DEF ServerAsks, ClientSays, ClientAnswers, CP!Pdu, Commands,
           Responses, RespOf
    <2>3. p.cmd \in CP!Supported("client", Bind)
      <3>1. CASE p \in ServerAsks
        <4>1. SCmd[p.tag] \in ServerSends /\ Allowed("server", Bind, SCmd[p.tag])
          BY <3>1 DEF ServerAsks, SaysInv
        <4> QED
          BY <3>1, <4>1 DEF ServerAsks, ServerSends, Allowed, MayDeliver, CP!Supported,
             CP!HandlerCmds, CP!ClientHandlers, CP!MayDeliver, CP!CommonCmds, CP!ClientOnlyCmds
      <3>2. CASE p \in ServerAnswers
        <4>1. CCmd[p.tag] \in ClientSends /\ Allowed("client", Bind, CCmd[p.tag])
          BY <3>2 DEF ServerAnswers, SaysInv
        <4> QED
          BY <3>2, <4>1 DEF ServerAnswers, ClientSends, Allowed, MaySubmit, CP!Supported,
             CP!ReplyCmds, CP!ClientGatedReplies, CP!ClientUngatedReplies, CP!MaySubmit,
             CP!ClientOnlyCmds, RespOf
      <3>3. CASE p \in ProbePdus
        BY <3>3 DEF ProbePdus, CP!Supported, CP!CommonCmds
      <3> QED
        BY <1>3, <3>1, <3>2, <3>3 DEF ServerSays, Commands
    <2> QED
      BY <1>5, <2>1, <2>2, <2>3 DEF CP!LoopAnswers
  <1> QED
    BY <1>2, <1>3, <1>4, <1>5 DEF CP!Covers, Commands

\* The server answers what the client says, and refuses none of it.
LEMMA ServerCovers ==
    ASSUME LinkInv, SaysInv, AnswersDispatched
    PROVE  SP!Covers(ServerSays)
  <1> USE LinkAssumption
  <1>1. SP!TypeOK
    BY DEF LinkInv, SP!Inv
  <1>2. SP!Asking \subseteq ServerSays
    <2>1. SP!Asking \subseteq LinkPdus
      BY <1>1, WireIsTraffic, DecodableIsLink, ServerAssumption, SP!DecodableCovers
      DEF LinkInv, SP!Covers
    <2>2. ASSUME NEW c \in SCalls, sCallSt[c] = "sending", SP!RequestFrame(c).pdu \in LinkPdus
          PROVE  SP!RequestFrame(c).pdu \in ServerSays
      BY <2>2 DEF SP!RequestFrame, ServerSays, ServerAsks, SP!Begun
    <2>3. SP!ProbeFrame.pdu \in LinkPdus => SP!ProbeFrame.pdu \in ServerSays
      BY DEF SP!ProbeFrame, ServerSays, ProbePdus
    <2> QED
      BY <2>1, <2>2, <2>3 DEF SP!Asking
  <1>3. ASSUME NEW p \in SP!Elements(c2s), NEW cmd \in Commands
        PROVE  p \in ClientSays /\ p.good /\ SP!Pdu(cmd, p) \in LinkPdus
    <2>1. p \in ClientSays /\ p \in LinkPdus
      BY WireIsTraffic DEF SaysInv, LinkInv, CP!Traffic, CP!Out, CP!Elements, SP!Elements
    <2> QED
      BY <2>1 DEF LinkPdus, SP!Pdu
  <1>4. ASSUME NEW p \in SP!Elements(c2s), SP!Handled(p)
        PROVE  SP!Pdu(SP!RespOf[p.cmd], p) \in ServerSays
    <2>1. p.cmd \in {"submit_sm", "submit_multi", "cancel_sm", "query_sm", "replace_sm", "data_sm"}
      BY <1>4 DEF SP!Handled, SP!HandlerCmds, SP!ServerHandlers
    <2>2. p \in ClientAsks
      BY <1>3, <2>1 DEF ClientSays, ClientAnswers, ProbePdus, ServerSends, RespOf, Commands
    <2>3. SP!RespOf[p.cmd] = RespOf[p.cmd] /\ RespOf[p.cmd] \in Commands
      BY <2>1 DEF SP!RespOf, RespOf, Commands, Responses
    <2> QED
      BY <1>3, <2>2, <2>3 DEF ClientAsks, ServerSays, ServerAnswers, SP!Pdu
  <1>5. ASSUME NEW p \in SP!Elements(c2s), NEW a, NEW then, SP!LoopAnswers(p, a, then)
        PROVE  a \in ServerSays
    <2>1. CASE p.cmd = "enquire_link" /\ a = SP!Pdu("enquire_link_resp", p)
      <3>1. p \in ProbePdus
        BY <1>3, <2>1 DEF ClientSays, ClientAsks, ClientAnswers, ServerSends, ClientSends, RespOf,
           Commands
      <3> QED
        BY <1>3, <2>1, <3>1 DEF ProbePdus, ServerSays, SP!Pdu, Commands, Responses
    <2>2. CASE p.cmd = "unbind" /\ a = SP!Pdu("unbind_resp", p)
      <3>1. p \in ClientAsks
        BY <1>3, <2>2 DEF ClientSays, ClientAnswers, ProbePdus, ServerSends, RespOf, Commands
      <3> QED
        BY <1>3, <2>2, <3>1 DEF ClientAsks, ServerSays, ServerAnswers, SP!Pdu, Commands,
           Responses, RespOf
    <2>3. p.cmd \in SP!Supported("server", Bind)
      <3>1. CASE p \in ClientAsks
        <4>1. CCmd[p.tag] \in ClientSends /\ Allowed("client", Bind, CCmd[p.tag])
          BY <3>1 DEF ClientAsks, SaysInv
        <4> QED
          BY <3>1, <4>1 DEF ClientAsks, ClientSends, Allowed, MaySubmit, SP!Supported,
             SP!HandlerCmds, SP!ServerHandlers, SP!MaySubmit, SP!CommonCmds
      <3>2. CASE p \in ClientAnswers
        <4>1. RespOf[SCmd[p.tag]] \in Supported("server", Bind)
          BY <3>2 DEF ClientAnswers, SaysInv, AnswersDispatched
        <4> QED
          BY <3>2, <4>1 DEF ClientAnswers, Supported, SP!Supported, HandlerCmds, SP!HandlerCmds,
             ServerHandlers, SP!ServerHandlers, MaySubmit, SP!MaySubmit, ReplyCmds, SP!ReplyCmds,
             ServerReplies, SP!ServerReplies, CommonCmds, SP!CommonCmds
      <3>3. CASE p \in ProbePdus
        BY <3>3 DEF ProbePdus, SP!Supported, SP!CommonCmds
      <3> QED
        BY <1>3, <3>1, <3>2, <3>3 DEF ClientSays, Commands
    <2> QED
      BY <1>5, <2>1, <2>2, <2>3 DEF SP!LoopAnswers
  <1> QED
    BY <1>2, <1>3, <1>4, <1>5 DEF SP!Covers, Commands

\* What has been said stays said: a call keeps the number it drew.
LEMMA SaysGrows ==
    ASSUME \A c \in CCalls : CP!Begun(c) => CP!Begun(c)' /\ cCallSeq'[c] = cCallSeq[c],
           \A c \in SCalls : SP!Begun(c) => SP!Begun(c)' /\ sCallSeq'[c] = sCallSeq[c],
           NEW M, M = ClientSays, NEW N, N = ServerSays
    PROVE  M \subseteq ClientSays' /\ N \subseteq ServerSays'
  <1>1. M \subseteq ClientSays'
    BY DEF ClientSays, ClientAsks, ClientAnswers
  <1>2. N \subseteq ServerSays'
    BY DEF ServerSays, ServerAsks, ServerAnswers
  <1> QED
    BY <1>1, <1>2

LEMMA SaysNext ==
    ASSUME LinkInv, SaysInv, AnswersDispatched, [Next]_vars
    PROVE  SaysInv'
  <1>0. PICK M, N : M = ClientSays /\ N = ServerSays
    OBVIOUS
  <1>1. CP!Traffic(M) /\ SP!Traffic(N) /\ CP!Covers(M) /\ SP!Covers(N)
    BY <1>0, ClientCovers, ServerCovers DEF SaysInv
  <1>2. CASE ClientStep
    <2>1. CP!TypeOK /\ CP!Local /\ UNCHANGED sVars
      BY <1>2, ClientStepSeen DEF ClientStep
    <2>2. CP!Traffic(M)'
      BY <1>1, <2>1, ClientAssumption, CP!TrafficMoves
    <2>3. SP!Traffic(N)'
      BY <1>1, <1>2, <2>1, ClientStepSeen, ClientReads, ServerAssumption, SP!TrafficStays DEF sVars
    <2>4. \A c \in CCalls : /\ CP!Begun(c) => CP!Begun(c)' /\ cCallSeq'[c] = cCallSeq[c]
                            /\ ~CP!Begun(c) /\ CP!Begun(c)' => CP!Allowed("client", Bind, CCmd[c])
      BY <2>1, ClientAssumption, CP!BeginMoves
    <2>5. \A c \in SCalls : (SP!Begun(c)' <=> SP!Begun(c)) /\ sCallSeq'[c] = sCallSeq[c]
      BY <2>1 DEF SP!Begun, sVars
    <2>6. M \subseteq ClientSays' /\ N \subseteq ServerSays'
      BY <1>0, <2>4, <2>5, SaysGrows
    <2>7. CP!Traffic(ClientSays)' /\ SP!Traffic(ServerSays)'
      BY <2>2, <2>3, <2>6 DEF CP!Traffic, SP!Traffic
    <2>8. \A c \in CCalls : CP!Allowed("client", Bind, CCmd[c]) => Allowed("client", Bind, CCmd[c])
      BY DEF CP!Allowed, Allowed, CP!MaySubmit, MaySubmit
    <2> QED
      BY <2>4, <2>5, <2>7, <2>8 DEF SaysInv
  <1>3. CASE ServerStep
    <2>1. SP!TypeOK /\ SP!Local /\ UNCHANGED cVars
      BY <1>3, ServerStepSeen DEF ServerStep
    <2>2. SP!Traffic(N)'
      BY <1>1, <2>1, ServerAssumption, SP!TrafficMoves
    <2>3. CP!Traffic(M)'
      BY <1>1, <1>3, <2>1, ServerStepSeen, ServerReads, ClientAssumption, CP!TrafficStays DEF cVars
    <2>4. \A c \in SCalls : /\ SP!Begun(c) => SP!Begun(c)' /\ sCallSeq'[c] = sCallSeq[c]
                            /\ ~SP!Begun(c) /\ SP!Begun(c)' => SP!Allowed("server", Bind, SCmd[c])
      BY <2>1, ServerAssumption, SP!BeginMoves
    <2>5. \A c \in CCalls : (CP!Begun(c)' <=> CP!Begun(c)) /\ cCallSeq'[c] = cCallSeq[c]
      BY <2>1 DEF CP!Begun, cVars
    <2>6. M \subseteq ClientSays' /\ N \subseteq ServerSays'
      BY <1>0, <2>4, <2>5, SaysGrows
    <2>7. CP!Traffic(ClientSays)' /\ SP!Traffic(ServerSays)'
      BY <2>2, <2>3, <2>6 DEF CP!Traffic, SP!Traffic
    <2>8. \A c \in SCalls : SP!Allowed("server", Bind, SCmd[c]) => Allowed("server", Bind, SCmd[c])
      BY DEF SP!Allowed, Allowed, SP!MayDeliver, MayDeliver
    <2> QED
      BY <2>4, <2>5, <2>7, <2>8 DEF SaysInv
  <1>4. CASE UNCHANGED vars
    BY <1>4 DEF vars, cVars, sVars, SaysInv, CP!Traffic, SP!Traffic, CP!Out, SP!Out, CP!Begun,
       SP!Begun, ClientSays, ServerSays, ClientAsks, ServerAsks, ClientAnswers, ServerAnswers
  <1> QED
    BY <1>2, <1>3, <1>4 DEF Next

LEMMA SaysHolds ==
    ASSUME AnswersDispatched
    PROVE  Spec => []SaysInv
  BY SaysInit, SaysNext, LinkInvHolds, PTL DEF Spec

\* Neither side ever refuses an answer to its own request, whatever is in flight
\* at the same time, provided only that the server's table has a branch for the
\* answers it asks for.  (On an RX bind it has none for deliver_sm_resp.)
THEOREM AnswersAreAccepted ==
    ASSUME AnswersDispatched
    PROVE  Spec => []NoAnswerRefused
  <1>1. ASSUME SaysInv PROVE NoAnswerRefused
    <2>1. \A p \in ClientSays : p.cmd # "generic_nack"
      BY LinkAssumption DEF ClientSays, ClientAsks, ClientAnswers, ProbePdus, ClientSends,
         ServerSends, RespOf
    <2>2. \A p \in ServerSays : p.cmd # "generic_nack"
      BY LinkAssumption DEF ServerSays, ServerAsks, ServerAnswers, ProbePdus, ClientSends,
         ServerSends, RespOf
    <2>3. \A i \in 1 .. Len(c2s) : c2s[i] \in ClientSays
      BY <1>1, WireIsTraffic DEF SaysInv, SP!Elements
    <2>4. \A i \in 1 .. Len(s2c) : s2c[i] \in ServerSays
      BY <1>1, WireIsTraffic DEF SaysInv, CP!Elements
    <2> QED
      BY <2>1, <2>2, <2>3, <2>4 DEF NoAnswerRefused
  <1> QED
    BY <1>1, SaysHolds, PTL

-----------------------------------------------------------------------------
(***************************************************************************)
(* Answers and calls.  While the numbers last, two calls of a side never   *)
(* have the same one, so the entry an answer finds is that of its call.    *)
(***************************************************************************)
\* What completes a call of the client is the server's answer to that call.
LEMMA OwnAnswerClient ==
    ASSUME LinkInv, SaysInv, AnswerIsForThisCall, CP!Distinct, ClientStep
    PROVE  AnswerIsForThisCall'
  <1>1. CP!TypeOK /\ CP!Local /\ UNCHANGED sVars
    BY ClientStepSeen DEF ClientStep
  <1>2. ASSUME NEW c \in CCalls, cSlot'[c] = "full" PROVE cReply'[c].tag = c
    <2>1. CASE cSlot[c] = "full" /\ cReply'[c] = cReply[c]
      BY <2>1 DEF AnswerIsForThisCall
    <2>2. ASSUME NEW p \in CP!Elements(s2c), cReply'[c] = p, cPending[p.seq] = c, CP!Settles(p)
          PROVE  cReply'[c].tag = c
      <3>1. p \in ServerSays
        BY WireIsTraffic DEF SaysInv
      <3>2. p \in ServerAnswers
        BY <2>2, <3>1, LinkAssumption DEF ServerSays, ServerAsks, ProbePdus, ServerSends,
           CP!Settles, CP!ReplyCmds, CP!ClientGatedReplies, CP!ClientUngatedReplies
      <3>3. p.tag \in CP!Drawn /\ p.seq = cCallSeq[p.tag]
        BY <3>2 DEF ServerAnswers, CP!Drawn
      <3>4. p.seq \in CP!Seqs
        BY <3>2 DEF ServerAnswers, LinkPdus, CP!Seqs
      <3>5. p.seq = cCallSeq[c] /\ c \in CP!Drawn
        BY <2>2, <3>4 DEF LinkInv, CP!Inv, CP!SlotInv, CP!OwnerInv, CP!OwnerOf, CP!Launched,
           CP!Drawn, CP!Begun
      <3> QED
        BY <2>2, <3>3, <3>5 DEF CP!Distinct
    <2> QED
      BY <1>1, <1>2, <2>1, <2>2, ClientAssumption, CP!ReplyMoves
  <1> QED
    BY <1>1, <1>2 DEF AnswerIsForThisCall, sVars

\* And what completes a call of the server is the client's answer to it.
LEMMA OwnAnswerServer ==
    ASSUME LinkInv, SaysInv, AnswerIsForThisCall, SP!Distinct, ServerStep
    PROVE  AnswerIsForThisCall'
  <1>1. SP!TypeOK /\ SP!Local /\ UNCHANGED cVars
    BY ServerStepSeen DEF ServerStep
  <1>2. ASSUME NEW c \in SCalls, sSlot'[c] = "full" PROVE sReply'[c].tag = c
    <2>1. CASE sSlot[c] = "full" /\ sReply'[c] = sReply[c]
      BY <2>1 DEF AnswerIsForThisCall
    <2>2. ASSUME NEW p \in SP!Elements(c2s), sReply'[c] = p, sPending[p.seq] = c, SP!Settles(p)
          PROVE  sReply'[c].tag = c
      <3>1. p \in ClientSays
        BY WireIsTraffic DEF SaysInv
      <3>2. p \in ClientAnswers
        BY <2>2, <3>1, LinkAssumption DEF ClientSays, ClientAsks, ProbePdus, ClientSends,
           SP!Settles, SP!ReplyCmds, SP!ServerReplies
      <3>3. p.tag \in SP!Drawn /\ p.seq = sCallSeq[p.tag]
        BY <3>2 DEF ClientAnswers, SP!Drawn
      <3>4. p.seq \in SP!Seqs
        BY <3>2 DEF ClientAnswers, LinkPdus, SP!Seqs
      <3>5. p.seq = sCallSeq[c] /\ c \in SP!Drawn
        BY <2>2, <3>4 DEF LinkInv, SP!Inv, SP!SlotInv, SP!OwnerInv, SP!OwnerOf, SP!Launched,
           SP!Drawn, SP!Begun
      <3> QED
        BY <2>2, <3>3, <3>5 DEF SP!Distinct
    <2> QED
      BY <1>1, <1>2, <2>1, <2>2, ServerAssumption, SP!ReplyMoves
  <1> QED
    BY <1>1, <1>2 DEF AnswerIsForThisCall, cVars

\* Numbers stay distinct on both sides.
LEMMA DistinctNext ==
    ASSUME LinkInv, CP!Ample, SP!Ample, CP!Distinct, SP!Distinct, [Next]_vars
    PROVE  CP!Distinct' /\ SP!Distinct'
  <1>1. CASE ClientStep
    <2>1. CP!Distinct'
      BY <1>1, ClientStepSeen, ClientAssumption, CP!DistinctMoves
    <2>2. SP!Distinct'
      BY <1>1 DEF ClientStep, sVars, SP!Distinct, SP!Drawn, SP!Begun
    <2> QED
      BY <2>1, <2>2
  <1>2. CASE ServerStep
    <2>1. SP!Distinct'
      BY <1>2, ServerStepSeen, ServerAssumption, SP!DistinctMoves
    <2>2. CP!Distinct'
      BY <1>2 DEF ServerStep, cVars, CP!Distinct, CP!Drawn, CP!Begun
    <2> QED
      BY <2>1, <2>2
  <1>3. CASE UNCHANGED vars
    BY <1>3 DEF vars, cVars, sVars, CP!Distinct, CP!Drawn, CP!Begun, SP!Distinct, SP!Drawn, SP!Begun
  <1> QED
    BY <1>1, <1>2, <1>3 DEF Next

\* While a session does not draw more numbers than there are (2^32 in the code),
\* what a call returns is the peer's answer to that very call: no reordering of
\* answers, no expiry, no answer that comes late can mix two calls up.
THEOREM AnswerIsOwn ==
    ASSUME AnswersDispatched, CP!Ample, SP!Ample
    PROVE  Spec => []AnswerIsForThisCall
  <1> DEFINE I == AnswerIsForThisCall /\ CP!Distinct /\ SP!Distinct
  <1>1. Init => I
    <2> SUFFICES ASSUME Init PROVE I
      OBVIOUS
    <2>1. CP!Init /\ SP!Init
      BY InitIsInit
    <2>2. CP!Distinct /\ SP!Distinct
      BY <2>1, ClientAssumption, ServerAssumption, CP!DistinctInit, SP!DistinctInit
    <2>3. AnswerIsForThisCall
      BY <2>1 DEF CP!Init, CP!LocalInit, SP!Init, SP!LocalInit, AnswerIsForThisCall
    <2> QED
      BY <2>2, <2>3
  <1>2. LinkInv /\ SaysInv /\ I /\ [Next]_vars => I'
    <2> SUFFICES ASSUME LinkInv, SaysInv, I, [Next]_vars PROVE I'
      OBVIOUS
    <2>1. AnswerIsForThisCall'
      <3>1. CASE UNCHANGED vars
        BY <3>1 DEF vars, cVars, sVars, AnswerIsForThisCall
      <3> QED
        BY <3>1, OwnAnswerClient, OwnAnswerServer DEF Next
    <2> QED
      BY <2>1, DistinctNext
  <1>3. I => AnswerIsForThisCall
    OBVIOUS
  <1> QED
    BY <1>1, <1>2, <1>3, LinkInvHolds, SaysHolds, PTL DEF Spec

-----------------------------------------------------------------------------
(***************************************************************************)
(* Probes.  Counted over both sides and both wires, there is at most one   *)
(* enquire_link or enquire_link_resp of a ticker at any time; it carries   *)
(* the number the ticker waits for, and there is none unless it waits.     *)
(***************************************************************************)
Numbers == 0 .. SeqSpace - 1

ClientPing(Q) == CP!Probing(Q) + SP!Answering(Q) + SP!Unsent("enquire_link_resp", Q)
ServerPing(Q) == SP!Probing(Q) + CP!Answering(Q) + CP!Unsent("enquire_link_resp", Q)

ClientPinged ==
    \/ cTpc = "gone"
    \/ /\ cTpc = "await" /\ ClientPing(Numbers) <= 1
       /\ \A q \in Numbers \ {cTseq} : ClientPing({q}) = 0
    \/ cTpc \in {"wait", "send"} /\ ClientPing(Numbers) = 0

ServerPinged ==
    \/ sTpc = "gone"
    \/ /\ sTpc = "await" /\ ServerPing(Numbers) <= 1
       /\ \A q \in Numbers \ {sTseq} : ServerPing({q}) = 0
    \/ sTpc \in {"wait", "send"} /\ ServerPing(Numbers) = 0

PingInv == CP!Replies /\ SP!Replies /\ ClientPinged /\ ServerPinged

\* Both sides count alike.
LEMMA SameCount ==
    ASSUME NEW STATE s, NEW X, NEW Q
    PROVE  CP!Count(s, CP!PdusIn(X, Q)) = SP!Count(s, SP!PdusIn(X, Q))
  <1>1. CP!Pdus = SP!Pdus
    BY DEF CP!Pdus, SP!Pdus, CP!Commands, CP!Requests, CP!Responses, SP!Commands, SP!Requests,
       SP!Responses, CP!Seqs, SP!Seqs, CP!Tags, SP!Tags
  <1>2. CP!PdusIn(X, Q) = SP!PdusIn(X, Q)
    BY <1>1 DEF CP!PdusIn, SP!PdusIn
  <1>3. \A T : CP!Count(s, T) = SP!Count(s, T)
    BY DEF CP!Count, SP!Count, CP!Cardinality, SP!Cardinality
  <1> QED
    BY <1>2, <1>3

\* The ping of the client is what the server has answered of it and what has not
\* reached the server, or has left it for good.
ClientAccount ==
    \A Q : /\ CP!Probing(Q) \in Nat /\ SP!Answering(Q) \in Nat
           /\ SP!Unsent("enquire_link_resp", Q) \in Nat /\ SP!Answered(Q) \in Nat
           /\ CP!Unsent("enquire_link", Q) \in Nat /\ CP!Forwarding(Q) \in Nat
           /\ CP!Count(cLinkQ, Q) \in Nat
           /\ CP!Count(cLinkQ, Q) <= ClientPing(Q) /\ ClientPing(Q) \in Nat
           /\ ClientPing(Q) = CP!Unsent("enquire_link", Q) + CP!Forwarding(Q)
                               + CP!Count(cLinkQ, Q) + SP!Answered(Q)

LEMMA ClientAccounts == LinkInv => ClientAccount
  <1> SUFFICES ASSUME LinkInv, NEW Q
               PROVE  /\ CP!Probing(Q) \in Nat /\ SP!Answering(Q) \in Nat
                      /\ SP!Unsent("enquire_link_resp", Q) \in Nat /\ SP!Answered(Q) \in Nat
                      /\ CP!Unsent("enquire_link", Q) \in Nat /\ CP!Forwarding(Q) \in Nat
                      /\ CP!Count(cLinkQ, Q) \in Nat
                      /\ CP!Count(cLinkQ, Q) <= ClientPing(Q) /\ ClientPing(Q) \in Nat
                      /\ ClientPing(Q) = CP!Unsent("enquire_link", Q) + CP!Forwarding(Q)
                                          + CP!Count(cLinkQ, Q) + SP!Answered(Q)
    BY DEF ClientAccount
  <1>1. CP!TypeOK /\ SP!TypeOK
    BY DEF LinkInv, CP!Inv, SP!Inv
  <1>2. /\ CP!Unsent("enquire_link", Q) \in Nat
        /\ CP!Count(c2s, CP!PdusIn("enquire_link", Q)) \in Nat
        /\ CP!Count(cLinkQ, Q) \in Nat
    BY <1>1, ClientAssumption, CP!OutgoingType
  <1>3. CP!Probing(Q) \in Nat /\ CP!Forwarding(Q) \in Nat
    BY <1>1, ClientAssumption, CP!ProbingType
  <1>4. /\ SP!Unsent("enquire_link_resp", Q) \in Nat
        /\ SP!Count(s2c, SP!PdusIn("enquire_link_resp", Q)) \in Nat
    BY <1>1, ServerAssumption, SP!OutgoingType
  <1>5. SP!Answering(Q) \in Nat
    BY DEF SP!Answering
  <1>6. /\ CP!Count(c2s, CP!PdusIn("enquire_link", Q)) = SP!Count(c2s, SP!PdusIn("enquire_link", Q))
        /\ CP!Count(s2c, CP!PdusIn("enquire_link", Q)) = SP!Count(s2c, SP!PdusIn("enquire_link", Q))
        /\ CP!Count(c2s, CP!PdusIn("enquire_link_resp", Q))
             = SP!Count(c2s, SP!PdusIn("enquire_link_resp", Q))
        /\ CP!Count(s2c, CP!PdusIn("enquire_link_resp", Q))
             = SP!Count(s2c, SP!PdusIn("enquire_link_resp", Q))
    BY SameCount
  <1>7. SP!Answered(Q) = SP!Count(c2s, SP!PdusIn("enquire_link", Q)) + SP!Answering(Q)
          + (SP!Unsent("enquire_link_resp", Q)
               + SP!Count(s2c, SP!PdusIn("enquire_link_resp", Q)))
    BY DEF SP!Answered, SP!Outgoing
  <1>8. ClientPing(Q) = (CP!Unsent("enquire_link", Q)
                         + CP!Count(c2s, CP!PdusIn("enquire_link", Q)))
          + (CP!Count(s2c, CP!PdusIn("enquire_link_resp", Q)) + CP!Forwarding(Q)
               + CP!Count(cLinkQ, Q))
          + SP!Answering(Q) + SP!Unsent("enquire_link_resp", Q)
    BY DEF ClientPing, CP!Probing, CP!Outgoing, CP!Arriving
  <1> QED
    BY <1>2, <1>3, <1>4, <1>5, <1>6, <1>7, <1>8

\* The steps of the client move its ping as ProbingMoves says.
LEMMA ClientPingMoves ==
    ASSUME LinkInv, LinkInv', PingInv, ClientStep, cTpc # "gone", cTpc' # "gone", NEW Q
    PROVE  \/ UNCHANGED <<cTpc, cTseq>> /\ ClientPing(Q)' <= ClientPing(Q)
           \/ cTpc = "wait" /\ cTpc' = "send" /\ ClientPing(Q)' <= ClientPing(Q)
           \/ /\ cTpc = "send" /\ cTpc' = "await" /\ UNCHANGED cTseq
              /\ ClientPing(Q)' <= ClientPing(Q) + 1
              /\ cTseq \notin Q => ClientPing(Q)' <= ClientPing(Q)
           \/ /\ cTpc = "await" /\ cTpc' = "wait"
              /\ cTseq \in Q => ClientPing(Q)' + 1 <= ClientPing(Q)
  <1>1. CP!TypeOK /\ CP!TypeOK' /\ CP!Local /\ CP!Replies /\ UNCHANGED sVars
    BY ClientStepSeen DEF ClientStep, LinkInv, CP!Inv, PingInv
  <1>2. \/ UNCHANGED <<cTpc, cTseq>> /\ CP!Probing(Q)' <= CP!Probing(Q)
        \/ cTpc = "wait" /\ cTpc' = "send" /\ CP!Probing(Q)' <= CP!Probing(Q)
        \/ /\ cTpc = "send" /\ cTpc' = "await" /\ UNCHANGED cTseq
           /\ CP!Probing(Q)' <= CP!Probing(Q) + 1
           /\ cTseq \notin Q => CP!Probing(Q)' <= CP!Probing(Q)
        \/ /\ cTpc = "await" /\ cTpc' = "wait"
           /\ cTseq \in Q => CP!Probing(Q)' + 1 <= CP!Probing(Q)
    BY <1>1, ClientAssumption, CP!ProbingMoves
  <1>3. SP!Answering(Q)' = SP!Answering(Q)
    BY <1>1 DEF SP!Answering, sVars
  <1>4. SP!Unsent("enquire_link_resp", Q)' = SP!Unsent("enquire_link_resp", Q)
    BY <1>1 DEF SP!Unsent, sVars
  <1>5. ClientAccount /\ ClientAccount'
    BY ClientAccounts, PTL
  <1>6. /\ CP!Probing(Q) \in Nat /\ SP!Answering(Q) \in Nat
        /\ SP!Unsent("enquire_link_resp", Q) \in Nat /\ CP!Probing(Q)' \in Nat
    BY <1>5 DEF ClientAccount
  <1>7. /\ ClientPing(Q) = CP!Probing(Q) + SP!Answering(Q) + SP!Unsent("enquire_link_resp", Q)
        /\ ClientPing(Q)' = CP!Probing(Q)' + SP!Answering(Q)'
                            + SP!Unsent("enquire_link_resp", Q)'
    BY DEF ClientPing
  <1> QED
    BY <1>2, <1>3, <1>4, <1>6, <1>7

\* The steps of the server only pass it on.
LEMMA ClientPingPassed ==
    ASSUME LinkInv, LinkInv', PingInv, ServerStep, NEW Q
    PROVE  UNCHANGED <<cTpc, cTseq>> /\ ClientPing(Q)' <= ClientPing(Q)
  <1>1. SP!TypeOK /\ SP!TypeOK' /\ SP!Local /\ SP!Replies /\ UNCHANGED cVars
    BY ServerStepSeen DEF ServerStep, LinkInv, SP!Inv, PingInv
  <1>2. \A p \in SP!Elements(c2s) : p.good
    BY WireIsTraffic DEF LinkInv, LinkPdus
  <1>3. SP!Answered(Q)' <= SP!Answered(Q)
    BY <1>1, <1>2, ServerAssumption, SP!AnsweredMoves
  <1>4. /\ CP!Unsent("enquire_link", Q)' = CP!Unsent("enquire_link", Q)
        /\ CP!Forwarding(Q)' = CP!Forwarding(Q)
        /\ CP!Count(cLinkQ, Q)' = CP!Count(cLinkQ, Q)
    BY <1>1 DEF CP!Unsent, CP!Forwarding, cVars
  <1>5. ClientAccount /\ ClientAccount'
    BY ClientAccounts, PTL
  <1>6. /\ SP!Answered(Q) \in Nat /\ SP!Answered(Q)' \in Nat
        /\ CP!Unsent("enquire_link", Q) \in Nat /\ CP!Forwarding(Q) \in Nat
        /\ CP!Count(cLinkQ, Q) \in Nat
        /\ ClientPing(Q) = CP!Unsent("enquire_link", Q) + CP!Forwarding(Q)
                            + CP!Count(cLinkQ, Q) + SP!Answered(Q)
        /\ ClientPing(Q)' = CP!Unsent("enquire_link", Q)' + CP!Forwarding(Q)'
                             + CP!Count(cLinkQ, Q)' + SP!Answered(Q)'
    BY <1>5 DEF ClientAccount
  <1> QED
    BY <1>1, <1>3, <1>4, <1>6 DEF cVars

LEMMA ClientPingNat ==
    ASSUME LinkInv, LinkInv'
    PROVE  \A Q : ClientPing(Q) \in Nat /\ ClientPing(Q)' \in Nat
  <1>1. ClientAccount /\ ClientAccount'
    BY ClientAccounts, PTL
  <1>2. \A Q : ClientPing(Q) \in Nat
    BY <1>1 DEF ClientAccount
  <1>3. \A Q : ClientPing(Q)' \in Nat
    BY <1>1 DEF ClientAccount
  <1> QED
    BY <1>2, <1>3

\* No ping at all is no ping with a given number.
LEMMA ClientPingNone ==
    ASSUME LinkInv, ClientPing(Numbers) = 0, NEW q \in Numbers
    PROVE  ClientPing({q}) = 0
  <1>1. {q} \subseteq Numbers /\ CP!TypeOK /\ SP!TypeOK
    BY DEF LinkInv, CP!Inv, SP!Inv
  <1>2. CP!Probing({q}) <= CP!Probing(Numbers)
    BY <1>1, ClientAssumption, CP!ProbeSubset
  <1>3. /\ SP!Answering({q}) <= SP!Answering(Numbers)
        /\ SP!Unsent("enquire_link_resp", {q}) <= SP!Unsent("enquire_link_resp", Numbers)
    BY <1>1, ServerAssumption, SP!ProbeSubset
  <1>4. /\ CP!Probing({q}) \in Nat /\ SP!Answering({q}) \in Nat
        /\ SP!Unsent("enquire_link_resp", {q}) \in Nat
        /\ CP!Probing(Numbers) \in Nat /\ SP!Answering(Numbers) \in Nat
        /\ SP!Unsent("enquire_link_resp", Numbers) \in Nat
    BY ClientAccounts DEF ClientAccount
  <1>5. /\ CP!Probing(Numbers) + SP!Answering(Numbers)
             + SP!Unsent("enquire_link_resp", Numbers) = 0
        /\ ClientPing({q}) = CP!Probing({q}) + SP!Answering({q})
                               + SP!Unsent("enquire_link_resp", {q})
    BY DEF ClientPing
  <1>6. /\ CP!Probing(Numbers) = 0 /\ SP!Answering(Numbers) = 0
        /\ SP!Unsent("enquire_link_resp", Numbers) = 0
    BY <1>4, <1>5
  <1>7. /\ CP!Probing({q}) = 0 /\ SP!Answering({q}) = 0
        /\ SP!Unsent("enquire_link_resp", {q}) = 0
    BY <1>2, <1>3, <1>4, <1>6
  <1> QED
    BY <1>5, <1>7

LEMMA ClientPingedNext ==
    ASSUME LinkInv, LinkInv', PingInv, [Next]_vars
    PROVE  ClientPinged'
  <1>1. cTseq \in Numbers
    BY DEF LinkInv, CP!Inv, CP!TypeOK, CP!Seqs, Numbers
  <1>2. CASE ClientStep
    <2>1. CASE cTpc = "gone"
      <3>1. cTpc' = "gone"
        BY <1>2, <2>1, ClientStepSeen, ClientAssumption, CP!TickerGone
      <3> QED
        BY <3>1 DEF ClientPinged
    <2>2. CASE cTpc # "gone" /\ cTpc' # "gone"
      <3>1. \/ UNCHANGED <<cTpc, cTseq>> /\ ClientPing(Numbers)' <= ClientPing(Numbers)
            \/ cTpc = "wait" /\ cTpc' = "send" /\ ClientPing(Numbers)' <= ClientPing(Numbers)
            \/ /\ cTpc = "send" /\ cTpc' = "await" /\ UNCHANGED cTseq
               /\ ClientPing(Numbers)' <= ClientPing(Numbers) + 1
            \/ /\ cTpc = "await" /\ cTpc' = "wait"
               /\ ClientPing(Numbers)' + 1 <= ClientPing(Numbers)
        BY <1>1, <1>2, <2>2, ClientPingMoves
      <3>2. ASSUME NEW q \in Numbers \ {cTseq'}, cTpc' = "await", ClientPing({q}) = 0
            PROVE  ClientPing({q})' <= ClientPing({q})
        BY <1>2, <2>2, <3>2, ClientPingMoves
      <3>3. ASSUME NEW q \in Numbers \ {cTseq'}, cTpc' = "await"
            PROVE  ClientPing({q}) = 0
        BY <2>2, <3>1, <3>3, ClientPingNone DEF PingInv, ClientPinged
      <3>4. \A Q : ClientPing(Q) \in Nat /\ ClientPing(Q)' \in Nat
        BY ClientPingNat
      <3>5. cTpc' = "await" => \A q \in Numbers \ {cTseq'} : ClientPing({q})' = 0
        <4> SUFFICES ASSUME NEW q \in Numbers \ {cTseq'}, cTpc' = "await"
                     PROVE  ClientPing({q})' = 0
          OBVIOUS
        <4>1. ClientPing({q}) = 0
          BY <3>3
        <4>2. ClientPing({q})' <= 0
          BY <3>2, <4>1
        <4>3. ClientPing({q})' \in Nat
          BY <3>4
        <4> QED
          BY <4>2, <4>3
      <3> QED
        BY <2>2, <3>1, <3>4, <3>5 DEF PingInv, ClientPinged
    <2>3. CASE cTpc' = "gone"
      BY <2>3 DEF ClientPinged
    <2> QED
      BY <2>1, <2>2, <2>3
  <1>3. CASE ServerStep
    <2>1. UNCHANGED <<cTpc, cTseq>> /\ \A Q : ClientPing(Q)' <= ClientPing(Q)
      BY <1>3, ClientPingPassed
    <2>2. \A Q : ClientPing(Q) \in Nat /\ ClientPing(Q)' \in Nat
      BY ClientPingNat
    <2> QED
      BY <2>1, <2>2 DEF PingInv, ClientPinged
  <1>4. CASE UNCHANGED vars
    <2>1. UNCHANGED <<cTpc, cTseq>> /\ \A Q : ClientPing(Q)' = ClientPing(Q)
      BY <1>4 DEF vars, cVars, sVars, ClientPing, CP!Probing, CP!Outgoing, CP!Unsent,
         CP!Arriving, CP!Forwarding, SP!Answering, SP!Unsent
    <2> QED
      BY <2>1 DEF PingInv, ClientPinged
  <1> QED
    BY <1>2, <1>3, <1>4 DEF Next

\* The channel to the ticker holds nothing but its answer.
LEMMA ClientFresh ==
    ASSUME LinkInv, ClientPinged, cTpc = "await", cLinkQ # <<>>
    PROVE  cLinkQ = <<cTseq>>
  <1>1. cLinkQ \in Seq(Numbers)
    BY DEF LinkInv, CP!Inv, CP!TypeOK, CP!Seqs, Numbers
  <1>2. \A Q : CP!Count(cLinkQ, Q) \in Nat /\ CP!Count(cLinkQ, Q) <= ClientPing(Q)
              /\ ClientPing(Q) \in Nat
    BY ClientAccounts DEF ClientAccount
  <1>3. CP!Count(cLinkQ, Numbers) = Len(cLinkQ)
    BY <1>1, ClientAssumption, CP!CountAll
  <1>4. ClientPing(Numbers) <= 1 /\ \A q \in Numbers \ {cTseq} : ClientPing({q}) = 0
    BY DEF ClientPinged
  <1>5. Len(cLinkQ) = 1 /\ cLinkQ[1] \in Numbers /\ cLinkQ = <<cLinkQ[1]>>
    <2>1. Len(cLinkQ) <= 1 /\ Len(cLinkQ) \in Nat /\ Len(cLinkQ) # 0
      BY <1>1, <1>2, <1>3, <1>4
    <2>2. \A n \in Nat : n <= 1 /\ n # 0 => n = 1
      OBVIOUS
    <2>3. Len(cLinkQ) = 1
      BY <2>1, <2>2
    <2> QED
      BY <1>1, <2>3
  <1>6. cLinkQ[1] = cTseq
    <2> SUFFICES ASSUME cLinkQ[1] # cTseq PROVE FALSE
      OBVIOUS
    <2>1. PICK q : q = cLinkQ[1]
      OBVIOUS
    <2>2. CP!Count(cLinkQ, {q}) = 0
      BY <1>2, <1>4, <1>5, <2>1
    <2>3. \A i \in 1 .. Len(cLinkQ) : cLinkQ[i] \notin {q}
      BY <1>1, <2>2, ClientAssumption, CP!CountNone
    <2> QED
      BY <1>5, <2>1, <2>3
  <1> QED
    BY <1>5, <1>6

\* The ping of the server is what the client has answered of it and what has not
\* reached the client, or has left it for good.
ServerAccount ==
    \A Q : /\ SP!Probing(Q) \in Nat /\ CP!Answering(Q) \in Nat
           /\ CP!Unsent("enquire_link_resp", Q) \in Nat /\ CP!Answered(Q) \in Nat
           /\ SP!Unsent("enquire_link", Q) \in Nat /\ SP!Forwarding(Q) \in Nat
           /\ SP!Count(sLinkQ, Q) \in Nat
           /\ SP!Count(sLinkQ, Q) <= ServerPing(Q) /\ ServerPing(Q) \in Nat
           /\ ServerPing(Q) = SP!Unsent("enquire_link", Q) + SP!Forwarding(Q)
                               + SP!Count(sLinkQ, Q) + CP!Answered(Q)

LEMMA ServerAccounts == LinkInv => ServerAccount
  <1> SUFFICES ASSUME LinkInv, NEW Q
               PROVE  /\ SP!Probing(Q) \in Nat /\ CP!Answering(Q) \in Nat
                      /\ CP!Unsent("enquire_link_resp", Q) \in Nat /\ CP!Answered(Q) \in Nat
                      /\ SP!Unsent("enquire_link", Q) \in Nat /\ SP!Forwarding(Q) \in Nat
                      /\ SP!Count(sLinkQ, Q) \in Nat
                      /\ SP!Count(sLinkQ, Q) <= ServerPing(Q) /\ ServerPing(Q) \in Nat
                      /\ ServerPing(Q) = SP!Unsent("enquire_link", Q) + SP!Forwarding(Q)
                                          + SP!Count(sLinkQ, Q) + CP!Answered(Q)
    BY DEF ServerAccount
  <1>1. SP!TypeOK /\ CP!TypeOK
    BY DEF LinkInv, CP!Inv, SP!Inv
  <1>2. /\ SP!Unsent("enquire_link", Q) \in Nat
        /\ SP!Count(s2c, SP!PdusIn("enquire_link", Q)) \in Nat
        /\ SP!Count(sLinkQ, Q) \in Nat
    BY <1>1, ServerAssumption, SP!OutgoingType
  <1>3. SP!Probing(Q) \in Nat /\ SP!Forwarding(Q) \in Nat
    BY <1>1, ServerAssumption, SP!ProbingType
  <1>4. /\ CP!Unsent("enquire_link_resp", Q) \in Nat
        /\ CP!Count(c2s, CP!PdusIn("enquire_link_resp", Q)) \in Nat
    BY <1>1, ClientAssumption, CP!OutgoingType
  <1>5. CP!Answering(Q) \in Nat
    BY DEF CP!Answering
  <1>6. /\ CP!Count(c2s, CP!PdusIn("enquire_link", Q)) = SP!Count(c2s, SP!PdusIn("enquire_link", Q))
        /\ CP!Count(s2c, CP!PdusIn("enquire_link", Q)) = SP!Count(s2c, SP!PdusIn("enquire_link", Q))
        /\ CP!Count(c2s, CP!PdusIn("enquire_link_resp", Q))
             = SP!Count(c2s, SP!PdusIn("enquire_link_resp", Q))
        /\ CP!Count(s2c, CP!PdusIn("enquire_link_resp", Q))
             = SP!Count(s2c, SP!PdusIn("enquire_link_resp", Q))
    BY SameCount
  <1>7. CP!Answered(Q) = CP!Count(s2c, CP!PdusIn("enquire_link", Q)) + CP!Answering(Q)
          + (CP!Unsent("enquire_link_resp", Q)
               + CP!Count(c2s, CP!PdusIn("enquire_link_resp", Q)))
    BY DEF CP!Answered, CP!Outgoing
  <1>8. ServerPing(Q) = (SP!Unsent("enquire_link", Q)
                         + SP!Count(s2c, SP!PdusIn("enquire_link", Q)))
          + (SP!Count(c2s, SP!PdusIn("enquire_link_resp", Q)) + SP!Forwarding(Q)
               + SP!Count(sLinkQ, Q))
          + CP!Answering(Q) + CP!Unsent("enquire_link_resp", Q)
    BY DEF ServerPing, SP!Probing, SP!Outgoing, SP!Arriving
  <1> QED
    BY <1>2, <1>3, <1>4, <1>5, <1>6, <1>7, <1>8

\* The steps of the server move its ping as ProbingMoves says.
LEMMA ServerPingMoves ==
    ASSUME LinkInv, LinkInv', PingInv, ServerStep, sTpc # "gone", sTpc' # "gone", NEW Q
    PROVE  \/ UNCHANGED <<sTpc, sTseq>> /\ ServerPing(Q)' <= ServerPing(Q)
           \/ sTpc = "wait" /\ sTpc' = "send" /\ ServerPing(Q)' <= ServerPing(Q)
           \/ /\ sTpc = "send" /\ sTpc' = "await" /\ UNCHANGED sTseq
              /\ ServerPing(Q)' <= ServerPing(Q) + 1
              /\ sTseq \notin Q => ServerPing(Q)' <= ServerPing(Q)
           \/ /\ sTpc = "await" /\ sTpc' = "wait"
              /\ sTseq \in Q => ServerPing(Q)' + 1 <= ServerPing(Q)
  <1>1. SP!TypeOK /\ SP!TypeOK' /\ SP!Local /\ SP!Replies /\ UNCHANGED cVars
    BY ServerStepSeen DEF ServerStep, LinkInv, SP!Inv, PingInv
  <1>2. \/ UNCHANGED <<sTpc, sTseq>> /\ SP!Probing(Q)' <= SP!Probing(Q)
        \/ sTpc = "wait" /\ sTpc' = "send" /\ SP!Probing(Q)' <= SP!Probing(Q)
        \/ /\ sTpc = "send" /\ sTpc' = "await" /\ UNCHANGED sTseq
           /\ SP!Probing(Q)' <= SP!Probing(Q) + 1
           /\ sTseq \notin Q => SP!Probing(Q)' <= SP!Probing(Q)
        \/ /\ sTpc = "await" /\ sTpc' = "wait"
           /\ sTseq \in Q => SP!Probing(Q)' + 1 <= SP!Probing(Q)
    BY <1>1, ServerAssumption, SP!ProbingMoves
  <1>3. CP!Answering(Q)' = CP!Answering(Q)
    BY <1>1 DEF CP!Answering, cVars
  <1>4. CP!Unsent("enquire_link_resp", Q)' = CP!Unsent("enquire_link_resp", Q)
    BY <1>1 DEF CP!Unsent, cVars
  <1>5. ServerAccount /\ ServerAccount'
    BY ServerAccounts, PTL
  <1>6. /\ SP!Probing(Q) \in Nat /\ CP!Answering(Q) \in Nat
        /\ CP!Unsent("enquire_link_resp", Q) \in Nat /\ SP!Probing(Q)' \in Nat
    BY <1>5 DEF ServerAccount
  <1>7. /\ ServerPing(Q) = SP!Probing(Q) + CP!Answering(Q) + CP!Unsent("enquire_link_resp", Q)
        /\ ServerPing(Q)' = SP!Probing(Q)' + CP!Answering(Q)'
                            + CP!Unsent("enquire_link_resp", Q)'
    BY DEF ServerPing
  <1> QED
    BY <1>2, <1>3, <1>4, <1>6, <1>7

\* The steps of the client only pass it on.
LEMMA ServerPingPassed ==
    ASSUME LinkInv, LinkInv', PingInv, ClientStep, NEW Q
    PROVE  UNCHANGED <<sTpc, sTseq>> /\ ServerPing(Q)' <= ServerPing(Q)
  <1>1. CP!TypeOK /\ CP!TypeOK' /\ CP!Local /\ CP!Replies /\ UNCHANGED sVars
    BY ClientStepSeen DEF ClientStep, LinkInv, CP!Inv, PingInv
  <1>2. \A p \in CP!Elements(s2c) : p.good
    BY WireIsTraffic DEF LinkInv, LinkPdus
  <1>3. CP!Answered(Q)' <= CP!Answered(Q)
    BY <1>1, <1>2, ClientAssumption, CP!AnsweredMoves
  <1>4. /\ SP!Unsent("enquire_link", Q)' = SP!Unsent("enquire_link", Q)
        /\ SP!Forwarding(Q)' = SP!Forwarding(Q)
        /\ SP!Count(sLinkQ, Q)' = SP!Count(sLinkQ, Q)
    BY <1>1 DEF SP!Unsent, SP!Forwarding, sVars
  <1>5. ServerAccount /\ ServerAccount'
    BY ServerAccounts, PTL
  <1>6. /\ CP!Answered(Q) \in Nat /\ CP!Answered(Q)' \in Nat
        /\ SP!Unsent("enquire_link", Q) \in Nat /\ SP!Forwarding(Q) \in Nat
        /\ SP!Count(sLinkQ, Q) \in Nat
        /\ ServerPing(Q) = SP!Unsent("enquire_link", Q) + SP!Forwarding(Q)
                            + SP!Count(sLinkQ, Q) + CP!Answered(Q)
        /\ ServerPing(Q)' = SP!Unsent("enquire_link", Q)' + SP!Forwarding(Q)'
                             + SP!Count(sLinkQ, Q)' + CP!Answered(Q)'
    BY <1>5 DEF ServerAccount
  <1> QED
    BY <1>1, <1>3, <1>4, <1>6 DEF sVars

LEMMA ServerPingNat ==
    ASSUME LinkInv, LinkInv'
    PROVE  \A Q : ServerPing(Q) \in Nat /\ ServerPing(Q)' \in Nat
  <1>1. ServerAccount /\ ServerAccount'
    BY ServerAccounts, PTL
  <1>2. \A Q : ServerPing(Q) \in Nat
    BY <1>1 DEF ServerAccount
  <1>3. \A Q : ServerPing(Q)' \in Nat
    BY <1>1 DEF ServerAccount
  <1> QED
    BY <1>2, <1>3

\* No ping at all is no ping with a given number.
LEMMA ServerPingNone ==
    ASSUME LinkInv, ServerPing(Numbers) = 0, NEW q \in Numbers
    PROVE  ServerPing({q}) = 0
  <1>1. {q} \subseteq Numbers /\ SP!TypeOK /\ CP!TypeOK
    BY DEF LinkInv, CP!Inv, SP!Inv
  <1>2. SP!Probing({q}) <= SP!Probing(Numbers)
    BY <1>1, ServerAssumption, SP!ProbeSubset
  <1>3. /\ CP!Answering({q}) <= CP!Answering(Numbers)
        /\ CP!Unsent("enquire_link_resp", {q}) <= CP!Unsent("enquire_link_resp", Numbers)
    BY <1>1, ClientAssumption, CP!ProbeSubset
  <1>4. /\ SP!Probing({q}) \in Nat /\ CP!Answering({q}) \in Nat
        /\ CP!Unsent("enquire_link_resp", {q}) \in Nat
        /\ SP!Probing(Numbers) \in Nat /\ CP!Answering(Numbers) \in Nat
        /\ CP!Unsent("enquire_link_resp", Numbers) \in Nat
    BY ServerAccounts DEF ServerAccount
  <1>5. /\ SP!Probing(Numbers) + CP!Answering(Numbers)
             + CP!Unsent("enquire_link_resp", Numbers) = 0
        /\ ServerPing({q}) = SP!Probing({q}) + CP!Answering({q})
                               + CP!Unsent("enquire_link_resp", {q})
    BY DEF ServerPing
  <1>6. /\ SP!Probing(Numbers) = 0 /\ CP!Answering(Numbers) = 0
        /\ CP!Unsent("enquire_link_resp", Numbers) = 0
    BY <1>4, <1>5
  <1>7. /\ SP!Probing({q}) = 0 /\ CP!Answering({q}) = 0
        /\ CP!Unsent("enquire_link_resp", {q}) = 0
    BY <1>2, <1>3, <1>4, <1>6
  <1> QED
    BY <1>5, <1>7

LEMMA ServerPingedNext ==
    ASSUME LinkInv, LinkInv', PingInv, [Next]_vars
    PROVE  ServerPinged'
  <1>1. sTseq \in Numbers
    BY DEF LinkInv, SP!Inv, SP!TypeOK, SP!Seqs, Numbers
  <1>2. CASE ServerStep
    <2>1. CASE sTpc = "gone"
      <3>1. sTpc' = "gone"
        BY <1>2, <2>1, ServerStepSeen, ServerAssumption, SP!TickerGone
      <3> QED
        BY <3>1 DEF ServerPinged
    <2>2. CASE sTpc # "gone" /\ sTpc' # "gone"
      <3>1. \/ UNCHANGED <<sTpc, sTseq>> /\ ServerPing(Numbers)' <= ServerPing(Numbers)
            \/ sTpc = "wait" /\ sTpc' = "send" /\ ServerPing(Numbers)' <= ServerPing(Numbers)
            \/ /\ sTpc = "send" /\ sTpc' = "await" /\ UNCHANGED sTseq
               /\ ServerPing(Numbers)' <= ServerPing(Numbers) + 1
            \/ /\ sTpc = "await" /\ sTpc' = "wait"
               /\ ServerPing(Numbers)' + 1 <= ServerPing(Numbers)
        BY <1>1, <1>2, <2>2, ServerPingMoves
      <3>2. ASSUME NEW q \in Numbers \ {sTseq'}, sTpc' = "await", ServerPing({q}) = 0
            PROVE  ServerPing({q})' <= ServerPing({q})
        BY <1>2, <2>2, <3>2, ServerPingMoves
      <3>3. ASSUME NEW q \in Numbers \ {sTseq'}, sTpc' = "await"
            PROVE  ServerPing({q}) = 0
        BY <2>2, <3>1, <3>3, ServerPingNone DEF PingInv, ServerPinged
      <3>4. \A Q : ServerPing(Q) \in Nat /\ ServerPing(Q)' \in Nat
        BY ServerPingNat
      <3>5. sTpc' = "await" => \A q \in Numbers \ {sTseq'} : ServerPing({q})' = 0
        <4> SUFFICES ASSUME NEW q \in Numbers \ {sTseq'}, sTpc' = "await"
                     PROVE  ServerPing({q})' = 0
          OBVIOUS
        <4>1. ServerPing({q}) = 0
          BY <3>3
        <4>2. ServerPing({q})' <= 0
          BY <3>2, <4>1
        <4>3. ServerPing({q})' \in Nat
          BY <3>4
        <4> QED
          BY <4>2, <4>3
      <3> QED
        BY <2>2, <3>1, <3>4, <3>5 DEF PingInv, ServerPinged
    <2>3. CASE sTpc' = "gone"
      BY <2>3 DEF ServerPinged
    <2> QED
      BY <2>1, <2>2, <2>3
  <1>3. CASE ClientStep
    <2>1. UNCHANGED <<sTpc, sTseq>> /\ \A Q : ServerPing(Q)' <= ServerPing(Q)
      BY <1>3, ServerPingPassed
    <2>2. \A Q : ServerPing(Q) \in Nat /\ ServerPing(Q)' \in Nat
      BY ServerPingNat
    <2> QED
      BY <2>1, <2>2 DEF PingInv, ServerPinged
  <1>4. CASE UNCHANGED vars
    <2>1. UNCHANGED <<sTpc, sTseq>> /\ \A Q : ServerPing(Q)' = ServerPing(Q)
      BY <1>4 DEF vars, cVars, sVars, ServerPing, SP!Probing, SP!Outgoing, SP!Unsent,
         SP!Arriving, SP!Forwarding, CP!Answering, CP!Unsent
    <2> QED
      BY <2>1 DEF PingInv, ServerPinged
  <1> QED
    BY <1>2, <1>3, <1>4 DEF Next

\* The channel to the ticker holds nothing but its answer.
LEMMA ServerFresh ==
    ASSUME LinkInv, ServerPinged, sTpc = "await", sLinkQ # <<>>
    PROVE  sLinkQ = <<sTseq>>
  <1>1. sLinkQ \in Seq(Numbers)
    BY DEF LinkInv, SP!Inv, SP!TypeOK, SP!Seqs, Numbers
  <1>2. \A Q : SP!Count(sLinkQ, Q) \in Nat /\ SP!Count(sLinkQ, Q) <= ServerPing(Q)
              /\ ServerPing(Q) \in Nat
    BY ServerAccounts DEF ServerAccount
  <1>3. SP!Count(sLinkQ, Numbers) = Len(sLinkQ)
    BY <1>1, ServerAssumption, SP!CountAll
  <1>4. ServerPing(Numbers) <= 1 /\ \A q \in Numbers \ {sTseq} : ServerPing({q}) = 0
    BY DEF ServerPinged
  <1>5. Len(sLinkQ) = 1 /\ sLinkQ[1] \in Numbers /\ sLinkQ = <<sLinkQ[1]>>
    <2>1. Len(sLinkQ) <= 1 /\ Len(sLinkQ) \in Nat /\ Len(sLinkQ) # 0
      BY <1>1, <1>2, <1>3, <1>4
    <2>2. \A n \in Nat : n <= 1 /\ n # 0 => n = 1
      OBVIOUS
    <2>3. Len(sLinkQ) = 1
      BY <2>1, <2>2
    <2> QED
      BY <1>1, <2>3
  <1>6. sLinkQ[1] = sTseq
    <2> SUFFICES ASSUME sLinkQ[1] # sTseq PROVE FALSE
      OBVIOUS
    <2>1. PICK q : q = sLinkQ[1]
      OBVIOUS
    <2>2. SP!Count(sLinkQ, {q}) = 0
      BY <1>2, <1>4, <1>5, <2>1
    <2>3. \A i \in 1 .. Len(sLinkQ) : sLinkQ[i] \notin {q}
      BY <1>1, <2>2, ServerAssumption, SP!CountNone
    <2> QED
      BY <1>5, <2>1, <2>3
  <1> QED
    BY <1>5, <1>6

LEMMA PingInit == Init => PingInv
  <1> SUFFICES ASSUME Init PROVE PingInv
    OBVIOUS
  <1>1. CP!Init /\ SP!Init
    BY InitIsInit
  <1>2. CP!Replies /\ SP!Replies
    BY <1>1, ClientAssumption, ServerAssumption, CP!RepliesInit, SP!RepliesInit
  <1>3. (\A T : CP!Count(<<>>, T) = 0) /\ (\A T : SP!Count(<<>>, T) = 0)
    BY ClientAssumption, ServerAssumption, CP!CountEmpty, SP!CountEmpty
  <1>4. /\ CP!Probing(Numbers) = 0 /\ CP!Answering(Numbers) = 0
        /\ CP!Unsent("enquire_link_resp", Numbers) = 0
    BY <1>1, <1>3 DEF CP!Init, CP!LocalInit, CP!Probing, CP!Outgoing, CP!Unsent, CP!Arriving,
       CP!Forwarding, CP!Answering
  <1>5. /\ SP!Probing(Numbers) = 0 /\ SP!Answering(Numbers) = 0
        /\ SP!Unsent("enquire_link_resp", Numbers) = 0
    BY <1>1, <1>3 DEF SP!Init, SP!LocalInit, SP!Probing, SP!Outgoing, SP!Unsent, SP!Arriving,
       SP!Forwarding, SP!Answering
  <1>6. ClientPing(Numbers) = 0 /\ ServerPing(Numbers) = 0
    BY <1>4, <1>5 DEF ClientPing, ServerPing
  <1>7. cTpc = "wait" /\ sTpc = "wait"
    BY <1>1 DEF CP!Init, CP!LocalInit, SP!Init, SP!LocalInit
  <1> QED
    BY <1>2, <1>6, <1>7 DEF PingInv, ClientPinged, ServerPinged

LEMMA RepliesNext ==
    ASSUME LinkInv, PingInv, [Next]_vars
    PROVE  CP!Replies' /\ SP!Replies'
  <1>1. \A p \in CP!Elements(s2c) \cup SP!Elements(c2s) : p.good
    BY WireIsTraffic DEF LinkInv, LinkPdus
  <1>2. CASE ClientStep
    <2>1. CP!Replies'
      BY <1>1, <1>2, ClientStepSeen, ClientAssumption, CP!RepliesMove DEF PingInv
    <2>2. SP!Replies'
      BY <1>2 DEF ClientStep, sVars, PingInv, SP!Replies, SP!Elements
    <2> QED
      BY <2>1, <2>2
  <1>3. CASE ServerStep
    <2>1. SP!Replies'
      BY <1>1, <1>3, ServerStepSeen, ServerAssumption, SP!RepliesMove DEF PingInv
    <2>2. CP!Replies'
      BY <1>3 DEF ServerStep, cVars, PingInv, CP!Replies, CP!Elements
    <2> QED
      BY <2>1, <2>2
  <1>4. CASE UNCHANGED vars
    BY <1>4 DEF vars, cVars, sVars, PingInv, CP!Replies, CP!Elements, SP!Replies, SP!Elements
  <1> QED
    BY <1>2, <1>3, <1>4 DEF Next

\* Between two sessions of this library the ticker never meets an answer other
\* than the one it waits for, whatever the interleaving and the number of probes,
\* so it never kills a bind over a stale enquire_link_resp.
THEOREM ProbeAnswersAreFresh == Spec => []ProbeAnswerIsFresh
  <1>1. LinkInv /\ LinkInv' /\ PingInv /\ [Next]_vars => PingInv'
    BY RepliesNext, ClientPingedNext, ServerPingedNext DEF PingInv
  <1>2. LinkInv /\ PingInv => ProbeAnswerIsFresh
    BY ClientFresh, ServerFresh DEF PingInv, ProbeAnswerIsFresh
  <1> QED
    BY <1>1, <1>2, PingInit, LinkInvHolds, PTL DEF Spec
=============================================================================
