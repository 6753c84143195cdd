------------------------------- MODULE Link --------------------------------
(***************************************************************************)
(* A bound client and a bound server of this library talking to each other *)
(* over one TCP connection: two copies of Session with their wires crossed.*)
(* Each side sees the other as "gone" once it has hung up: the server when *)
(* its writer has ended (the write half shuts the stream down), the client *)
(* when reader and writer have both ended.                                 *)
(***************************************************************************)
EXTENDS SmppPdu

CONSTANTS
    Bind,                  \* kind of bind, known to both sides
    CCalls, CCmd,          \* the client application's calls
    SCalls, SCmd,          \* the server application's calls
    CProbes, SProbes,      \* bounds: enquire_links of each side
    SeqSpace, ChanCap, LinkCap, WireCap, MaxTasks   \* as in Session

ASSUME LinkAssumption ==
    /\ Bind \in Binds
    /\ CCmd \in [CCalls -> ClientSends] /\ SCmd \in [SCalls -> ServerSends]
    /\ CCalls \cap SCalls = {}
    /\ {"none", "absent"} \cap (CCalls \cup SCalls) = {}
    /\ CProbes \in Nat /\ SProbes \in Nat /\ MaxTasks \in Nat
    /\ SeqSpace \in Nat \ {0}
    /\ ChanCap \in Nat \ {0} /\ LinkCap \in Nat \ {0} /\ WireCap \in Nat \ {0}

\* What either side may send the other: every PDU it builds decodes.
LinkPdus == [cmd : Commands, seq : 0 .. SeqSpace - 1,
             tag : CCalls \cup SCalls \cup {"none"}, good : {TRUE}]

VARIABLES
    cAlive, cSeqNo, cCallSt, cCallSeq, cSlot, cReply, cChan, cWpc, cWframe,
    cPending, cLate, cTasks, cRpc, cRout, cRthen, cTpc, cTseq, cLinkQ,
    cProbes, cAborts,
    sAlive, sSeqNo, sCallSt, sCallSeq, sSlot, sReply, sChan, sWpc, sWframe,
    sPending, sLate, sTasks, sRpc, sRout, sRthen, sTpc, sTseq, sLinkQ,
    sProbes, sAborts,
    c2s, s2c   \* PDUs in flight in each direction

cVars == <<cAlive, cSeqNo, cCallSt, cCallSeq, cSlot, cReply, cChan, cWpc,
           cWframe, cPending, cLate, cTasks, cRpc, cRout, cRthen, cTpc, cTseq,
           cLinkQ, cProbes, cAborts>>
sVars == <<sAlive, sSeqNo, sCallSt, sCallSeq, sSlot, sReply, sChan, sWpc,
           sWframe, sPending, sLate, sTasks, sRpc, sRout, sRthen, sTpc, sTseq,
           sLinkQ, sProbes, sAborts>>
vars == <<cVars, sVars, c2s, s2c>>

\* Mutant of ServerHungUp: the end of the reader taken for the end of the stream.
ServerHungUpReader == sRpc = "gone"
ServerHungUp == sWpc = "gone"
ClientHungUp == cWpc = "gone" /\ cRpc = "gone"

C == INSTANCE Session WITH
    Role <- "client", Calls <- CCalls, CmdOf <- CCmd, BoundCalls <- {},
    PeerCalls <- SCalls, MaxProbes <- CProbes, MayStop <- FALSE,
    PeerPdus <- LinkPdus, alive <- cAlive,
    seqNo <- cSeqNo, callSt <- cCallSt, callSeq <- cCallSeq, slot <- cSlot,
    reply <- cReply, chan <- cChan, wpc <- cWpc, wframe <- cWframe,
    pending <- cPending, late <- cLate, tasks <- cTasks, rpc <- cRpc,
    rout <- cRout, rthen <- cRthen, tpc <- cTpc, tseq <- cTseq,
    linkQ <- cLinkQ, probes <- cProbes, aborts <- cAborts, inq <- s2c,
    outq <- c2s, peer <- (IF ServerHungUp THEN "gone" ELSE "up")

S == INSTANCE Session WITH
    Role <- "server", Calls <- SCalls, CmdOf <- SCmd, BoundCalls <- {},
    PeerCalls <- CCalls, MaxProbes <- SProbes, MayStop <- FALSE,
    PeerPdus <- LinkPdus, alive <- sAlive,
    seqNo <- sSeqNo, callSt <- sCallSt, callSeq <- sCallSeq, slot <- sSlot,
    reply <- sReply, chan <- sChan, wpc <- sWpc, wframe <- sWframe,
    pending <- sPending, late <- sLate, tasks <- sTasks, rpc <- sRpc,
    rout <- sRout, rthen <- sRthen, tpc <- sTpc, tseq <- sTseq,
    linkQ <- sLinkQ, probes <- sProbes, aborts <- sAborts, inq <- c2s,
    outq <- s2c, peer <- (IF ClientHungUp THEN "gone" ELSE "up")

Init == C!LocalInit /\ S!LocalInit /\ c2s = <<>> /\ s2c = <<>>

ClientStep == C!Local /\ UNCHANGED sVars
ServerStep == S!Local /\ UNCHANGED cVars

Next == ClientStep \/ ServerStep

Spec == Init /\ [][Next]_vars

-----------------------------------------------------------------------------
(* Properties *)

\* An answer reaches the call whose request it answers: the contents a call
\* returns (or the refusal it reports) are the peer's answer to its own PDU, and
\* not to another PDU that happened to carry the same sequence number.
AnswerIsForThisCall ==
    /\ \A c \in CCalls : cSlot[c] = "full" => cReply[c].tag = c
    /\ \A c \in SCalls : sSlot[c] = "full" => sReply[c].tag = c

\* No side refuses the other's answer to its own request: a generic_nack on the
\* wire is never about a response to a call of the side that sends it.
NoAnswerRefused ==
    /\ \A i \in 1 .. Len(c2s) : c2s[i].cmd = "generic_nack" => c2s[i].tag \notin CCalls
    /\ \A i \in 1 .. Len(s2c) : s2c[i].cmd = "generic_nack" => s2c[i].tag \notin SCalls

\* The ticker never meets an enquire_link_resp other than the one it waits for,
\* so between two sessions of this library it kills a bind only for silence.
ProbeAnswerIsFresh ==
    /\ cTpc = "await" /\ cLinkQ # <<>> => cLinkQ = <<cTseq>>
    /\ sTpc = "await" /\ sLinkQ # <<>> => sLinkQ = <<sTseq>>

\* Each side is a session against some peer: whatever the other does to the wires
\* is something Session lets a peer do, so what is true of every session is true
\* of both.
SidesAreSessions == C!Spec /\ S!Spec

\* A client whose unbind was accepted left a server that is closing too.
UnbindAgreed ==
    \A c \in CCalls :
      CCmd[c] = "unbind" /\ cCallSt[c] = "ok" => sRpc \in {"close", "gone"}
=============================================================================
