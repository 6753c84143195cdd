----------------------------- MODULE MCSession -----------------------------
(* Instances of Session for TLC, with a peer that may send anything. *)
EXTENDS Session, TLC

CONSTANTS c1, c2

MCOneCall == {c1}
MCCalls   == {c1, c2}
MCAtBound == {c2}

MCSubmit  == c1 :> "submit_sm"
MCSubmits == c1 :> "submit_sm" @@ c2 :> "submit_sm"

P(cmds, seqs, goods) ==
    [cmd : cmds, seq : seqs, tag : {"none"}, good : goods]

\* To a client bound as TRX: an answer that decodes or does not, a refusal and a
\* notification.
MCPeerOfClient ==
    P({"submit_sm_resp"}, {0}, BOOLEAN)
      \cup P({"generic_nack", "alert_notification"}, {1}, {TRUE})

\* To a session whose peer asks for an enquire_link_resp, or is silent.
MCPeerProbe == P({"enquire_link"}, {1}, {TRUE})
=============================================================================
