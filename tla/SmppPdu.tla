------------------------------ MODULE SmppPdu ------------------------------
(***************************************************************************)
(* The vocabulary of SMPP 3.4 PDUs as the sessions of this library see it: *)
(* which command answers which, which commands each role dispatches on     *)
(* each kind of bind, and what is sent back for a body that does not       *)
(* decode.  A PDU body is abstracted to whether it decodes (`good').       *)
(***************************************************************************)
EXTENDS Naturals, Sequences

Roles == {"client", "server"}
Binds == {"TX", "RX", "TRX"}

MaySubmit(bind)  == bind \in {"TX", "TRX"}
MayDeliver(bind) == bind \in {"RX", "TRX"}

(***************************************************************************)
(* RespOf[c] is the response command of request c: its id with bit 31 set. *)
(***************************************************************************)
RespOf == [submit_sm    |-> "submit_sm_resp",
           submit_multi |-> "submit_multi_resp",
           data_sm      |-> "data_sm_resp",
           deliver_sm   |-> "deliver_sm_resp",
           cancel_sm    |-> "cancel_sm_resp",
           query_sm     |-> "query_sm_resp",
           replace_sm   |-> "replace_sm_resp",
           enquire_link |-> "enquire_link_resp",
           unbind       |-> "unbind_resp"]

Requests == {"submit_sm", "submit_multi", "data_sm", "deliver_sm", "cancel_sm",
             "query_sm", "replace_sm", "enquire_link", "unbind"}

Responses == {"submit_sm_resp", "submit_multi_resp", "data_sm_resp",
              "deliver_sm_resp", "cancel_sm_resp", "query_sm_resp",
              "replace_sm_resp", "enquire_link_resp", "unbind_resp"}

\* "unknown" stands for every command_id no branch of a read loop tests for:
\* CommandHeader::decode accepts any 32-bit id.
Commands == Requests \cup Responses
              \cup {"alert_notification", "generic_nack", "unknown"}

(***************************************************************************)
(* What the read loop of each role does with a command, by kind of bind.   *)
(* Handlers: decoded, given to a spawned listener task whose answer is     *)
(* sent back.  Replies: matched with pending_requests by sequence number.  *)
(***************************************************************************)
ClientHandlers(bind) ==
    (IF MayDeliver(bind) THEN {"deliver_sm"} ELSE {}) \cup {"data_sm"}

ServerHandlers(bind) ==
    (IF MaySubmit(bind)
       THEN {"submit_sm", "submit_multi", "cancel_sm", "query_sm", "replace_sm"}
       ELSE {}) \cup {"data_sm"}

\* Mutant of ClientGatedReplies: gated on the receiving binds.
ClientGatedRepliesSwapped(bind) ==
    IF bind = "RX" THEN {"submit_sm_resp", "submit_multi_resp", "data_sm_resp"}
                   ELSE {}

ClientGatedReplies(bind) ==
    IF MaySubmit(bind) THEN {"submit_sm_resp", "submit_multi_resp", "data_sm_resp"}
                       ELSE {}

ClientUngatedReplies == {"cancel_sm_resp", "query_sm_resp", "replace_sm_resp"}

\* Mutant of ServerReplies: no branch for deliver_sm_resp.
ServerRepliesDataOnly(bind) == {"data_sm_resp"}

\* The server tests deliver_sm_resp against the TRANSMITTING binds.
ServerReplies(bind) ==
    (IF MaySubmit(bind) THEN {"deliver_sm_resp"} ELSE {}) \cup {"data_sm_resp"}

HandlerCmds(role, bind) ==
    IF role = "client" THEN ClientHandlers(bind) ELSE ServerHandlers(bind)

ReplyCmds(role, bind) ==
    IF role = "client" THEN ClientGatedReplies(bind) \cup ClientUngatedReplies
                       ELSE ServerReplies(bind)

\* Commands both roles dispatch on every bind, and the two only a client does.
CommonCmds     == {"enquire_link", "enquire_link_resp", "unbind", "generic_nack"}
ClientOnlyCmds == {"alert_notification", "unbind_resp"}

Supported(role, bind) ==
    HandlerCmds(role, bind) \cup ReplyCmds(role, bind) \cup CommonCmds
      \cup (IF role = "client" THEN ClientOnlyCmds ELSE {})

(***************************************************************************)
(* The command sent back when the body of a PDU does not decode.  Several  *)
(* branches call submit_sm::generic_reject whatever the command was.       *)
(***************************************************************************)
ClientReject(cmd) ==
    CASE cmd \in {"deliver_sm", "enquire_link"} -> "submit_sm_resp"
      [] cmd = "data_sm" -> "data_sm_resp"
      [] cmd = "unbind"  -> "unbind_resp"
      [] OTHER           -> "generic_nack"

ServerReject(cmd) ==
    CASE cmd \in {"submit_sm", "submit_multi", "data_sm", "query_sm",
                  "replace_sm", "unbind"} -> RespOf[cmd]
      [] cmd \in {"cancel_sm", "enquire_link", "deliver_sm_resp",
                  "data_sm_resp"} -> "submit_sm_resp"
      [] OTHER -> "generic_nack"

RejectOf(role, cmd) ==
    IF role = "client" THEN ClientReject(cmd) ELSE ServerReject(cmd)

(***************************************************************************)
(* The requests the handle of each role can send.  The ones a bind does    *)
(* not allow make the calling task panic.                                  *)
(***************************************************************************)
ClientSends == {"submit_sm", "submit_multi", "data_sm", "cancel_sm", "query_sm",
                "replace_sm", "unbind"}
ServerSends == {"deliver_sm", "data_sm", "alert_notification", "unbind"}

Sends(role) == IF role = "client" THEN ClientSends ELSE ServerSends

\* SMSC::can_send guards everything but unbind; ESME::can_receive guards
\* deliver_sm and alert_notification only.
Allowed(role, bind, cmd) ==
    IF role = "client"
      THEN cmd = "unbind" \/ MaySubmit(bind)
      ELSE cmd \in {"unbind", "data_sm"} \/ MayDeliver(bind)
=============================================================================
