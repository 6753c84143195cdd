------------------------------ MODULE PyBridge ------------------------------
(***************************************************************************)
(* The Python bindings: `Client' and `Smsc' on one side, `Server', `Esme'  *)
(* and `SubmitSmEvent' on the other, and between them the two forwarders   *)
(* that turn listener callbacks into events on bounded queues.  Every      *)
(* Client here connects to the one Server, so a call on either side is     *)
(* followed end to end.  The sessions underneath (modules Session and      *)
(* Lifecycle) are reduced to what a forwarder sees of them: which callback *)
(* they make, when, and that requests and answers get through while both   *)
(* ends live.  An event is a pair <<kind, client or message>>.             *)
(***************************************************************************)
EXTENDS Naturals, Sequences

CONSTANTS
    Clients,     \* Client objects; connect() succeeds at most once for each
    Subs,        \* submit_sm messages, sent by Smsc.submit_sm
    Dels,        \* deliver_sm messages, sent by Esme.deliver_sm
    ClientOf,    \* the client at whose session a message is sent
    ClientCap,   \* inbound_capacity of a Client (1024 by default)
    ServerCap    \* inbound_capacity of the Server

ASSUME PyBridgeAssumption ==
    /\ ClientOf \in [Subs \cup Dels -> Clients]
    /\ ClientCap \in Nat \ {0} /\ ServerCap \in Nat \ {0}   \* `.max(1)'

VARIABLES
    conn,        \* per client: progress or result of connect()
    outcome,     \* per client: what settled the one-shot of connect()
    task,        \* per client: the core's session task
    aborted,     \* clients whose session task has been abort()ed
    unbinding,   \* clients inside Smsc.unbind()
    pyClients,   \* clients whose Client or Smsc Python still holds
    cq,          \* per client: its event queue
    seen,        \* per client: the events next() has returned
    listening,   \* the server accepts connections
    sess,        \* per client: the server's session for its connection
    pyServer,    \* Python still holds the Server
    sq,          \* the server's event queue
    sseen,       \* the events Server.next() has returned
    held,        \* submit_sm events Python holds undecided
    arrived,     \* submit_sm messages on_submit_sm was called with
    answer,      \* per submit_sm: what on_submit_sm returned
    decided,     \* history, per submit_sm: what Python decided
    ack,         \* per deliver_sm: what on_deliver_sm returned
    sub,         \* per submit_sm: progress or result of Smsc.submit_sm
    del,         \* per deliver_sm: progress or result of Esme.deliver_sm
    flight,      \* requests and answers under way, <<stage, message>>
    missed       \* history: notifications that found no room

connVars   == <<conn, outcome>>
taskVars   == <<task, aborted, unbinding, pyClients>>
queueVars  == <<cq, seen>>
serverVars == <<listening, sess, pyServer>>
eventVars  == <<sq, sseen, held>>
msgVars    == <<arrived, answer, decided, ack, sub, del, flight>>
vars == <<connVars, taskVars, queueVars, serverVars, eventVars, msgVars, missed>>

ClientEvents == {"deliver"} \X Dels \cup {"disconnected"} \X Clients
ServerEvents == {"submit"} \X Subs \cup {"bound", "unbound"} \X Clients
Stages == {"submit", "on_submit", "submit_resp"} \X Subs
            \cup {"deliver", "on_deliver", "deliver_resp"} \X Dels

Init ==
    /\ conn = [c \in Clients |-> "idle"] /\ outcome = [c \in Clients |-> "none"]
    /\ task = [c \in Clients |-> "none"] /\ aborted = {} /\ unbinding = {}
    /\ pyClients = Clients
    /\ cq = [c \in Clients |-> <<>>] /\ seen = [c \in Clients |-> {}]
    /\ listening = FALSE /\ sess = [c \in Clients |-> "none"] /\ pyServer = TRUE
    /\ sq = <<>> /\ sseen = {} /\ held = {}
    /\ arrived = {}
    /\ answer = [m \in Subs |-> "none"] /\ decided = [m \in Subs |-> "none"]
    /\ ack = [m \in Dels |-> "none"]
    /\ sub = [m \in Subs |-> "idle"] /\ del = [m \in Dels |-> "idle"]
    /\ flight = {} /\ missed = {}

\* The Smsc connect() returned, while Python holds it.
Handle(c) == conn[c] = "bound" /\ c \in pyClients

Moves(m, from, to) == flight' = (flight \ {<<from, m>>}) \cup {<<to, m>>}

\* Mutant of ClientRoom: full is noticed one event late.
ClientRoomOneOver(c) == c \in pyClients /\ Len(cq[c]) <= ClientCap

\* try_send succeeds: the receiver exists and the queue has room.
ClientRoom(c) == c \in pyClients /\ Len(cq[c]) < ClientCap
ServerRoom    == pyServer /\ Len(sq) < ServerCap

\* `let _ = self.events_tx.try_send(..)': without room the event is gone.
TellClient(c, e) ==
    \/ /\ ClientRoom(c)
       /\ cq' = [cq EXCEPT ![c] = Append(@, e)]
       /\ UNCHANGED missed
    \/ /\ ~ClientRoom(c)
       /\ missed' = missed \cup {e}
       /\ UNCHANGED cq

TellServer(e) ==
    \/ ServerRoom /\ sq' = Append(sq, e) /\ UNCHANGED missed
    \/ ~ServerRoom /\ missed' = missed \cup {e} /\ UNCHANGED sq

-----------------------------------------------------------------------------
(* Client.connect(): the one-shot is taken, start() runs under the lock of *)
(* the SmppClient, then the bind is awaited under connect_timeout_ms.      *)

ConnectBegins(c) ==
    /\ conn[c] = "idle" /\ c \in pyClients
    /\ conn' = [conn EXCEPT ![c] = "starting"]
    /\ UNCHANGED <<outcome, taskVars, queueVars, serverVars, eventVars, msgVars,
                   missed>>

\* ClientForwarder::settle_bind: the sender is taken, so only the first counts.
Settle(c, result) ==
    outcome' = [outcome EXCEPT ![c] = IF @ = "none" THEN result ELSE @]

\* start() cannot connect: on_connection_failed, and no session task.
StartFails(c) ==
    /\ conn[c] = "starting"
    /\ conn' = [conn EXCEPT ![c] = "waiting"]
    /\ Settle(c, "failed")
    /\ UNCHANGED <<taskVars, queueVars, serverVars, eventVars, msgVars, missed>>

StartSpawns(c) ==
    /\ conn[c] = "starting" /\ listening
    /\ conn' = [conn EXCEPT ![c] = "waiting"]
    /\ task' = [task EXCEPT ![c] = "spawned"]
    /\ UNCHANGED <<outcome, aborted, unbinding, pyClients, queueVars, serverVars,
                   eventVars, msgVars, missed>>

ConnectReturns(c) ==
    /\ conn[c] = "waiting" /\ outcome[c] # "none"
    /\ conn' = [conn EXCEPT ![c] = outcome[c]]
    /\ UNCHANGED <<outcome, taskVars, queueVars, serverVars, eventVars, msgVars,
                   missed>>

ConnectTimesOut(c) ==
    /\ conn[c] = "waiting" /\ outcome[c] = "none"
    /\ conn' = [conn EXCEPT ![c] = "timed out"]
    /\ UNCHANGED <<outcome, taskVars, queueVars, serverVars, eventVars, msgVars,
                   missed>>

\* asyncio cancels the await and the future is dropped: a start() under way gives
\* up, a task it spawned goes on.  The one-shot is taken for good.
ConnectCancelled(c) ==
    /\ conn[c] \in {"starting", "waiting"}
    /\ conn' = [conn EXCEPT ![c] = "cancelled"]
    /\ UNCHANGED <<outcome, taskVars, queueVars, serverVars, eventVars, msgVars,
                   missed>>

-----------------------------------------------------------------------------
(* The client's session task, and what its forwarder does *)

BindWritten(c) ==
    /\ task[c] = "spawned"
    /\ task' = [task EXCEPT ![c] = "binding"]
    /\ sess' = [sess EXCEPT ![c] = "asked"]
    /\ UNCHANGED <<connVars, aborted, unbinding, pyClients, queueVars, listening,
                   pyServer, eventVars, msgVars, missed>>

\* Mutant of BindNotWritten: the `return' is missing and the task goes on.
BindNotWrittenGoesOn(c) ==
    /\ task[c] = "spawned"
    /\ Settle(c, "failed")
    /\ task' = [task EXCEPT ![c] = "binding"]
    /\ sess' = [sess EXCEPT ![c] = "asked"]
    /\ UNCHANGED <<conn, aborted, unbinding, pyClients, queueVars, listening,
                   pyServer, eventVars, msgVars, missed>>

\* The peer went away before the bind PDU was written: on_connection_failed.
BindNotWritten(c) ==
    /\ task[c] = "spawned"
    /\ Settle(c, "failed")
    /\ task' = [task EXCEPT ![c] = "over"]
    /\ UNCHANGED <<conn, aborted, unbinding, pyClients, queueVars, serverVars,
                   eventVars, msgVars, missed>>

\* Refused, garbled, end of stream or session_init_timer: nobody is told.
BindGivesUp(c) ==
    /\ task[c] = "binding"
    /\ task' = [task EXCEPT ![c] = "over"]
    /\ UNCHANGED <<connVars, aborted, unbinding, pyClients, queueVars, serverVars,
                   eventVars, msgVars, missed>>

\* on_smsc_bound.  If connect() has timed out or was cancelled the SMSC is dropped,
\* not the session.
SmscBound(c) ==
    /\ task[c] = "binding" /\ sess[c] \in {"accepted", "bound", "over"}
    /\ Settle(c, "bound")
    /\ task' = [task EXCEPT ![c] = "bound"]
    /\ UNCHANGED <<conn, aborted, unbinding, pyClients, queueVars, serverVars,
                   eventVars, msgVars, missed>>

\* The read loop is left: an unbind of either side, end of stream, timers.
LoopLeft(c) ==
    /\ task[c] = "bound"
    /\ task' = [task EXCEPT ![c] = "ending"]
    /\ UNCHANGED <<connVars, aborted, unbinding, pyClients, queueVars, serverVars,
                   eventVars, msgVars, missed>>

\* Mutant of SmscUnbound: the callback keeps its default, empty body.
SmscUnboundSilent(c) ==
    /\ task[c] = "ending"
    /\ task' = [task EXCEPT ![c] = "over"]
    /\ UNCHANGED <<connVars, aborted, unbinding, pyClients, queueVars, serverVars,
                   eventVars, msgVars, missed>>

\* on_smsc_unbound.
SmscUnbound(c) ==
    /\ task[c] = "ending"
    /\ TellClient(c, <<"disconnected", c>>)
    /\ task' = [task EXCEPT ![c] = "over"]
    /\ UNCHANGED <<connVars, aborted, unbinding, pyClients, seen, serverVars,
                   eventVars, msgVars>>

\* An abort takes effect at an await, and no callback is made.
Cancelled(c) ==
    /\ c \in aborted /\ task[c] \in {"spawned", "binding", "bound", "ending"}
    /\ task' = [task EXCEPT ![c] = "over"]
    /\ UNCHANGED <<connVars, aborted, unbinding, pyClients, queueVars, serverVars,
                   eventVars, msgVars, missed>>

\* Client.stop() waits for the lock connect() holds while it starts.
Stop(c) ==
    /\ c \in pyClients /\ task[c] # "none"
    /\ aborted' = aborted \cup {c}
    /\ UNCHANGED <<connVars, task, unbinding, pyClients, queueVars, serverVars,
                   eventVars, msgVars, missed>>

\* Smsc.unbind(): send_unbind, answered or timed out, and then the same stop().
UnbindBegins(c) ==
    /\ Handle(c) /\ c \notin unbinding
    /\ unbinding' = unbinding \cup {c}
    /\ UNCHANGED <<connVars, task, aborted, pyClients, queueVars, serverVars,
                   eventVars, msgVars, missed>>

UnbindStops(c) ==
    /\ c \in unbinding
    /\ unbinding' = unbinding \ {c}
    /\ aborted' = aborted \cup {c}
    /\ UNCHANGED <<connVars, task, pyClients, queueVars, serverVars, eventVars,
                   msgVars, missed>>

\* asyncio cancels unbind() before it comes to stop().
UnbindCancelled(c) ==
    /\ c \in unbinding
    /\ unbinding' = unbinding \ {c}
    /\ UNCHANGED <<connVars, task, aborted, pyClients, queueVars, serverVars,
                   eventVars, msgVars, missed>>

\* Python drops its last reference.  SmppClient's Drop stops a client that is
\* bound; one that is still binding goes on without it.
ClientDropped(c) ==
    /\ c \in pyClients /\ conn[c] \notin {"starting", "waiting"} /\ c \notin unbinding
    /\ pyClients' = pyClients \ {c}
    /\ cq' = [cq EXCEPT ![c] = <<>>]
    /\ aborted' = IF task[c] \in {"bound", "ending"} THEN aborted \cup {c} ELSE aborted
    /\ UNCHANGED <<connVars, task, unbinding, seen, serverVars, eventVars, msgVars,
                   missed>>

\* Smsc.next().
SmscNext(c) ==
    /\ Handle(c) /\ cq[c] # <<>>
    /\ seen' = [seen EXCEPT ![c] = @ \cup {Head(cq[c])}]
    /\ cq' = [cq EXCEPT ![c] = Tail(@)]
    /\ UNCHANGED <<connVars, taskVars, serverVars, eventVars, msgVars, missed>>

-----------------------------------------------------------------------------
(* The server's sessions and its forwarder *)

\* Server.start(); if the port is taken it raises and nothing has changed.
ServerStarts ==
    /\ pyServer /\ ~listening
    /\ listening' = TRUE
    /\ UNCHANGED <<connVars, taskVars, queueVars, sess, pyServer, eventVars, msgVars,
                   missed>>

\* Server.stop(): the sessions go on.
ServerStops ==
    /\ pyServer /\ listening
    /\ listening' = FALSE
    /\ UNCHANGED <<connVars, taskVars, queueVars, sess, pyServer, eventVars, msgVars,
                   missed>>

\* on_bind_*: every bind is accepted, unless the connection is lost before.
BindAnswered(c) ==
    /\ sess[c] = "asked"
    /\ \E s \in {"accepted", "closed"} : sess' = [sess EXCEPT ![c] = s]
    /\ UNCHANGED <<connVars, taskVars, queueVars, listening, pyServer, eventVars,
                   msgVars, missed>>

\* Mutant of EsmeBound: reading starts without the event.
EsmeBoundUnsent(c) ==
    /\ sess[c] = "accepted"
    /\ sess' = [sess EXCEPT ![c] = "bound"]
    /\ UNCHANGED <<connVars, taskVars, queueVars, listening, pyServer, eventVars,
                   msgVars, missed>>

\* on_esme_bound, which read_loop awaits before it reads.
EsmeBound(c) ==
    /\ sess[c] = "accepted"
    /\ TellServer(<<"bound", c>>)
    /\ sess' = [sess EXCEPT ![c] = "bound"]
    /\ UNCHANGED <<connVars, taskVars, queueVars, listening, pyServer, sseen, held,
                   msgVars>>

\* read_loop is left; on_esme_unbound.  Server tasks are never aborted.
EsmeUnbound(c) ==
    /\ sess[c] = "bound"
    /\ TellServer(<<"unbound", c>>)
    /\ sess' = [sess EXCEPT ![c] = "over"]
    /\ UNCHANGED <<connVars, taskVars, queueVars, listening, pyServer, sseen, held,
                   msgVars>>

\* Server.next(): with a SubmitSmEvent the responder passes to Python.
ServerNext ==
    /\ pyServer /\ sq # <<>>
    /\ sq' = Tail(sq)
    /\ sseen' = sseen \cup {Head(sq)}
    /\ held' = held \cup {m \in Subs : Head(sq) = <<"submit", m>>}
    /\ UNCHANGED <<connVars, taskVars, queueVars, serverVars, msgVars, missed>>

\* Events that hold a responder, in the queue and out of it.
Queued(m) == \E i \in 1 .. Len(sq) : sq[i] = <<"submit", m>>

\* on_submit_sm returns; without a writer the submit_sm_resp goes nowhere.
Decides(M, result) ==
    /\ answer' = [m \in Subs |-> IF m \in M THEN result ELSE answer[m]]
    /\ flight' = (flight \ {"on_submit"} \X M)
                   \cup {"submit_resp"} \X {m \in M : sess[ClientOf[m]] = "bound"}

\* Python drops the Server: the queue goes, and the responders in it.
ServerDropped ==
    /\ pyServer
    /\ pyServer' = FALSE /\ listening' = FALSE
    /\ sq' = <<>>
    /\ Decides({m \in Subs : Queued(m)}, "syserr")
    /\ UNCHANGED <<connVars, taskVars, queueVars, sess, sseen, held, arrived,
                   decided, ack, sub, del, missed>>

-----------------------------------------------------------------------------
(* submit_sm, from Smsc.submit_sm to the Python of the server and back *)

SubmitCalls(m) ==
    /\ Handle(ClientOf[m]) /\ sub[m] = "idle"
    /\ \/ /\ sub' = [sub EXCEPT ![m] = "sent"]
          /\ flight' = flight \cup {<<"submit", m>>}
       \/ /\ task[ClientOf[m]] \in {"ending", "over"}
          /\ sub' = [sub EXCEPT ![m] = "failed"]
          /\ UNCHANGED flight
    /\ UNCHANGED <<connVars, taskVars, queueVars, serverVars, eventVars, arrived,
                   decided, answer, ack, del, missed>>

\* The server's read loop spawns a task for on_submit_sm.
SubmitRead(m) ==
    /\ <<"submit", m>> \in flight /\ sess[ClientOf[m]] = "bound"
    /\ Moves(m, "submit", "on_submit")
    /\ UNCHANGED <<connVars, taskVars, queueVars, serverVars, eventVars, arrived,
                   decided, answer, ack, sub, del, missed>>

\* Mutant of OnSubmitSm: a full queue is answered like a queued message.
OnSubmitSmNoNak(m) ==
    /\ <<"on_submit", m>> \in flight /\ m \notin arrived
    /\ arrived' = arrived \cup {m}
    /\ \/ /\ ServerRoom
          /\ sq' = Append(sq, <<"submit", m>>)
          /\ UNCHANGED <<answer, flight>>
       \/ ~ServerRoom /\ Decides({m}, "ok") /\ UNCHANGED sq
    /\ UNCHANGED <<connVars, taskVars, queueVars, serverVars, sseen, held, decided,
                   ack, sub, del, missed>>

\* The event is queued with its responder, or the peer told ESME_RMSGQFUL.
OnSubmitSm(m) ==
    /\ <<"on_submit", m>> \in flight /\ m \notin arrived
    /\ arrived' = arrived \cup {m}
    /\ \/ /\ ServerRoom
          /\ sq' = Append(sq, <<"submit", m>>)
          /\ UNCHANGED <<answer, flight>>
       \/ ~ServerRoom /\ Decides({m}, "full") /\ UNCHANGED sq
    /\ UNCHANGED <<connVars, taskVars, queueVars, serverVars, sseen, held, decided,
                   ack, sub, del, missed>>

\* The outcome of an event whose responder Python holds.
Answers(m, result) ==
    /\ m \in held
    /\ held' = held \ {m}
    /\ Decides({m}, result)
    /\ UNCHANGED <<connVars, taskVars, queueVars, serverVars, sq, sseen, arrived,
                   ack, sub, del, missed>>

\* SubmitSmEvent.accept and reject: take_responder, then the answer.
PythonAnswers(m, status) ==
    /\ Answers(m, status)
    /\ decided' = [decided EXCEPT ![m] = status]

\* The submit_sm_resps told apart: accepted, ESME_RMSGQFUL, ESME_RSYSERR, any other
\* refusal, and "bare", ESME_ROK without a message_id.
Statuses == {"ok", "bare", "rejected", "full", "syserr"}

\* What Python may pass to reject(): a status, or a number that is none.
Codes == {"ESME_ROK", "rejected", "full", "syserr", "unknown"}

map_error(code) == IF code = "unknown" THEN "syserr" ELSE code

\* submit_sm::reject writes a header and no body, whatever the status.
reject(error) == IF error = "ESME_ROK" THEN "bare" ELSE error

Accept(m) == PythonAnswers(m, "ok")
Reject(m) == \E code \in Codes : PythonAnswers(m, reject(map_error(code)))

\* Mutant of EventDropped: on_submit_sm goes on waiting.
EventDroppedUnnoticed(m) ==
    /\ m \in held
    /\ held' = held \ {m}
    /\ UNCHANGED <<connVars, taskVars, queueVars, serverVars, sq, sseen, msgVars,
                   missed>>

\* The event object dies undecided, or accept() panics on a long message_id
\* after it took the responder: ESME_RSYSERR.
EventDropped(m) == Answers(m, "syserr") /\ UNCHANGED decided

\* An answer that does not decode for want of its message_id fails the call.
Received(status) == IF status = "bare" THEN "failed" ELSE status

SubmitReturns(m) ==
    /\ <<"submit_resp", m>> \in flight /\ task[ClientOf[m]] = "bound"
    /\ flight' = flight \ {<<"submit_resp", m>>}
    /\ sub' = [sub EXCEPT ![m] = IF @ = "sent" THEN Received(answer[m]) ELSE @]
    /\ UNCHANGED <<connVars, taskVars, queueVars, serverVars, eventVars, arrived,
                   decided, answer, ack, del, missed>>

\* response_timer, or the session ends.
SubmitFails(m) ==
    /\ sub[m] = "sent"
    /\ sub' = [sub EXCEPT ![m] = "failed"]
    /\ UNCHANGED <<connVars, taskVars, queueVars, serverVars, eventVars, arrived,
                   decided, answer, ack, del, flight, missed>>

-----------------------------------------------------------------------------
(* deliver_sm, from Esme.deliver_sm to the queue of the client and back *)

DeliverCalls(m) ==
    /\ <<"bound", ClientOf[m]>> \in sseen /\ del[m] = "idle"
    /\ \/ /\ del' = [del EXCEPT ![m] = "sent"]
          /\ flight' = flight \cup {<<"deliver", m>>}
       \/ /\ sess[ClientOf[m]] = "over"
          /\ del' = [del EXCEPT ![m] = "failed"]
          /\ UNCHANGED flight
    /\ UNCHANGED <<connVars, taskVars, queueVars, serverVars, eventVars, arrived,
                   decided, answer, ack, sub, missed>>

DeliverRead(m) ==
    /\ <<"deliver", m>> \in flight /\ task[ClientOf[m]] = "bound"
    /\ Moves(m, "deliver", "on_deliver")
    /\ UNCHANGED <<connVars, taskVars, queueVars, serverVars, eventVars, arrived,
                   decided, answer, ack, sub, del, missed>>

\* Mutant of OnDeliverSm: acknowledged whether or not it was queued.
OnDeliverSmAcksAll(m) ==
    LET c == ClientOf[m] IN
    /\ <<"on_deliver", m>> \in flight
    /\ \/ ClientRoom(c) /\ cq' = [cq EXCEPT ![c] = Append(@, <<"deliver", m>>)]
       \/ ~ClientRoom(c) /\ UNCHANGED cq
    /\ ack' = [ack EXCEPT ![m] = "ok"]
    /\ Moves(m, "on_deliver", "deliver_resp")
    /\ UNCHANGED <<connVars, taskVars, seen, serverVars, eventVars, arrived, decided,
                   answer, sub, del, missed>>

\* ACK once the event is queued, ESME_RMSGQFUL otherwise.
OnDeliverSm(m) ==
    LET c == ClientOf[m] IN
    /\ <<"on_deliver", m>> \in flight
    /\ \/ /\ ClientRoom(c)
          /\ cq' = [cq EXCEPT ![c] = Append(@, <<"deliver", m>>)]
          /\ ack' = [ack EXCEPT ![m] = "ok"]
       \/ /\ ~ClientRoom(c)
          /\ ack' = [ack EXCEPT ![m] = "full"]
          /\ UNCHANGED cq
    /\ Moves(m, "on_deliver", "deliver_resp")
    /\ UNCHANGED <<connVars, taskVars, seen, serverVars, eventVars, arrived, decided,
                   answer, sub, del, missed>>

DeliverReturns(m) ==
    /\ <<"deliver_resp", m>> \in flight /\ sess[ClientOf[m]] = "bound"
    /\ flight' = flight \ {<<"deliver_resp", m>>}
    /\ del' = [del EXCEPT ![m] = IF @ = "sent" THEN ack[m] ELSE @]
    /\ UNCHANGED <<connVars, taskVars, queueVars, serverVars, eventVars, arrived,
                   decided, answer, ack, sub, missed>>

DeliverFails(m) ==
    /\ del[m] = "sent"
    /\ del' = [del EXCEPT ![m] = "failed"]
    /\ UNCHANGED <<connVars, taskVars, queueVars, serverVars, eventVars, arrived,
                   decided, answer, ack, sub, flight, missed>>

-----------------------------------------------------------------------------
Connect(c) == ConnectReturns(c) \/ ConnectTimesOut(c) \/ ConnectCancelled(c)

Ending(c) == SmscUnbound(c) \/ Cancelled(c)

ClientStep(c) ==
    \/ ConnectBegins(c) \/ StartFails(c) \/ StartSpawns(c) \/ Connect(c)
    \/ BindWritten(c) \/ BindNotWritten(c) \/ BindGivesUp(c) \/ SmscBound(c) \/ LoopLeft(c)
    \/ Ending(c) \/ Stop(c) \/ UnbindBegins(c) \/ UnbindStops(c) \/ UnbindCancelled(c)
    \/ ClientDropped(c) \/ SmscNext(c)

ServerStep ==
    \/ ServerStarts \/ ServerStops \/ ServerNext \/ ServerDropped
    \/ \E c \in Clients : BindAnswered(c) \/ EsmeBound(c) \/ EsmeUnbound(c)

SubmitStep(m) ==
    \/ SubmitCalls(m) \/ SubmitRead(m) \/ OnSubmitSm(m) \/ Accept(m) \/ Reject(m)
    \/ EventDropped(m) \/ SubmitReturns(m) \/ SubmitFails(m)

DeliverStep(m) ==
    \/ DeliverCalls(m) \/ DeliverRead(m) \/ OnDeliverSm(m) \/ DeliverReturns(m)
    \/ DeliverFails(m)

Next ==
    \/ \E c \in Clients : ClientStep(c)
    \/ ServerStep
    \/ \E m \in Subs : SubmitStep(m)
    \/ \E m \in Dels : DeliverStep(m)

Spec == Init /\ [][Next]_vars

(***************************************************************************)
(* Fairness: a session task that has left its read loop comes to its end   *)
(* (on_smsc_unbound only tries to queue an event, or the abort takes       *)
(* effect), and the Python on both sides keeps awaiting next().  Nobody    *)
(* has to connect, send, answer, stop or drop anything.                    *)
(***************************************************************************)
Fairness ==
    /\ \A c \in Clients : WF_vars(Ending(c)) /\ WF_vars(SmscNext(c))
    /\ WF_vars(ServerNext)

FairSpec == Spec /\ Fairness

-----------------------------------------------------------------------------
(* Properties *)

InQueue(e, q) == \E i \in 1 .. Len(q) : q[i] = e

\* Type correctness; the queues stay within inbound_capacity.
TypeOK ==
    /\ conn \in [Clients -> {"idle", "starting", "waiting", "bound", "failed",
                             "timed out", "cancelled"}]
    /\ outcome \in [Clients -> {"none", "bound", "failed"}]
    /\ task \in [Clients -> {"none", "spawned", "binding", "bound", "ending", "over"}]
    /\ aborted \subseteq Clients /\ unbinding \subseteq Clients
    /\ pyClients \subseteq Clients
    /\ cq \in [Clients -> Seq(ClientEvents)]
    /\ \A c \in Clients : Len(cq[c]) <= ClientCap
    /\ seen \in [Clients -> SUBSET ClientEvents]
    /\ listening \in BOOLEAN /\ pyServer \in BOOLEAN
    /\ sess \in [Clients -> {"none", "asked", "accepted", "closed", "bound", "over"}]
    /\ sq \in Seq(ServerEvents) /\ Len(sq) <= ServerCap
    /\ sseen \subseteq ServerEvents
    /\ held \subseteq Subs /\ arrived \subseteq Subs
    /\ answer \in [Subs -> {"none"} \cup Statuses]
    /\ decided \in [Subs -> {"none"} \cup Statuses]
    /\ ack \in [Dels -> {"none", "ok", "full"}]
    /\ sub \in [Subs -> {"idle", "sent", "failed"} \cup Statuses]
    /\ del \in [Dels -> {"idle", "sent", "ok", "full", "failed"}]
    /\ flight \subseteq Stages
    /\ missed \subseteq ClientEvents \cup ServerEvents

\* Every submit_sm that reached on_submit_sm has one decider until it is
\* answered, and then none: its responder is in one queued event or in one event
\* object Python holds, never in both, and it is answered when neither has it,
\* whether Python accepted, rejected, lost the event or dropped the server.
OneDecider ==
    \A m \in arrived :
      /\ answer[m] = "none" <=> Queued(m) \/ m \in held
      /\ ~(Queued(m) /\ m \in held)

\* A deliver_sm is acknowledged to the SMSC exactly when Python gets it: an
\* acknowledged one is in the queue or was returned by next() as long as Python
\* holds the client, and one that was refused with ESME_RMSGQFUL never shows up
\* (the SMSC will send it again).  What Esme.deliver_sm reports is that.
AckedMeansQueued ==
    \A m \in Dels :
      LET c == ClientOf[m]  e == <<"deliver", m>> IN
      /\ ack[m] = "ok" /\ c \in pyClients => e \in seen[c] \/ InQueue(e, cq[c])
      /\ ack[m] # "ok" => e \notin seen[c] /\ ~InQueue(e, cq[c])
      /\ del[m] \in {"ok", "full"} => del[m] = ack[m]

\* End to end, what Smsc.submit_sm returns is what the server's application did:
\* the status it decided on, for an event it was given; where it decided nothing,
\* ESME_RMSGQFUL for an event it never saw, or ESME_RSYSERR for one that was
\* dropped.  No message is reported accepted that Python did not accept(); a
\* reject(ESME_ROK), whose answer does not decode, makes the call fail.
ResultIsTruth ==
    \A m \in Subs : sub[m] \in Statuses =>
      \/ decided[m] = sub[m] /\ <<"submit", m>> \in sseen
      \/ decided[m] = "none" /\ sub[m] = "full" /\ <<"submit", m>> \notin sseen
      \/ decided[m] = "none" /\ sub[m] = "syserr" /\ m \notin held /\ ~Queued(m)

\* The events about the session of client c that follow its Esme.
Traffic(c) ==
    {<<"unbound", c>>} \cup {<<"submit", m>> : m \in {s \in Subs : ClientOf[s] = c}}

\* Python hears of a session before it hears of its traffic or its end: an event
\* about a session comes behind its Esme, unless that was lost on a full queue.
EsmeFirst ==
    \A c \in Clients : <<"bound", c>> \notin missed =>
      \A e \in Traffic(c) :
        /\ e \in sseen => <<"bound", c>> \in sseen
        /\ \A i \in 1 .. Len(sq) : sq[i] = e =>
             <<"bound", c>> \in sseen \/ \E j \in 1 .. i - 1 : sq[j] = <<"bound", c>>

\* connect() and the session agree: a returned Smsc had a bound session, and a
\* bound session has its Smsc returned, about to be, or lost in a connect() that
\* timed out before a late bind or was cancelled.
HandleMatchesSession ==
    \A c \in Clients :
      /\ conn[c] = "bound" => task[c] \in {"bound", "ending", "over"}
      /\ task[c] \in {"bound", "ending"} =>
           \/ conn[c] \in {"bound", "timed out", "cancelled"}
           \/ conn[c] = "waiting" /\ outcome[c] = "bound"

\* Both applications learn of the end of a session by awaiting next(): Disconnected
\* once the read loop is left, unless it met a full queue or the task was aborted by
\* stop() or unbind(); Unbound unless it met a full queue.  Dropping the client or
\* the server ends the wait too.
EndReported ==
    \A c \in Clients :
      /\ Handle(c) /\ task[c] \in {"ending", "over"} ~>
           \/ <<"disconnected", c>> \in seen[c] \cup missed
           \/ c \in aborted \/ c \notin pyClients
      /\ sess[c] = "over" ~> <<"unbound", c>> \in sseen \cup missed \/ ~pyServer
=============================================================================
