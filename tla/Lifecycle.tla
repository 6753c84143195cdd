----------------------------- MODULE Lifecycle -----------------------------
(***************************************************************************)
(* Coming up and going down: SmppClient::start, stop and Drop with the     *)
(* session task each start() spawns, and SmppServer::start and stop with   *)
(* its accept loop and the bind handshake of every connection (state OPEN  *)
(* to BOUND_* or CLOSED).  A bound session is one state here: what goes on *)
(* inside, and what keeps a connection after its session task, is module   *)
(* Session.                                                                *)
(*                                                                         *)
(* A connection is a number: the client's n-th start() makes connection n; *)
(* the connections of Strangers are other ESMEs', which may send anything. *)
(***************************************************************************)
EXTENDS Naturals

CONSTANTS
    MaxStarts,   \* bound: start() calls of the client
    Strangers    \* connections other ESMEs make

ASSUME LifecycleAssumption == MaxStarts \in Nat /\ Strangers \cap (1 .. MaxStarts) = {}

Starts == 1 .. MaxStarts
Conns  == Starts \cup Strangers

VARIABLES
    alive,     \* the client's AtomicBool, shared by all its session tasks
    handle,    \* JoinHandle: the connection of the last session task, or 0
    starts,    \* start() calls so far that did not panic
    dropped,   \* the SmppClient has been dropped
    task,      \* per start(): its session task
    aborted,   \* session tasks with abort() called
    early,     \* history: those of them that were not bound yet
    stopped,   \* history: session tasks under way in a stop()
    crowded,   \* history: tasks start() was called past, and those it spawned then
    told,      \* per start(): the notifications its listener got
    accepting, \* the server's AtomicBool; its accept loop runs
    srv,       \* per connection: the server's task for it
    verdict,   \* per start(): what on_bind_* answered to its bind
    sent,      \* the connections of the client with its bind PDU on them
    resp       \* per start(): the first PDU on the way back

history == <<early, stopped, crowded>>
clientVars == <<alive, handle, starts, dropped, task, aborted, history, told>>
serverVars == <<accepting, srv, verdict, resp>>
vars == <<clientVars, serverVars, sent>>

Init ==
    /\ alive = FALSE /\ handle = 0 /\ starts = 0 /\ dropped = FALSE
    /\ task = [k \in Starts |-> "none"] /\ aborted = {} /\ early = {}
    /\ stopped = {} /\ crowded = {}
    /\ told = [k \in Starts |-> {}]
    /\ accepting = FALSE
    /\ srv = [k \in Conns |-> "none"]
    /\ verdict = [k \in Starts |-> "none"]
    /\ sent = {}
    /\ resp = [k \in Starts |-> "none"]

Over(k) == task[k] \in {"none", "done"}
Binding(k) == task[k] \in {"spawned", "binding", "accepted"}
InSession(k) == task[k] \in {"bound", "unbinding"}
Ends(k) == task' = [task EXCEPT ![k] = "done"]
Tell(k, what) == told' = [told EXCEPT ![k] = @ \cup {what}]

\* The connection as one side sees the other.
ClientGone(k) == k \in Starts /\ task[k] = "done"
ServerGone(k) == srv[k] = "closed"

-----------------------------------------------------------------------------
(* SmppClient *)

\* Mutant of MayStart: a client that is running may be started.
MayStartUnchecked == ~dropped /\ starts < MaxStarts

\* `alive' is looked at before connecting and set only once the bind is
\* accepted; when it is set, start() panics and changes nothing.
MayStart == ~alive /\ ~dropped /\ starts < MaxStarts

\* The session tasks an n-th start() does not keep out although they are under
\* way: they have not set `alive' yet, or have lost it to a stop() or to one of
\* their number.  With none of them nothing is joined.
Overlooked == {k \in Starts : Binding(k) \/ (InSession(k) /\ k \in stopped \cup crowded)}
Joined(n) == Overlooked \cup {k \in {n} : Overlooked # {}}

StartFails ==
    /\ MayStart
    /\ starts' = starts + 1
    /\ Ends(starts + 1)
    /\ Tell(starts + 1, "failed")
    /\ UNCHANGED <<alive, handle, dropped, aborted, history, serverVars, sent>>

\* The kernel completes the connection; the handle of an earlier task is lost.
StartConnects ==
    /\ MayStart
    /\ accepting
    /\ starts' = starts + 1
    /\ handle' = starts + 1
    /\ task' = [task EXCEPT ![starts + 1] = "spawned"]
    /\ srv' = [srv EXCEPT ![starts + 1] = "backlog"]
    /\ crowded' = crowded \cup Joined(starts + 1)
    /\ UNCHANGED <<alive, dropped, aborted, early, stopped, told, accepting, verdict, sent,
                   resp>>

\* The session task writes the bind PDU, or learns that the peer has gone.
BindWritten(k) ==
    /\ task[k] = "spawned"
    /\ \/ /\ task' = [task EXCEPT ![k] = "binding"]
          /\ sent' = sent \cup {k}
          /\ UNCHANGED told
       \/ /\ ServerGone(k)
          /\ Ends(k) /\ Tell(k, "failed")
          /\ UNCHANGED sent
    /\ UNCHANGED <<alive, handle, starts, dropped, aborted, history, serverVars>>

\* Mutant of BindAccepted: command_status is not looked at.
BindAcceptedAnyStatus(k) ==
    /\ task[k] = "binding"
    /\ resp[k] \in {"ok", "refused"}
    /\ task' = [task EXCEPT ![k] = "accepted"]
    /\ UNCHANGED <<alive, handle, starts, dropped, aborted, history, told, serverVars, sent>>

\* Sequence number 1, ESME_ROK and the response to this kind of bind.
BindAccepted(k) ==
    /\ task[k] = "binding"
    /\ resp[k] = "ok"
    /\ task' = [task EXCEPT ![k] = "accepted"]
    /\ UNCHANGED <<alive, handle, starts, dropped, aborted, history, told, serverVars, sent>>

\* Mutant of BindGivesUp: no timer, only a refusal or the end of the stream.
BindGivesUpOnClose(k) ==
    /\ task[k] = "binding"
    /\ resp[k] \in {"refused", "nack"} \/ (resp[k] = "none" /\ ServerGone(k))
    /\ Ends(k)
    /\ UNCHANGED <<alive, handle, starts, dropped, aborted, history, told, serverVars, sent>>

\* Refused, end of the stream, a read error, or session_init_timer, which may
\* fire with a success on its way: logged and no more.
BindGivesUp(k) ==
    /\ task[k] = "binding"
    /\ Ends(k)
    /\ UNCHANGED <<alive, handle, starts, dropped, aborted, history, told, serverVars, sent>>

\* There is no await between the test and this: an abort cannot come between.
Bound(k) ==
    /\ task[k] = "accepted"
    /\ alive' = TRUE
    /\ task' = [task EXCEPT ![k] = "bound"]
    /\ Tell(k, "bound")
    /\ UNCHANGED <<handle, starts, dropped, aborted, history, serverVars, sent>>

\* The read loop is left, for whatever reason.
Unbound(k) ==
    /\ task[k] = "bound"
    /\ task' = [task EXCEPT ![k] = "unbinding"]
    /\ Tell(k, "unbound")
    /\ UNCHANGED <<alive, handle, starts, dropped, aborted, history, serverVars, sent>>

\* Mutant of SessionOver: the flag is left to stop().
SessionOverKeepsFlag(k) ==
    /\ task[k] = "unbinding"
    /\ Ends(k)
    /\ UNCHANGED <<alive, handle, starts, dropped, aborted, history, told, serverVars, sent>>

\* on_smsc_unbound has returned.
SessionOver(k) ==
    /\ task[k] = "unbinding"
    /\ alive' = FALSE
    /\ Ends(k)
    /\ UNCHANGED <<handle, starts, dropped, aborted, history, told, serverVars, sent>>

\* The abort of stop() takes effect at an await, and nobody is told.
Cancelled(k) ==
    /\ k \in aborted
    /\ task[k] \in {"spawned", "binding", "bound", "unbinding"}
    /\ Ends(k)
    /\ UNCHANGED <<alive, handle, starts, dropped, aborted, history, told, serverVars, sent>>

\* Mutant of Stops: the handle is given up without abort().
StopsDetaches ==
    /\ alive' = FALSE
    /\ handle' = 0
    /\ aborted' = aborted
    /\ early' = early \cup {k \in Starts : k = handle /\ Binding(k)}
    /\ stopped' = stopped \cup {k \in Starts : ~Over(k)}

Stops ==
    /\ alive' = FALSE
    /\ handle' = 0
    /\ aborted' = aborted \cup ({handle} \ {0})
    /\ early' = early \cup {k \in Starts : k = handle /\ Binding(k)}
    /\ stopped' = stopped \cup {k \in Starts : ~Over(k)}

Stop ==
    /\ ~dropped
    /\ Stops
    /\ UNCHANGED <<starts, dropped, task, crowded, told, serverVars, sent>>

\* Drop stops a client that is `alive'; the task of one that is still binding
\* is detached and goes on.
Drop ==
    /\ ~dropped
    /\ dropped' = TRUE
    /\ \/ alive /\ Stops
       \/ ~alive /\ handle' = 0 /\ UNCHANGED <<alive, aborted, early, stopped>>
    /\ UNCHANGED <<starts, task, crowded, told, serverVars, sent>>

-----------------------------------------------------------------------------
(* SmppServer *)

\* What is decided and answered on a stranger's connection leaves the model.
Answers(k, p) == resp' = [j \in Starts |-> IF j = k THEN p ELSE resp[j]]
Judges(k, v)  == verdict' = [j \in Starts |-> IF j = k THEN v ELSE verdict[j]]

\* TcpListener::bind succeeds; if not, on_listen_failed is called and nothing
\* runs.  On a server that is up start() panics.
ServerStarts ==
    /\ ~accepting
    /\ accepting' = TRUE
    /\ UNCHANGED <<clientVars, srv, verdict, sent, resp>>

\* stop(), Drop or an accept error.  The listening socket is closed: nobody will
\* take up the connections in its queue.  Sessions go on, without an unbind.
AcceptLoopEnds ==
    /\ accepting
    /\ accepting' = FALSE
    /\ srv' = [k \in Conns |-> IF srv[k] = "backlog" THEN "closed" ELSE srv[k]]
    /\ UNCHANGED <<clientVars, verdict, sent, resp>>

Accept(k) ==
    /\ accepting
    /\ srv[k] = "backlog"
    /\ srv' = [srv EXCEPT ![k] = "open"]
    /\ UNCHANGED <<clientVars, accepting, verdict, sent, resp>>

\* Another ESME's connection is completed by the kernel.
StrangerConnects(k) ==
    /\ accepting
    /\ srv[k] = "none"
    /\ srv' = [srv EXCEPT ![k] = "backlog"]
    /\ UNCHANGED <<clientVars, accepting, verdict, sent, resp>>

\* The first PDU the server may find on a connection: a bind, one that does not
\* decode, anything else (a bogus header included), or the end of the stream,
\* whose empty buffer has no header to decode.
FirstPdus(k) ==
    IF k \in Strangers THEN {"bind", "garbled bind", "other", "end"}
    ELSE IF k \in sent THEN {"bind"}
    ELSE IF ClientGone(k) THEN {"end"} ELSE {}

\* What the handshake answers to anything but a bind that decodes: a bind_resp
\* with the error, or generic_nack (ESME_RINVBNDSTS, or the header's error).
Rejection(p) == IF p = "garbled bind" THEN "refused" ELSE "nack"

ReadsFirst(k) ==
    /\ srv[k] = "open"
    /\ \E p \in FirstPdus(k) :
         \/ /\ p = "bind"
            /\ srv' = [srv EXCEPT ![k] = "deciding"]
            /\ UNCHANGED resp
         \/ /\ p # "bind"
            /\ srv' = [srv EXCEPT ![k] = "closed"]
            /\ Answers(k, Rejection(p))
    /\ UNCHANGED <<clientVars, accepting, verdict, sent>>

\* session_init_timer without a whole PDU, or a read error.
OpenTimesOut(k) ==
    /\ srv[k] = "open"
    /\ k \notin sent
    /\ srv' = [srv EXCEPT ![k] = "closed"]
    /\ UNCHANGED <<clientVars, accepting, verdict, sent, resp>>

\* on_bind_* returns and OPEN::bind_* answers: bound once a success is written.
Decides(k) ==
    /\ srv[k] = "deciding"
    /\ \/ /\ Judges(k, "yes")
          /\ \/ /\ Answers(k, "ok")
                /\ srv' = [srv EXCEPT ![k] = "bound"]
             \/ /\ ClientGone(k)
                /\ srv' = [srv EXCEPT ![k] = "closed"]
                /\ UNCHANGED resp
       \/ /\ Judges(k, "no")
          /\ Answers(k, "refused")
          /\ srv' = [srv EXCEPT ![k] = "closed"]
    /\ UNCHANGED <<clientVars, accepting, sent>>

\* read_loop returns, for whatever reason.
ServerUnbound(k) ==
    /\ srv[k] = "bound"
    /\ srv' = [srv EXCEPT ![k] = "closed"]
    /\ UNCHANGED <<clientVars, accepting, verdict, sent, resp>>

-----------------------------------------------------------------------------
ClientTask(k) ==
    \/ BindWritten(k) \/ BindAccepted(k) \/ BindGivesUp(k) \/ Bound(k)
    \/ SessionOver(k) \/ Cancelled(k)

ServerTask(k) == Accept(k) \/ ReadsFirst(k) \/ OpenTimesOut(k)

Next ==
    \/ StartFails \/ StartConnects \/ Stop \/ Drop
    \/ \E k \in Starts : ClientTask(k) \/ Unbound(k)
    \/ ServerStarts \/ AcceptLoopEnds
    \/ \E k \in Conns : ServerTask(k) \/ Decides(k) \/ ServerUnbound(k)
    \/ \E k \in Strangers : StrangerConnects(k)

Spec == Init /\ [][Next]_vars

(***************************************************************************)
(* Fairness: tasks that can run do, and the handshake's timer fires.       *)
(* Nobody has to start, stop, drop or unbind, on_bind_*, the application's,*)
(* need not return, and when a session ends is module Session's question.  *)
(***************************************************************************)
Fairness == \A k \in Starts : WF_vars(ClientTask(k)) /\ WF_vars(ServerTask(k))

FairSpec == Spec /\ Fairness

-----------------------------------------------------------------------------
(* Properties *)

\* Type correctness of client, server and connections; a task stop() met before
\* it was bound is one whose abort() was called.
TypeOK ==
    /\ alive \in BOOLEAN /\ dropped \in BOOLEAN
    /\ handle \in 0 .. MaxStarts /\ starts \in 0 .. MaxStarts
    /\ task \in [Starts -> {"none", "spawned", "binding", "accepted", "bound",
                            "unbinding", "done"}]
    /\ early \subseteq aborted /\ aborted \subseteq Starts
    /\ stopped \subseteq Starts /\ crowded \subseteq Starts
    /\ told \in [Starts -> SUBSET {"failed", "bound", "unbound"}]
    /\ accepting \in BOOLEAN
    /\ srv \in [Conns -> {"none", "backlog", "open", "deciding", "bound", "closed"}]
    /\ verdict \in [Starts -> {"none", "yes", "no"}]
    /\ sent \subseteq Starts
    /\ resp \in [Starts -> {"none", "ok", "refused", "nack"}]

\* The two sides agree on a bind: a client is in a session, and has told its
\* listener so, only on a connection whose bind the server's listener accepted,
\* whatever was stopped, dropped or restarted meanwhile.
AgreeOnBind ==
    \A k \in Starts :
      task[k] \in {"accepted", "bound", "unbinding"} \/ "bound" \in told[k]
        => verdict[k] = "yes" /\ srv[k] \in {"bound", "closed"}

\* Once all session tasks are over the client can be started again: `alive' is
\* clear, unless stop() aborted a task that had not set the flag yet and that
\* set it before the abort took effect.
FlagClearedUnlessRaced ==
    (\A k \in Starts : Over(k)) /\ alive => \E k \in early : "bound" \in told[k]

\* The handshake never hangs: a session task that waits for its bind response
\* gets on, whatever the server does.
HandshakeEnds == \A k \in Starts : task[k] = "binding" ~> task[k] # "binding"

\* A session keeps the flag it runs under: it can find `alive' clear (and end for
\* it) only after a stop() of this client, or when start() was called while a
\* session task was still binding, because the test at the head of start() then
\* lets a second session in whose end clears the flag of both.
SessionKeepsFlag ==
    \A k \in Starts : InSession(k) /\ ~alive => k \in stopped \cup crowded

=============================================================================
