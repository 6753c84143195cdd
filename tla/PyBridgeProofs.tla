--------------------------- MODULE PyBridgeProofs ---------------------------
(***************************************************************************)
(* Proofs about PyBridge, for every set of clients and messages and every  *)
(* inbound_capacity of the queues.                                         *)
(***************************************************************************)
EXTENDS PyBridge, SequenceTheorems, TLAPS

-----------------------------------------------------------------------------
(* The inductive invariant, in parts *)

\* connect() is settled once, and by the task it started.
ConnInv ==
    \A c \in Clients :
      /\ conn[c] \in {"idle", "starting"} => outcome[c] = "none" /\ task[c] = "none"
      /\ task[c] \in {"none", "spawned"} => sess[c] = "none"
      /\ task[c] \in {"spawned", "binding"} => outcome[c] = "none"
      /\ task[c] \in {"bound", "ending"} => outcome[c] = "bound"
      /\ outcome[c] = "bound" => task[c] \in {"bound", "ending", "over"}
      /\ conn[c] \in {"bound", "failed"} => outcome[c] = conn[c]

\* A deliver_sm is at one stage at a time and on_deliver_sm decides it once.
DeliverInv ==
    \A m \in Dels :
      /\ del[m] = "idle" =>
           ack[m] = "none" /\ <<"deliver", m>> \notin flight /\ <<"on_deliver", m>> \notin flight
      /\ <<"deliver", m>> \in flight => ack[m] = "none" /\ <<"on_deliver", m>> \notin flight
      /\ <<"on_deliver", m>> \in flight => ack[m] = "none"
      /\ <<"deliver_resp", m>> \in flight => ack[m] # "none"

\* An event is at most once on a queue.
OnceIn(e, q) == \A i, j \in 1 .. Len(q) : q[i] = e /\ q[j] = e => i = j

\* A submit_sm has one event and at most one decider, its answer is what Python
\* decided of the event it got, or says that it decided nothing, and no other
\* answer comes back.
SubmitOk(m) ==
    /\ m \notin arrived =>
         /\ answer[m] = "none" /\ decided[m] = "none" /\ ~Queued(m) /\ m \notin held
         /\ <<"submit", m>> \notin sseen
    /\ m \in arrived =>
         /\ answer[m] = "none" <=> Queued(m) \/ m \in held
         /\ ~(Queued(m) /\ m \in held)
    /\ OnceIn(<<"submit", m>>, sq)
    /\ m \in held => <<"submit", m>> \in sseen
    /\ decided[m] # "none" => answer[m] = decided[m] /\ <<"submit", m>> \in sseen
    /\ decided[m] = "none" =>
         \/ answer[m] \in {"none", "syserr"}
         \/ answer[m] = "full" /\ <<"submit", m>> \notin sseen
    /\ <<"submit_resp", m>> \in flight => answer[m] # "none"
    /\ sub[m] \in {"idle", "sent", "failed", answer[m]}

SubmitInv == \A m \in Subs : SubmitOk(m)

\* The Esme of a session that reads was queued, seen or lost before it read.
EsmeInv ==
    /\ ~pyServer => sq = <<>>
    /\ \A c \in Clients : sess[c] \in {"bound", "over"} /\ pyServer =>
         <<"bound", c>> \in missed \cup sseen \/ InQueue(<<"bound", c>>, sq)
    /\ \A m \in Subs : <<"on_submit", m>> \in flight => sess[ClientOf[m]] \in {"bound", "over"}

IInv ==
    /\ TypeOK /\ ConnInv
    /\ DeliverInv /\ AckedMeansQueued
    /\ SubmitInv
    /\ EsmeInv /\ EsmeFirst

-----------------------------------------------------------------------------
(* Facts about queues *)

\* What try_send puts on a queue is what it holds besides its old events.
LEMMA AppendHas ==
    ASSUME NEW T, NEW s \in Seq(T), NEW e \in T
    PROVE  \A x : InQueue(x, Append(s, e)) <=> InQueue(x, s) \/ x = e
  <1>1. /\ Len(Append(s, e)) = Len(s) + 1 /\ Len(s) \in Nat
        /\ \A i \in 1 .. Len(s) : Append(s, e)[i] = s[i]
        /\ Append(s, e)[Len(s) + 1] = e
    BY AppendProperties
  <1> QED
    BY <1>1 DEF InQueue

\* What next() leaves on a queue is what it held besides the event returned.
LEMMA TailHas ==
    ASSUME NEW T, NEW s \in Seq(T), s # <<>>
    PROVE  /\ \A x : InQueue(x, s) <=> x = Head(s) \/ InQueue(x, Tail(s))
           /\ Tail(s) \in Seq(T) /\ Head(s) \in T
           /\ Len(s) \in Nat \ {0} /\ Len(Tail(s)) = Len(s) - 1 /\ Head(s) = s[1]
           /\ \A i \in 1 .. Len(s) - 1 : Tail(s)[i] = s[i + 1]
  <1>1. /\ Tail(s) \in Seq(T) /\ Head(s) \in T /\ Head(s) = s[1]
        /\ Len(s) \in Nat \ {0} /\ Len(Tail(s)) = Len(s) - 1
        /\ \A i \in 1 .. Len(s) - 1 : Tail(s)[i] = s[i + 1]
    BY HeadTailProperties
  <1>2. ASSUME NEW x, InQueue(x, s) PROVE x = Head(s) \/ InQueue(x, Tail(s))
    <2>1. PICK i \in 1 .. Len(s) : s[i] = x
      BY <1>2 DEF InQueue
    <2>2. CASE i = 1
      BY <2>1, <2>2, <1>1
    <2>3. CASE i # 1
      <3>1. i - 1 \in 1 .. Len(s) - 1 /\ Tail(s)[i - 1] = s[(i - 1) + 1]
        BY <2>3, <1>1
      <3> QED
        BY <3>1, <2>1, <1>1 DEF InQueue
    <2> QED
      BY <2>2, <2>3
  <1>3. ASSUME NEW x, x = Head(s) \/ InQueue(x, Tail(s)) PROVE InQueue(x, s)
    BY <1>1, <1>3 DEF InQueue
  <1> QED
    BY <1>1, <1>2, <1>3

\* An event stays unique on a queue unless it is put there again ...
LEMMA AppendOnce ==
    ASSUME NEW T, NEW s \in Seq(T), NEW e \in T, NEW x, OnceIn(x, s),
           x # e \/ ~InQueue(x, s)
    PROVE  OnceIn(x, Append(s, e))
  <1>1. /\ Len(Append(s, e)) = Len(s) + 1 /\ Len(s) \in Nat
        /\ \A i \in 1 .. Len(s) : Append(s, e)[i] = s[i]
        /\ Append(s, e)[Len(s) + 1] = e
    BY AppendProperties
  <1> QED
    BY <1>1 DEF OnceIn, InQueue

\* ... and once next() has returned it, it is gone.
LEMMA TailOnce ==
    ASSUME NEW T, NEW s \in Seq(T), s # <<>>, NEW x, OnceIn(x, s)
    PROVE  OnceIn(x, Tail(s)) /\ (x = Head(s) => ~InQueue(x, Tail(s)))
  <1>1. /\ Head(s) = s[1] /\ Len(s) \in Nat \ {0} /\ Len(Tail(s)) = Len(s) - 1
        /\ \A i \in 1 .. Len(s) - 1 : Tail(s)[i] = s[i + 1]
    BY TailHas
  <1>2. ASSUME NEW i \in 1 .. Len(s) - 1, NEW j \in 1 .. Len(s) - 1,
               Tail(s)[i] = x, Tail(s)[j] = x
        PROVE  i = j
    <2>1. i + 1 \in 1 .. Len(s) /\ j + 1 \in 1 .. Len(s) /\ s[i + 1] = x /\ s[j + 1] = x
      BY <1>1, <1>2
    <2>2. i + 1 = j + 1
      BY <2>1 DEF OnceIn
    <2> QED
      BY <2>2
  <1>3. ASSUME NEW i \in 1 .. Len(s) - 1, Tail(s)[i] = x, x = Head(s) PROVE FALSE
    <2>1. i + 1 \in 1 .. Len(s) /\ 1 \in 1 .. Len(s) /\ s[i + 1] = x /\ s[1] = x
      BY <1>1, <1>3
    <2>2. i + 1 = 1
      BY <2>1 DEF OnceIn
    <2> QED
      BY <2>2
  <1> QED
    BY <1>1, <1>2, <1>3 DEF OnceIn, InQueue

\* An empty queue and one next() has shortened are within the capacity.
LEMMA QueueFits ==
    ASSUME NEW T, NEW n \in Nat
    PROVE  /\ <<>> \in Seq(T) /\ Len(<<>>) <= n
           /\ \A s \in Seq(T) : s # <<>> /\ Len(s) <= n =>
                Tail(s) \in Seq(T) /\ Head(s) \in T /\ Len(Tail(s)) <= n
  <1>1. ASSUME NEW s \in Seq(T), s # <<>>, Len(s) <= n
        PROVE  Tail(s) \in Seq(T) /\ Head(s) \in T /\ Len(Tail(s)) <= n
    BY <1>1, TailHas
  <1>2. <<>> \in Seq(T) /\ Len(<<>>) <= n
    OBVIOUS
  <1> QED
    BY <1>1, <1>2

-----------------------------------------------------------------------------
(* What each group of steps leaves alone *)

\* A step leaves the stage of a message alone.
SameDeliver(d) ==
    /\ <<"deliver", d>> \in flight' <=> <<"deliver", d>> \in flight
    /\ <<"on_deliver", d>> \in flight' <=> <<"on_deliver", d>> \in flight
    /\ <<"deliver_resp", d>> \in flight' <=> <<"deliver_resp", d>> \in flight

SameSubmit(s) ==
    /\ <<"submit", s>> \in flight' <=> <<"submit", s>> \in flight
    /\ <<"on_submit", s>> \in flight' <=> <<"on_submit", s>> \in flight
    /\ <<"submit_resp", s>> \in flight' <=> <<"submit_resp", s>> \in flight

\* A client's steps touch neither the server's events nor any message.
LEMMA ClientFrame ==
    ASSUME NEW c \in Clients, ClientStep(c)
    PROVE  UNCHANGED <<listening, pyServer, eventVars, msgVars>>
  BY DEF ClientStep, Connect, Ending, ConnectBegins, StartFails, StartSpawns, ConnectReturns,
         ConnectTimesOut, ConnectCancelled, BindWritten, BindNotWritten, BindGivesUp, SmscBound, LoopLeft,
         SmscUnbound, Cancelled, Stop, UnbindBegins, UnbindStops, UnbindCancelled, ClientDropped, SmscNext,
         connVars, taskVars, queueVars, serverVars, eventVars, msgVars

\* The server's steps touch no client and no deliver_sm.
LEMMA ServerFrame ==
    ASSUME ServerStep
    PROVE  /\ UNCHANGED <<connVars, taskVars, queueVars, arrived, decided, ack, sub, del>>
           /\ \A d \in Dels : SameDeliver(d)
  BY DEF ServerStep, ServerStarts, ServerStops, ServerNext, ServerDropped, BindAnswered,
         EsmeBound, EsmeUnbound, Decides, SameDeliver, connVars, taskVars, queueVars, serverVars,
         eventVars, msgVars

\* The steps of a submit_sm touch no client, no session and no deliver_sm.
LEMMA SubmitFrame ==
    ASSUME NEW m \in Subs, SubmitStep(m)
    PROVE  /\ UNCHANGED <<connVars, taskVars, queueVars, serverVars, ack, del, missed>>
           /\ \A d \in Dels : SameDeliver(d)
  BY DEF SubmitStep, SubmitCalls, SubmitRead, OnSubmitSm, Accept, Reject, EventDropped, PythonAnswers, Answers,
         SubmitReturns, SubmitFails, Decides, Moves, SameDeliver, connVars, taskVars, queueVars,
         serverVars, eventVars, msgVars

\* The steps of a deliver_sm touch no session, no server event and no submit_sm.
LEMMA DeliverFrame ==
    ASSUME NEW m \in Dels, DeliverStep(m)
    PROVE  /\ UNCHANGED <<connVars, taskVars, serverVars, eventVars, arrived, decided,
                          answer, sub, seen, missed>>
           /\ \A s \in Subs : SameSubmit(s)
  BY DEF DeliverStep, DeliverCalls, DeliverRead, OnDeliverSm, DeliverReturns, DeliverFails,
         Moves, SameSubmit, connVars, taskVars, queueVars, serverVars, eventVars, msgVars

-----------------------------------------------------------------------------
(* Type correctness *)

\* The capacities are numbers.
LEMMA Caps == ClientCap \in Nat /\ ServerCap \in Nat
  BY PyBridgeAssumption

\* Before anybody connects the queues are empty and nothing is under way.
LEMMA TypeInit == Init => TypeOK
  <1> SUFFICES ASSUME Init PROVE TypeOK
    OBVIOUS
  <1>1. ClientCap \in Nat /\ ServerCap \in Nat
    BY PyBridgeAssumption
  <1>2. /\ cq \in [Clients -> Seq(ClientEvents)]
        /\ \A c \in Clients : Len(cq[c]) <= ClientCap
        /\ sq \in Seq(ServerEvents) /\ Len(sq) <= ServerCap
    BY <1>1 DEF Init
  <1> QED
    BY <1>2 DEF Init, TypeOK

\* An event told to a client keeps its queue within inbound_capacity.
LEMMA TellClientType ==
    ASSUME TypeOK, NEW c \in Clients, NEW e \in ClientEvents, TellClient(c, e)
    PROVE  /\ cq' \in [Clients -> Seq(ClientEvents)]
           /\ \A d \in Clients : Len(cq'[d]) <= ClientCap
           /\ missed' \subseteq ClientEvents \cup ServerEvents
  <1>1. CASE ClientRoom(c) /\ cq' = [cq EXCEPT ![c] = Append(@, e)] /\ UNCHANGED missed
    <2>1. cq[c] \in Seq(ClientEvents) /\ Len(cq[c]) < ClientCap
      BY <1>1 DEF TypeOK, ClientRoom
    <2>2. Append(cq[c], e) \in Seq(ClientEvents) /\ Len(Append(cq[c], e)) <= ClientCap
      BY <2>1, PyBridgeAssumption
    <2> QED
      BY <1>1, <2>2 DEF TypeOK
  <1>2. CASE missed' = missed \cup {e} /\ UNCHANGED cq
    BY <1>2 DEF TypeOK
  <1> QED
    BY <1>1, <1>2 DEF TellClient

\* The same for the server's queue.
LEMMA TellServerType ==
    ASSUME TypeOK, NEW e \in ServerEvents, TellServer(e)
    PROVE  /\ sq' \in Seq(ServerEvents) /\ Len(sq') <= ServerCap
           /\ missed' \subseteq ClientEvents \cup ServerEvents
  <1>1. sq \in Seq(ServerEvents) /\ Len(sq) <= ServerCap /\ ServerCap \in Nat
    BY PyBridgeAssumption DEF TypeOK
  <1>2. CASE ServerRoom /\ sq' = Append(sq, e) /\ UNCHANGED missed
    <2>1. Len(sq) < ServerCap
      BY <1>2 DEF ServerRoom
    <2>2. Append(sq, e) \in Seq(ServerEvents) /\ Len(Append(sq, e)) <= ServerCap
      BY <1>1, <2>1
    <2> QED
      BY <1>2, <2>2 DEF TypeOK
  <1>3. CASE missed' = missed \cup {e} /\ UNCHANGED sq
    BY <1>3 DEF TypeOK
  <1> QED
    BY <1>2, <1>3 DEF TellServer

\* The client's steps preserve the types.
LEMMA TypeClient ==
    ASSUME TypeOK, NEW c \in Clients, ClientStep(c)
    PROVE  TypeOK'
  <1> USE DEF TypeOK, connVars, taskVars, queueVars, serverVars, eventVars, msgVars
  <1>1. CASE ConnectBegins(c)
    BY <1>1 DEF ConnectBegins
  <1>2. CASE StartFails(c)
    BY <1>2 DEF StartFails, Settle
  <1>3. CASE StartSpawns(c)
    BY <1>3 DEF StartSpawns
  <1>4. CASE Connect(c)
    <2>1. CASE ConnectReturns(c)
      BY <2>1 DEF ConnectReturns
    <2>2. CASE ConnectTimesOut(c)
      BY <2>2 DEF ConnectTimesOut
    <2>3. CASE ConnectCancelled(c)
      BY <2>3 DEF ConnectCancelled
    <2> QED
      BY <1>4, <2>1, <2>2, <2>3 DEF Connect
  <1>5. CASE BindWritten(c)
    BY <1>5 DEF BindWritten
  <1>6. CASE BindNotWritten(c)
    BY <1>6 DEF BindNotWritten, Settle
  <1>7. CASE BindGivesUp(c)
    BY <1>7 DEF BindGivesUp
  <1>8. CASE SmscBound(c)
    BY <1>8 DEF SmscBound, Settle
  <1>9. CASE LoopLeft(c)
    BY <1>9 DEF LoopLeft
  <1>10. CASE SmscUnbound(c)
    <2>1. <<"disconnected", c>> \in ClientEvents
      BY DEF ClientEvents
    <2>2. /\ cq' \in [Clients -> Seq(ClientEvents)]
          /\ \A d \in Clients : Len(cq'[d]) <= ClientCap
          /\ missed' \subseteq ClientEvents \cup ServerEvents
      BY <1>10, <2>1, TellClientType DEF SmscUnbound
    <2> QED
      BY <1>10, <2>2 DEF SmscUnbound
  <1>11. CASE Cancelled(c)
    BY <1>11 DEF Cancelled
  <1>12. CASE Stop(c) \/ UnbindBegins(c) \/ UnbindStops(c) \/ UnbindCancelled(c)
    <2>1. CASE Stop(c)
      BY <2>1 DEF Stop
    <2>2. CASE UnbindBegins(c)
      BY <2>2 DEF UnbindBegins
    <2>3. CASE UnbindStops(c)
      BY <2>3 DEF UnbindStops
    <2>4. CASE UnbindCancelled(c)
      BY <2>4 DEF UnbindCancelled
    <2> QED
      BY <1>12, <2>1, <2>2, <2>3, <2>4
  <1>13. CASE ClientDropped(c)
    <2>1. /\ cq' \in [Clients -> Seq(ClientEvents)]
          /\ \A d \in Clients : Len(cq'[d]) <= ClientCap
      <3>1. cq' = [cq EXCEPT ![c] = <<>>]
        BY <1>13 DEF ClientDropped
      <3> QED
        BY <3>1, Caps, QueueFits
    <2>2. pyClients' \subseteq Clients /\ aborted' \subseteq Clients
      BY <1>13 DEF ClientDropped
    <2> QED
      BY <1>13, <2>1, <2>2 DEF ClientDropped
  <1>14. CASE SmscNext(c)
    <2>0. cq[c] \in Seq(ClientEvents) /\ cq[c] # <<>> /\ Len(cq[c]) <= ClientCap
      BY <1>14 DEF SmscNext
    <2>1. /\ Tail(cq[c]) \in Seq(ClientEvents) /\ Head(cq[c]) \in ClientEvents
          /\ Len(Tail(cq[c])) <= ClientCap
      BY <2>0, Caps, QueueFits
    <2> QED
      BY <1>14, <2>1 DEF SmscNext
  <1> QED
    BY <1>1, <1>2, <1>3, <1>4, <1>5, <1>6, <1>7, <1>8, <1>9, <1>10, <1>11, <1>12, <1>13,
       <1>14 DEF ClientStep, Ending

\* An answer to requests that stand for themselves is well typed.
LEMMA DecidesType ==
    ASSUME TypeOK, NEW M \in SUBSET Subs, NEW r \in Statuses,
           Decides(M, r)
    PROVE  /\ answer' \in [Subs -> {"none"} \cup Statuses]
           /\ flight' \subseteq Stages
  BY DEF TypeOK, Decides, Stages

\* The server's steps preserve the types.
LEMMA TypeServer ==
    ASSUME TypeOK, ServerStep
    PROVE  TypeOK'
  <1> USE DEF TypeOK, connVars, taskVars, queueVars, serverVars, eventVars, msgVars
  <1>1. CASE ServerStarts \/ ServerStops
    <2>1. listening' \in BOOLEAN
      BY <1>1 DEF ServerStarts, ServerStops
    <2>2. UNCHANGED <<conn, outcome, task, aborted, unbinding, pyClients, cq, seen, sess,
                      pyServer, sq, sseen, held, arrived, answer, decided, ack, sub, del, flight,
                      missed>>
      BY <1>1 DEF ServerStarts, ServerStops
    <2> QED
      BY <2>1, <2>2
  <1>2. CASE ServerNext
    <2>1. /\ Tail(sq) \in Seq(ServerEvents) /\ Head(sq) \in ServerEvents
          /\ Len(Tail(sq)) <= ServerCap
      <3>1. sq \in Seq(ServerEvents) /\ sq # <<>> /\ Len(sq) <= ServerCap
        BY <1>2 DEF ServerNext
      <3> QED
        BY <3>1, Caps, QueueFits
    <2> QED
      BY <1>2, <2>1 DEF ServerNext
  <1>3. CASE ServerDropped
    <2>1. <<>> \in Seq(ServerEvents) /\ Len(<<>>) <= ServerCap
      BY Caps, QueueFits
    <2>2. answer' \in [Subs -> {"none"} \cup Statuses]
          /\ flight' \subseteq Stages
      BY <1>3, DecidesType DEF ServerDropped, Statuses
    <2> QED
      BY <1>3, <2>1, <2>2 DEF ServerDropped
  <1>4. ASSUME NEW c \in Clients, BindAnswered(c)
        PROVE  TypeOK'
    <2>1. PICK s \in {"accepted", "closed"} : sess' = [sess EXCEPT ![c] = s]
      BY <1>4 DEF BindAnswered
    <2> QED
      BY <1>4, <2>1 DEF BindAnswered
  <1>5. ASSUME NEW c \in Clients, EsmeBound(c) \/ EsmeUnbound(c)
        PROVE  TypeOK'
    <2>1. <<"bound", c>> \in ServerEvents /\ <<"unbound", c>> \in ServerEvents
      BY DEF ServerEvents
    <2>2. /\ sq' \in Seq(ServerEvents) /\ Len(sq') <= ServerCap
          /\ missed' \subseteq ClientEvents \cup ServerEvents
      BY <1>5, <2>1, TellServerType DEF EsmeBound, EsmeUnbound
    <2>3. CASE EsmeBound(c)
      BY <2>2, <2>3 DEF EsmeBound
    <2>4. CASE EsmeUnbound(c)
      BY <2>2, <2>4 DEF EsmeUnbound
    <2> QED
      BY <1>5, <2>3, <2>4
  <1> QED
    BY <1>1, <1>2, <1>3, <1>4, <1>5 DEF ServerStep

\* Whatever number Python passes to reject(), the answer is one of Statuses.
LEMMA ErrorMapped == \A code \in Codes : reject(map_error(code)) \in Statuses
  BY DEF map_error, reject, Codes, Statuses

\* The steps of a submit_sm preserve the types.
LEMMA TypeSubmit ==
    ASSUME TypeOK, SubmitInv, NEW m \in Subs, SubmitStep(m)
    PROVE  TypeOK'
  <1> USE DEF connVars, taskVars, queueVars, serverVars, eventVars, msgVars
  <1>1. <<"submit", m>> \in Stages /\ <<"on_submit", m>> \in Stages
    BY DEF Stages
  <1>0. /\ flight \subseteq Stages /\ held \subseteq Subs
        /\ sub \in [Subs -> {"idle", "sent", "failed"} \cup Statuses]
    BY DEF TypeOK
  <1>2. CASE SubmitCalls(m)
    <2>1. sub' \in [Subs -> {"idle", "sent", "failed"} \cup Statuses]
      BY <1>0, <1>2 DEF SubmitCalls
    <2>2. flight' \subseteq Stages
      BY <1>0, <1>1, <1>2 DEF SubmitCalls
    <2> QED
      BY <1>2, <2>1, <2>2 DEF TypeOK, SubmitCalls
  <1>3. CASE SubmitRead(m)
    <2>1. flight' \subseteq Stages
      BY <1>0, <1>1, <1>3 DEF SubmitRead, Moves
    <2> QED
      BY <1>3, <2>1 DEF TypeOK, SubmitRead
  <1>4. CASE OnSubmitSm(m)
    <2>1. CASE ServerRoom /\ sq' = Append(sq, <<"submit", m>>) /\ UNCHANGED <<answer, flight>>
      <3>1. <<"submit", m>> \in ServerEvents
        BY DEF ServerEvents
      <3>2. sq' \in Seq(ServerEvents) /\ Len(sq') <= ServerCap
        <4>1. TellServer(<<"submit", m>>)
          BY <1>4, <2>1 DEF OnSubmitSm, TellServer
        <4> QED
          BY <4>1, <3>1, TellServerType
      <3> QED
        BY <1>4, <2>1, <3>2 DEF TypeOK, OnSubmitSm
    <2>2. CASE Decides({m}, "full") /\ UNCHANGED sq
      <3>1. /\ answer' \in [Subs -> {"none"} \cup Statuses]
            /\ flight' \subseteq Stages
        BY <2>2, DecidesType DEF Statuses
      <3> QED
        BY <1>4, <2>2, <3>1 DEF TypeOK, OnSubmitSm
    <2> QED
      BY <1>4, <2>1, <2>2 DEF OnSubmitSm
  <1>5. ASSUME NEW r \in Statuses, Answers(m, r), decided' \in [Subs -> {"none"} \cup Statuses]
        PROVE  TypeOK'
    <2>1. /\ answer' \in [Subs -> {"none"} \cup Statuses]
          /\ flight' \subseteq Stages
      BY <1>5, DecidesType DEF Answers
    <2>2. held' \subseteq Subs
      BY <1>0, <1>5 DEF Answers
    <2> QED
      BY <1>5, <2>1, <2>2 DEF TypeOK, Answers
  <1>6. CASE SubmitReturns(m)
    BY <1>6 DEF TypeOK, SubmitReturns, Received, SubmitInv, SubmitOk
  <1>7. CASE SubmitFails(m)
    BY <1>7 DEF TypeOK, SubmitFails
  <1>8. ASSUME NEW r \in Statuses, PythonAnswers(m, r) PROVE TypeOK'
    <2>1. decided' \in [Subs -> {"none"} \cup Statuses]
      BY <1>8 DEF PythonAnswers, TypeOK
    <2> QED
      BY <1>5, <1>8, <2>1 DEF PythonAnswers
  <1>9. CASE EventDropped(m)
    BY <1>5, <1>9 DEF EventDropped, TypeOK, Statuses
  <1> QED
    BY <1>2, <1>3, <1>4, <1>6, <1>7, <1>8, <1>9, ErrorMapped
       DEF SubmitStep, Accept, Reject, Statuses

\* The steps of a deliver_sm preserve the types.
LEMMA TypeDeliver ==
    ASSUME TypeOK, DeliverInv, NEW m \in Dels, DeliverStep(m)
    PROVE  TypeOK'
  <1> USE DEF connVars, taskVars, queueVars, serverVars, eventVars, msgVars
  <1>1. /\ <<"deliver", m>> \in Stages /\ <<"on_deliver", m>> \in Stages
        /\ <<"deliver_resp", m>> \in Stages
    BY DEF Stages
  <1>0. /\ flight \subseteq Stages
        /\ ack \in [Dels -> {"none", "ok", "full"}]
        /\ del \in [Dels -> {"idle", "sent", "ok", "full", "failed"}]
    BY DEF TypeOK
  <1>2. CASE DeliverCalls(m)
    <2>1. del' \in [Dels -> {"idle", "sent", "ok", "full", "failed"}]
      BY <1>0, <1>2 DEF DeliverCalls
    <2>2. flight' \subseteq Stages
      BY <1>0, <1>1, <1>2 DEF DeliverCalls
    <2> QED
      BY <1>2, <2>1, <2>2 DEF TypeOK, DeliverCalls
  <1>3. CASE DeliverRead(m)
    <2>1. flight' \subseteq Stages
      BY <1>0, <1>1, <1>3 DEF DeliverRead, Moves
    <2> QED
      BY <1>3, <2>1 DEF TypeOK, DeliverRead
  <1>4. CASE OnDeliverSm(m)
    <2> DEFINE c == ClientOf[m]
    <2>1. c \in Clients /\ <<"deliver", m>> \in ClientEvents
      BY PyBridgeAssumption DEF ClientEvents
    <2> HIDE DEF c
    <2>2. /\ cq' \in [Clients -> Seq(ClientEvents)]
          /\ \A d \in Clients : Len(cq'[d]) <= ClientCap
      <3>1. CASE ClientRoom(c) /\ cq' = [cq EXCEPT ![c] = Append(@, <<"deliver", m>>)]
        <4>1. TellClient(c, <<"deliver", m>>)
          BY <1>4, <3>1 DEF OnDeliverSm, TellClient
        <4> QED
          BY <4>1, <2>1, TellClientType
      <3>2. CASE UNCHANGED cq
        BY <3>2 DEF TypeOK
      <3> QED
        BY <1>4, <3>1, <3>2 DEF OnDeliverSm, c
    <2>3. ack' \in [Dels -> {"none", "ok", "full"}]
      BY <1>0, <1>4 DEF OnDeliverSm
    <2>4. flight' \subseteq Stages
      BY <1>0, <1>1, <1>4 DEF OnDeliverSm, Moves
    <2> QED
      BY <1>4, <2>2, <2>3, <2>4 DEF TypeOK, OnDeliverSm
  <1>5. CASE DeliverReturns(m)
    BY <1>5 DEF TypeOK, DeliverReturns, DeliverInv
  <1>6. CASE DeliverFails(m)
    BY <1>6 DEF TypeOK, DeliverFails
  <1> QED
    BY <1>2, <1>3, <1>4, <1>5, <1>6 DEF DeliverStep

\* Every step preserves the types.
LEMMA TypeStep == TypeOK /\ DeliverInv /\ SubmitInv /\ [Next]_vars => TypeOK'
  <1> SUFFICES ASSUME TypeOK, DeliverInv, SubmitInv, [Next]_vars PROVE TypeOK'
    OBVIOUS
  <1>1. CASE UNCHANGED vars
    BY <1>1 DEF TypeOK, vars, connVars, taskVars, queueVars, serverVars, eventVars, msgVars
  <1> QED
    BY <1>1, TypeClient, TypeServer, TypeSubmit, TypeDeliver DEF Next

-----------------------------------------------------------------------------
(* connect() *)

\* Every step keeps connect() and its session task in agreement.
LEMMA ConnStep == TypeOK /\ ConnInv /\ [Next]_vars => ConnInv'
  <1> SUFFICES ASSUME TypeOK, ConnInv, [Next]_vars PROVE ConnInv'
    OBVIOUS
  <1> USE DEF ConnInv, connVars, taskVars, serverVars
  <1>1. /\ conn \in [Clients -> {"idle", "starting", "waiting", "bound", "failed",
                                 "timed out", "cancelled"}]
        /\ outcome \in [Clients -> {"none", "bound", "failed"}]
        /\ task \in [Clients -> {"none", "spawned", "binding", "bound", "ending", "over"}]
        /\ sess \in [Clients -> {"none", "asked", "accepted", "closed", "bound", "over"}]
    BY DEF TypeOK
  <1>2. ASSUME NEW c \in Clients, ClientStep(c) PROVE ConnInv'
    <2>1. CASE ConnectBegins(c)
      BY <1>1, <2>1 DEF ConnectBegins
    <2>2. CASE StartFails(c)
      BY <1>1, <2>2 DEF StartFails, Settle
    <2>3. CASE StartSpawns(c)
      BY <1>1, <2>3 DEF StartSpawns
    <2>4. CASE ConnectReturns(c)
      BY <1>1, <2>4 DEF ConnectReturns
    <2>5. CASE ConnectTimesOut(c)
      BY <1>1, <2>5 DEF ConnectTimesOut
    <2>14. CASE ConnectCancelled(c)
      BY <1>1, <2>14 DEF ConnectCancelled
    <2>6. CASE BindWritten(c)
      BY <1>1, <2>6 DEF BindWritten
    <2>7. CASE BindNotWritten(c)
      BY <1>1, <2>7 DEF BindNotWritten, Settle
    <2>8. CASE BindGivesUp(c)
      BY <1>1, <2>8 DEF BindGivesUp
    <2>9. CASE SmscBound(c)
      BY <1>1, <2>9 DEF SmscBound, Settle
    <2>10. CASE LoopLeft(c)
      BY <1>1, <2>10 DEF LoopLeft
    <2>11. CASE SmscUnbound(c)
      BY <1>1, <2>11 DEF SmscUnbound
    <2>12. CASE Cancelled(c)
      BY <1>1, <2>12 DEF Cancelled
    <2>13. CASE \/ Stop(c) \/ UnbindBegins(c) \/ UnbindStops(c) \/ UnbindCancelled(c)
                \/ ClientDropped(c) \/ SmscNext(c)
      BY <1>1, <2>13 DEF Stop, UnbindBegins, UnbindStops, UnbindCancelled, ClientDropped, SmscNext
    <2> QED
      BY <1>2, <2>1, <2>2, <2>3, <2>4, <2>5, <2>6, <2>7, <2>8, <2>9, <2>10, <2>11, <2>12,
         <2>13, <2>14 DEF ClientStep, Connect, Ending
  <1>3. CASE ServerStep
    <2>1. UNCHANGED <<conn, outcome, task>>
      BY <1>3, ServerFrame
    <2>2. \A c \in Clients : sess[c] = "none" => sess'[c] = "none"
      <3>1. CASE ServerStarts \/ ServerStops \/ ServerNext \/ ServerDropped
        BY <3>1 DEF ServerStarts, ServerStops, ServerNext, ServerDropped
      <3>2. ASSUME NEW c \in Clients, BindAnswered(c) \/ EsmeBound(c) \/ EsmeUnbound(c)
            PROVE  \A d \in Clients : sess[d] = "none" => sess'[d] = "none"
        BY <1>1, <3>2 DEF BindAnswered, EsmeBound, EsmeUnbound
      <3> QED
        BY <1>3, <3>1, <3>2 DEF ServerStep
    <2> QED
      BY <2>1, <2>2
  <1>4. ASSUME NEW m \in Subs, SubmitStep(m) PROVE ConnInv'
    BY <1>4, SubmitFrame
  <1>5. ASSUME NEW m \in Dels, DeliverStep(m) PROVE ConnInv'
    BY <1>5, DeliverFrame
  <1>6. CASE UNCHANGED vars
    BY <1>6 DEF vars
  <1> QED
    BY <1>2, <1>3, <1>4, <1>5, <1>6 DEF Next

\* What connect() returned and the session agree.
LEMMA ConnImplies == TypeOK /\ ConnInv => HandleMatchesSession
  BY DEF TypeOK, ConnInv, HandleMatchesSession

-----------------------------------------------------------------------------
(* deliver_sm *)

\* Every step keeps a deliver_sm at one stage and its answer final.
LEMMA DeliverStepInv == TypeOK /\ DeliverInv /\ [Next]_vars => DeliverInv'
  <1> SUFFICES ASSUME TypeOK, DeliverInv, [Next]_vars PROVE DeliverInv'
    OBVIOUS
  <1>1. /\ ack \in [Dels -> {"none", "ok", "full"}]
        /\ del \in [Dels -> {"idle", "sent", "ok", "full", "failed"}]
    BY DEF TypeOK
  <1>2. ASSUME UNCHANGED <<ack, del>>, \A d \in Dels : SameDeliver(d)
        PROVE  DeliverInv'
    BY <1>2 DEF DeliverInv, SameDeliver
  <1>3. ASSUME NEW c \in Clients, ClientStep(c) PROVE DeliverInv'
    <2>1. UNCHANGED <<ack, del, flight>>
      BY <1>3, ClientFrame DEF msgVars
    <2> QED
      BY <2>1, <1>2 DEF SameDeliver
  <1>4. CASE ServerStep
    BY <1>4, <1>2, ServerFrame
  <1>5. ASSUME NEW m \in Subs, SubmitStep(m) PROVE DeliverInv'
    BY <1>5, <1>2, SubmitFrame
  <1>6. ASSUME NEW m \in Dels, DeliverStep(m) PROVE DeliverInv'
    <2> SUFFICES ASSUME NEW d \in Dels
                 PROVE  DeliverInv!(d)'
      BY DEF DeliverInv
    <2>1. CASE DeliverCalls(m)
      BY <1>1, <2>1 DEF DeliverCalls, DeliverInv
    <2>2. CASE DeliverRead(m)
      BY <1>1, <2>2 DEF DeliverRead, Moves, DeliverInv, msgVars
    <2>3. CASE OnDeliverSm(m)
      BY <1>1, <2>3 DEF OnDeliverSm, Moves, DeliverInv, msgVars
    <2>4. CASE DeliverReturns(m)
      BY <1>1, <2>4 DEF DeliverReturns, DeliverInv
    <2>5. CASE DeliverFails(m)
      BY <1>1, <2>5 DEF DeliverFails, DeliverInv
    <2> QED
      BY <1>6, <2>1, <2>2, <2>3, <2>4, <2>5 DEF DeliverStep
  <1>7. CASE UNCHANGED vars
    BY <1>7, <1>2 DEF vars, msgVars, SameDeliver
  <1> QED
    BY <1>3, <1>4, <1>5, <1>6, <1>7 DEF Next

\* An event that is no deliver_sm changes nothing for one.
LEMMA TellClientHas ==
    ASSUME TypeOK, NEW c \in Clients, NEW e \in ClientEvents, TellClient(c, e),
           NEW d \in Clients, NEW x, x # e
    PROVE  InQueue(x, cq'[d]) <=> InQueue(x, cq[d])
  <1>1. cq \in [Clients -> Seq(ClientEvents)] /\ cq[c] \in Seq(ClientEvents)
    BY DEF TypeOK
  <1>2. InQueue(x, Append(cq[c], e)) <=> InQueue(x, cq[c])
    BY <1>1, AppendHas
  <1> QED
    BY <1>1, <1>2 DEF TellClient

\* Every step keeps acknowledgement and delivery to Python together.
LEMMA AckStep == TypeOK /\ DeliverInv /\ AckedMeansQueued /\ [Next]_vars => AckedMeansQueued'
  <1> SUFFICES ASSUME TypeOK, DeliverInv, AckedMeansQueued, [Next]_vars, NEW d \in Dels
               PROVE  AckedMeansQueued!(d)'
    BY DEF AckedMeansQueued
  <1> DEFINE c == ClientOf[d]
             e == <<"deliver", d>>
  <1>1. c \in Clients /\ e \in ClientEvents
    BY PyBridgeAssumption DEF ClientEvents
  <1>2. /\ ack[d] = "ok" /\ c \in pyClients => e \in seen[c] \/ InQueue(e, cq[c])
        /\ ack[d] # "ok" => e \notin seen[c] /\ ~InQueue(e, cq[c])
        /\ del[d] \in {"ok", "full"} => del[d] = ack[d]
    BY DEF AckedMeansQueued
  <1>3. /\ ack \in [Dels -> {"none", "ok", "full"}]
        /\ del \in [Dels -> {"idle", "sent", "ok", "full", "failed"}]
        /\ cq \in [Clients -> Seq(ClientEvents)] /\ cq[c] \in Seq(ClientEvents)
        /\ seen \in [Clients -> SUBSET ClientEvents]
    BY <1>1 DEF TypeOK
  <1> DEFINE Goal == /\ ack'[d] = "ok" /\ c \in pyClients' => e \in seen'[c] \/ InQueue(e, cq'[c])
                     /\ ack'[d] # "ok" => e \notin seen'[c] /\ ~InQueue(e, cq'[c])
                     /\ del'[d] \in {"ok", "full"} => del'[d] = ack'[d]
  <1> SUFFICES Goal
    OBVIOUS
  <1> HIDE DEF c
  <1>4. ASSUME NEW k \in Clients, ClientStep(k) PROVE Goal
    <2>1. UNCHANGED <<ack, del>>
      BY <1>4, ClientFrame DEF msgVars
    <2>2. CASE SmscUnbound(k)
      <3>1. <<"disconnected", k>> \in ClientEvents /\ e # <<"disconnected", k>>
        BY DEF ClientEvents
      <3>2. InQueue(e, cq'[c]) <=> InQueue(e, cq[c])
        BY <2>2, <3>1, <1>1, TellClientHas DEF SmscUnbound
      <3>3. UNCHANGED <<pyClients, seen>>
        BY <2>2 DEF SmscUnbound
      <3> QED
        BY <2>1, <3>2, <3>3, <1>2
    <2>3. CASE ClientDropped(k)
      <3>1. /\ pyClients' = pyClients \ {k} /\ UNCHANGED seen
            /\ cq' = [cq EXCEPT ![k] = <<>>]
        BY <2>3 DEF ClientDropped
      <3>2. ~InQueue(e, <<>>)
        BY DEF InQueue
      <3> QED
        BY <2>1, <3>1, <3>2, <1>1, <1>2, <1>3
    <2>4. CASE SmscNext(k)
      <3>1. /\ UNCHANGED pyClients /\ cq[k] # <<>>
            /\ seen' = [seen EXCEPT ![k] = @ \cup {Head(cq[k])}]
            /\ cq' = [cq EXCEPT ![k] = Tail(@)]
        BY <2>4 DEF SmscNext, taskVars
      <3>2. CASE k = c
        <4>1. InQueue(e, cq[c]) <=> e = Head(cq[c]) \/ InQueue(e, Tail(cq[c]))
          BY <3>1, <3>2, <1>3, TailHas
        <4> QED
          BY <2>1, <3>1, <3>2, <4>1, <1>1, <1>2, <1>3
      <3>3. CASE k # c
        BY <2>1, <3>1, <3>3, <1>1, <1>2, <1>3
      <3> QED
        BY <3>2, <3>3
    <2>5. CASE UNCHANGED <<pyClients, seen, cq>>
      BY <2>1, <2>5, <1>2
    <2>6. \/ SmscUnbound(k) \/ ClientDropped(k) \/ SmscNext(k)
          \/ UNCHANGED <<pyClients, seen, cq>>
      BY <1>4 DEF ClientStep, Connect, Ending, ConnectBegins, StartFails, StartSpawns,
         ConnectReturns, ConnectTimesOut, ConnectCancelled, BindWritten, BindNotWritten, BindGivesUp, SmscBound,
         LoopLeft, Cancelled, Stop, UnbindBegins, UnbindStops, UnbindCancelled, taskVars, queueVars
    <2> QED
      BY <2>2, <2>3, <2>4, <2>5, <2>6
  <1>5. ASSUME UNCHANGED <<pyClients, seen, cq, ack, del>> PROVE Goal
    BY <1>5, <1>2
  <1>6. CASE ServerStep
    BY <1>6, <1>5, ServerFrame DEF taskVars, queueVars
  <1>7. ASSUME NEW m \in Subs, SubmitStep(m) PROVE Goal
    BY <1>7, <1>5, SubmitFrame DEF taskVars, queueVars
  <1>8. ASSUME NEW m \in Dels, DeliverStep(m) PROVE Goal
    <2>1. UNCHANGED <<pyClients, seen>>
      BY <1>8, DeliverFrame DEF taskVars
    <2>2. CASE OnDeliverSm(m)
      <3>1. del' = del /\ <<"on_deliver", m>> \in flight
        BY <2>2 DEF OnDeliverSm
      <3>2. CASE m = d
        <4>1. ack[d] = "none" /\ del[d] \notin {"ok", "full"}
          BY <3>1, <3>2, <1>2, <1>3 DEF DeliverInv
        <4>2. CASE /\ cq' = [cq EXCEPT ![c] = Append(@, e)]
                   /\ ack' = [ack EXCEPT ![d] = "ok"]
          <5>1. InQueue(e, Append(cq[c], e))
            BY <1>1, <1>3, AppendHas
          <5> QED
            BY <2>1, <3>1, <4>1, <4>2, <5>1, <1>1, <1>3
        <4>3. CASE ack' = [ack EXCEPT ![d] = "full"] /\ UNCHANGED cq
          BY <2>1, <3>1, <4>1, <4>3, <1>2, <1>3
        <4> QED
          BY <2>2, <3>2, <4>2, <4>3 DEF OnDeliverSm, c
      <3>3. CASE m # d
        <4>1. ack'[d] = ack[d]
          BY <2>2, <3>3, <1>3 DEF OnDeliverSm
        <4>2. InQueue(e, cq'[c]) <=> InQueue(e, cq[c])
          <5> DEFINE k == ClientOf[m]
          <5>1. k \in Clients /\ <<"deliver", m>> \in ClientEvents /\ e # <<"deliver", m>>
            BY <3>3, PyBridgeAssumption DEF ClientEvents
          <5>2. TellClient(k, <<"deliver", m>>) \/ UNCHANGED cq
            BY <2>2 DEF OnDeliverSm, TellClient
          <5> QED
            BY <5>1, <5>2, <1>1, TellClientHas
        <4> QED
          BY <2>1, <3>1, <4>1, <4>2, <1>2
      <3> QED
        BY <3>2, <3>3
    <2>3. CASE DeliverReturns(m)
      <3>1. /\ UNCHANGED <<cq, ack>>
            /\ del' = [del EXCEPT ![m] = IF @ = "sent" THEN ack[m] ELSE @]
        BY <2>3 DEF DeliverReturns, queueVars
      <3> QED
        BY <2>1, <3>1, <1>2, <1>3
    <2>4. CASE DeliverCalls(m) \/ DeliverRead(m) \/ DeliverFails(m)
      <3>1. UNCHANGED <<cq, ack>>
        BY <2>4 DEF DeliverCalls, DeliverRead, DeliverFails, queueVars
      <3>2. del'[d] \in {"ok", "full"} => del'[d] = del[d]
        BY <2>4, <1>3 DEF DeliverCalls, DeliverRead, DeliverFails
      <3> QED
        BY <2>1, <3>1, <3>2, <1>2
    <2> QED
      BY <1>8, <2>2, <2>3, <2>4 DEF DeliverStep
  <1>9. CASE UNCHANGED vars
    BY <1>9, <1>5 DEF vars, taskVars, queueVars, msgVars
  <1> QED
    BY <1>4, <1>6, <1>7, <1>8, <1>9 DEF Next

-----------------------------------------------------------------------------
(* submit_sm *)

\* A step that leaves a submit_sm and its event alone keeps what holds of it.
LEMMA SubmitSame ==
    ASSUME NEW m \in Subs, SubmitOk(m),
           m \in arrived' <=> m \in arrived,  answer'[m] = answer[m],  decided'[m] = decided[m],
           m \in held' <=> m \in held,  OnceIn(<<"submit", m>>, sq'),
           InQueue(<<"submit", m>>, sq') <=> InQueue(<<"submit", m>>, sq),
           <<"submit", m>> \in sseen' <=> <<"submit", m>> \in sseen,
           <<"submit_resp", m>> \in flight' => <<"submit_resp", m>> \in flight,
           sub'[m] \in {sub[m], "idle", "sent", "failed"}
    PROVE  SubmitOk(m)'
  <1>1. Queued(m)' <=> Queued(m)
    BY DEF Queued, InQueue
  <1> QED
    BY <1>1 DEF SubmitOk

\* Another event told to the server leaves the event of a submit_sm alone.
LEMMA TellServerHas ==
    ASSUME TypeOK, NEW e \in ServerEvents, TellServer(e), NEW x, x # e
    PROVE  /\ InQueue(x, sq') <=> InQueue(x, sq)
           /\ OnceIn(x, sq) => OnceIn(x, sq')
  <1>1. sq \in Seq(ServerEvents)
    BY DEF TypeOK
  <1>2. CASE sq' = Append(sq, e)
    <2>1. InQueue(x, Append(sq, e)) <=> InQueue(x, sq)
      BY <1>1, AppendHas
    <2>2. OnceIn(x, sq) => OnceIn(x, Append(sq, e))
      BY <1>1, AppendOnce
    <2> QED
      BY <1>2, <2>1, <2>2
  <1>3. CASE UNCHANGED sq
    BY <1>3
  <1> QED
    BY <1>2, <1>3 DEF TellServer

\* The server's steps keep every submit_sm in order.
LEMMA SubmitServer ==
    ASSUME TypeOK, SubmitInv, ServerStep
    PROVE  SubmitInv'
  <1> SUFFICES ASSUME NEW m \in Subs PROVE SubmitOk(m)'
    BY DEF SubmitInv
  <1> DEFINE e == <<"submit", m>>
  <1>1. SubmitOk(m) /\ OnceIn(e, sq)
    BY DEF SubmitInv, SubmitOk
  <1>2. UNCHANGED <<arrived, decided, sub>>
    BY ServerFrame
  <1>3. /\ sq \in Seq(ServerEvents)
        /\ sub \in [Subs -> {"idle", "sent", "failed"} \cup Statuses]
        /\ answer \in [Subs -> {"none"} \cup Statuses]
        /\ decided \in [Subs -> {"none"} \cup Statuses]
    BY DEF TypeOK
  <1>4. CASE ServerStarts \/ ServerStops \/ \E c \in Clients : BindAnswered(c)
    <2>1. UNCHANGED <<answer, held, sq, sseen, flight>>
      BY <1>4 DEF ServerStarts, ServerStops, BindAnswered, eventVars, msgVars
    <2> QED
      BY <1>1, <1>2, <2>1, SubmitSame
  <1>5. CASE ServerNext
    <2>1. /\ sq # <<>> /\ sq' = Tail(sq) /\ sseen' = sseen \cup {Head(sq)}
          /\ held' = held \cup {s \in Subs : Head(sq) = <<"submit", s>>}
          /\ UNCHANGED <<answer, flight>>
      BY <1>5 DEF ServerNext, msgVars
    <2>2. /\ InQueue(e, sq) <=> e = Head(sq) \/ InQueue(e, sq')
          /\ OnceIn(e, sq') /\ (e = Head(sq) => ~InQueue(e, sq'))
      BY <1>1, <1>3, <2>1, TailHas, TailOnce
    <2>3. CASE e = Head(sq)
      <3>1. Queued(m) /\ ~Queued(m)'
        BY <2>1, <2>2, <2>3 DEF Queued, InQueue
      <3>2. m \in arrived /\ answer[m] = "none"
        BY <1>1, <3>1 DEF SubmitOk
      <3>3. m \in held' /\ e \in sseen'
        BY <2>1, <2>3
      <3> QED
        BY <1>1, <1>2, <2>1, <2>2, <3>1, <3>2, <3>3 DEF SubmitOk
    <2>4. CASE e # Head(sq)
      BY <1>1, <1>2, <2>1, <2>2, <2>4, SubmitSame
    <2> QED
      BY <2>3, <2>4
  <1>6. CASE ServerDropped
    <2>1. /\ sq' = <<>> /\ UNCHANGED <<sseen, held>>
          /\ answer'[m] = IF Queued(m) THEN "syserr" ELSE answer[m]
      BY <1>6 DEF ServerDropped, Decides
    <2>2. <<"submit_resp", m>> \in flight' => <<"submit_resp", m>> \in flight \/ Queued(m)
      BY <1>6 DEF ServerDropped, Decides
    <2>3. ~Queued(m)' /\ OnceIn(e, sq')
      BY <2>1 DEF Queued, OnceIn
    <2> QED
      BY <1>1, <1>2, <1>3, <2>1, <2>2, <2>3 DEF SubmitOk, Statuses
  <1>7. ASSUME NEW c \in Clients, EsmeBound(c) \/ EsmeUnbound(c) PROVE SubmitOk(m)'
    <2>1. PICK x \in ServerEvents : TellServer(x) /\ e # x
      BY <1>7 DEF EsmeBound, EsmeUnbound, ServerEvents
    <2>2. UNCHANGED <<answer, held, sseen, flight>>
      BY <1>7 DEF EsmeBound, EsmeUnbound, msgVars
    <2>3. (InQueue(e, sq') <=> InQueue(e, sq)) /\ OnceIn(e, sq')
      BY <1>1, <2>1, TellServerHas
    <2> QED
      BY <1>1, <1>2, <2>2, <2>3, SubmitSame
  <1> QED
    BY <1>4, <1>5, <1>6, <1>7 DEF ServerStep

\* A decision on one submit_sm is no decision on another.
LEMMA DecidesOne ==
    ASSUME NEW m \in Subs, NEW r, Decides({m}, r)
    PROVE  /\ answer'[m] = r
           /\ \A s \in Subs \ {m} :
                /\ answer'[s] = answer[s]
                /\ <<"submit_resp", s>> \in flight' => <<"submit_resp", s>> \in flight
  BY DEF Decides

\* The steps of one submit_sm keep every submit_sm in order.
LEMMA SubmitSubmit ==
    ASSUME TypeOK, SubmitInv, NEW k \in Subs, SubmitStep(k)
    PROVE  SubmitInv'
  <1> SUFFICES ASSUME NEW m \in Subs PROVE SubmitOk(m)'
    BY DEF SubmitInv
  <1> DEFINE e == <<"submit", m>>
  <1>1. SubmitOk(m) /\ OnceIn(e, sq)
    BY DEF SubmitInv, SubmitOk
  <1>2. /\ sq \in Seq(ServerEvents)
        /\ sub \in [Subs -> {"idle", "sent", "failed"} \cup Statuses]
        /\ answer \in [Subs -> {"none"} \cup Statuses]
        /\ decided \in [Subs -> {"none"} \cup Statuses]
    BY DEF TypeOK
  <1>3. CASE SubmitCalls(k) \/ SubmitRead(k) \/ SubmitFails(k)
    <2>1. UNCHANGED <<arrived, answer, decided, held, sq, sseen>>
      BY <1>3 DEF SubmitCalls, SubmitRead, SubmitFails, eventVars
    <2>2. /\ sub'[m] \in {sub[m], "sent", "failed"}
          /\ <<"submit_resp", m>> \in flight' => <<"submit_resp", m>> \in flight
      BY <1>2, <1>3 DEF SubmitCalls, SubmitRead, SubmitFails, Moves
    <2> QED
      BY <1>1, <2>1, <2>2, SubmitSame
  <1>4. CASE SubmitReturns(k)
    <2>1. UNCHANGED <<arrived, answer, decided, held, sq, sseen>>
      BY <1>4 DEF SubmitReturns, eventVars
    <2>2. /\ sub'[m] \in {sub[m], answer[m], "failed"}
          /\ <<"submit_resp", m>> \in flight' => <<"submit_resp", m>> \in flight
      BY <1>2, <1>4 DEF SubmitReturns, Received
    <2>3. Queued(m)' <=> Queued(m)
      BY <2>1 DEF Queued
    <2> QED
      BY <1>1, <2>1, <2>2, <2>3 DEF SubmitOk
  <1>5. CASE OnSubmitSm(k)
    <2>1. /\ k \notin arrived /\ arrived' = arrived \cup {k}
          /\ UNCHANGED <<sseen, held, decided, sub>>
      BY <1>5 DEF OnSubmitSm
    <2>2. <<"submit", k>> \in ServerEvents
      BY DEF ServerEvents
    <2>3. CASE sq' = Append(sq, <<"submit", k>>) /\ UNCHANGED <<answer, flight>>
      <3>1. CASE k = m
        <4>1. ~InQueue(e, sq)
          BY <1>1, <2>1, <3>1 DEF SubmitOk, Queued, InQueue
        <4>2. InQueue(e, sq') /\ OnceIn(e, sq')
          BY <1>1, <1>2, <2>2, <2>3, <3>1, <4>1, AppendHas, AppendOnce
        <4>3. Queued(m)'
          BY <4>2 DEF Queued, InQueue
        <4> QED
          BY <1>1, <2>1, <2>3, <3>1, <4>2, <4>3 DEF SubmitOk
      <3>2. CASE k # m
        <4>1. e # <<"submit", k>>
          BY <3>2
        <4>2. (InQueue(e, sq') <=> InQueue(e, sq)) /\ OnceIn(e, sq')
          BY <1>1, <1>2, <2>2, <2>3, <4>1, AppendHas, AppendOnce
        <4> QED
          BY <1>1, <2>1, <2>3, <3>2, <4>2, SubmitSame
      <3> QED
        BY <3>1, <3>2
    <2>4. CASE Decides({k}, "full") /\ UNCHANGED sq
      <3>1. CASE k = m
        <4>1. answer'[m] = "full"
          BY <2>4, <3>1, DecidesOne
        <4>2. Queued(m)' <=> Queued(m)
          BY <2>4 DEF Queued
        <4> QED
          BY <1>1, <1>2, <2>1, <2>4, <3>1, <4>1, <4>2 DEF SubmitOk, Statuses
      <3>2. CASE k # m
        <4>1. /\ answer'[m] = answer[m]
              /\ <<"submit_resp", m>> \in flight' => <<"submit_resp", m>> \in flight
          BY <2>4, <3>2, DecidesOne
        <4> QED
          BY <1>1, <2>1, <2>4, <3>2, <4>1, SubmitSame
      <3> QED
        BY <3>1, <3>2
    <2> QED
      BY <1>5, <2>3, <2>4 DEF OnSubmitSm
  <1>6. ASSUME NEW r \in Statuses, Answers(k, r),
               \/ decided' = [decided EXCEPT ![k] = r]
               \/ r = "syserr" /\ UNCHANGED decided
        PROVE  SubmitOk(m)'
    <2>1. /\ k \in held /\ held' = held \ {k} /\ Decides({k}, r)
          /\ UNCHANGED <<sq, sseen, arrived, sub>>
      BY <1>6 DEF Answers
    <2>2. CASE k = m
      <3>1. answer'[m] = r
        BY <2>1, <2>2, DecidesOne
      <3>2. Queued(m)' <=> Queued(m)
        BY <2>1 DEF Queued
      <3>3. m \in arrived /\ answer[m] = "none" /\ decided[m] = "none"
        BY <1>1, <2>1, <2>2 DEF SubmitOk
      <3>4. decided'[m] = r \/ (r = "syserr" /\ decided'[m] = "none")
        BY <1>2, <1>6, <2>2, <3>3
      <3>5. r # "none"
        BY <1>6 DEF Statuses
      <3> QED
        BY <1>1, <1>2, <2>1, <2>2, <3>1, <3>2, <3>3, <3>4, <3>5 DEF SubmitOk, Statuses
    <2>3. CASE k # m
      <3>1. /\ answer'[m] = answer[m]
            /\ <<"submit_resp", m>> \in flight' => <<"submit_resp", m>> \in flight
        BY <2>1, <2>3, DecidesOne
      <3>2. decided'[m] = decided[m]
        BY <1>2, <1>6, <2>3
      <3> QED
        BY <1>1, <2>1, <2>3, <3>1, <3>2, SubmitSame
    <2> QED
      BY <2>2, <2>3
  <1>7. ASSUME NEW r \in Statuses, PythonAnswers(k, r) PROVE SubmitOk(m)'
    BY <1>6, <1>7 DEF PythonAnswers
  <1>8. CASE EventDropped(k)
    BY <1>6, <1>8 DEF EventDropped, Statuses
  <1> QED
    BY <1>3, <1>4, <1>5, <1>7, <1>8, ErrorMapped
       DEF SubmitStep, Accept, Reject, Statuses

\* Every step keeps every submit_sm in order.
LEMMA SubmitInvStep == TypeOK /\ SubmitInv /\ [Next]_vars => SubmitInv'
  <1> SUFFICES ASSUME TypeOK, SubmitInv, [Next]_vars PROVE SubmitInv'
    OBVIOUS
  <1>1. ASSUME UNCHANGED <<arrived, answer, decided, held, sq, sseen, sub>>,
               \A m \in Subs : SameSubmit(m)
        PROVE  SubmitInv'
    <2> SUFFICES ASSUME NEW m \in Subs PROVE SubmitOk(m)'
      BY DEF SubmitInv
    <2>1. SubmitOk(m) /\ OnceIn(<<"submit", m>>, sq)
      BY DEF SubmitInv, SubmitOk
    <2> QED
      BY <1>1, <2>1, SubmitSame DEF SameSubmit
  <1>2. ASSUME NEW c \in Clients, ClientStep(c) PROVE SubmitInv'
    <2>1. UNCHANGED <<arrived, answer, decided, held, sq, sseen, sub, flight>>
      BY <1>2, ClientFrame DEF eventVars, msgVars
    <2> QED
      BY <2>1, <1>1 DEF SameSubmit
  <1>3. ASSUME NEW m \in Dels, DeliverStep(m) PROVE SubmitInv'
    <2>1. /\ UNCHANGED <<arrived, answer, decided, held, sq, sseen, sub>>
          /\ \A s \in Subs : SameSubmit(s)
      BY <1>3, DeliverFrame DEF eventVars
    <2> QED
      BY <2>1, <1>1
  <1>4. CASE UNCHANGED vars
    BY <1>4, <1>1 DEF vars, eventVars, msgVars, SameSubmit
  <1> QED
    BY <1>2, <1>3, <1>4, SubmitServer, SubmitSubmit DEF Next

\* The two properties of a submit_sm that Python relies on.
LEMMA SubmitImplies == TypeOK /\ SubmitInv => OneDecider /\ ResultIsTruth
  BY DEF TypeOK, SubmitInv, SubmitOk, OneDecider, ResultIsTruth, Statuses

-----------------------------------------------------------------------------
(* The order of the server's events *)

\* On queue q every e has b before it, unless b has been returned already.
Behind(b, e, q, done) ==
    \A i \in 1 .. Len(q) : q[i] = e => done \/ \E j \in 1 .. i - 1 : q[j] = b

\* EsmeFirst in these words.
LEMMA EsmeFirstIsBehind ==
    EsmeFirst <=>
      \A c \in Clients : <<"bound", c>> \notin missed =>
        \A e \in Traffic(c) :
          /\ e \in sseen => <<"bound", c>> \in sseen
          /\ Behind(<<"bound", c>>, e, sq, <<"bound", c>> \in sseen)
  BY DEF EsmeFirst, Behind

\* An event joins the queue behind b when b is on the queue or returned.
LEMMA AppendBehind ==
    ASSUME NEW T, NEW q \in Seq(T), NEW x \in T, NEW b, NEW e, NEW done \in BOOLEAN,
           Behind(b, e, q, done), x = e => done \/ InQueue(b, q)
    PROVE  Behind(b, e, Append(q, x), done)
  <1>1. /\ Len(Append(q, x)) = Len(q) + 1 /\ Len(q) \in Nat
        /\ \A i \in 1 .. Len(q) : Append(q, x)[i] = q[i]
        /\ Append(q, x)[Len(q) + 1] = x
    BY AppendProperties
  <1> SUFFICES ASSUME NEW i \in 1 .. Len(q) + 1, Append(q, x)[i] = e, ~done
               PROVE  \E j \in 1 .. i - 1 : Append(q, x)[j] = b
    BY <1>1 DEF Behind
  <1>2. CASE i \in 1 .. Len(q)
    <2>1. PICK j \in 1 .. i - 1 : q[j] = b
      BY <1>1, <1>2 DEF Behind
    <2> QED
      BY <1>1, <1>2, <2>1
  <1>3. CASE i = Len(q) + 1
    <2>1. PICK j \in 1 .. Len(q) : q[j] = b
      BY <1>1, <1>3 DEF InQueue
    <2> QED
      BY <1>1, <1>3, <2>1
  <1> QED
    BY <1>1, <1>2, <1>3

\* next() returns b before e and leaves the others in order.
LEMMA TailBehind ==
    ASSUME NEW T, NEW q \in Seq(T), q # <<>>, NEW b, NEW e, NEW done \in BOOLEAN,
           Behind(b, e, q, done)
    PROVE  /\ e = Head(q) => done
           /\ Behind(b, e, Tail(q), done \/ b = Head(q))
  <1>1. /\ Head(q) = q[1] /\ Len(q) \in Nat \ {0} /\ Len(Tail(q)) = Len(q) - 1
        /\ \A i \in 1 .. Len(q) - 1 : Tail(q)[i] = q[i + 1]
    BY TailHas
  <1>2. e = Head(q) => done
    BY <1>1 DEF Behind
  <1>3. ASSUME NEW i \in 1 .. Len(q) - 1, Tail(q)[i] = e, ~done, b # Head(q)
        PROVE  \E j \in 1 .. i - 1 : Tail(q)[j] = b
    <2>1. i + 1 \in 1 .. Len(q) /\ q[i + 1] = e
      BY <1>1, <1>3
    <2>2. PICK j \in 1 .. i : q[j] = b
      BY <1>3, <2>1 DEF Behind
    <2>3. j # 1
      BY <1>1, <1>3, <2>2
    <2>4. j - 1 \in 1 .. i - 1 /\ j - 1 \in 1 .. Len(q) - 1 /\ Tail(q)[j - 1] = b
      BY <1>1, <2>2, <2>3
    <2> QED
      BY <2>4
  <1> QED
    BY <1>1, <1>2, <1>3 DEF Behind

\* An event is told only of a session that has been announced.
LEMMA EsmeTell ==
    ASSUME TypeOK, EsmeInv, EsmeFirst, NEW x \in ServerEvents, TellServer(x),
           UNCHANGED <<sseen, pyServer>>,
           \A c \in Clients : x \in Traffic(c) => sess[c] \in {"bound", "over"}
    PROVE  /\ EsmeFirst'
           /\ ~pyServer => sq' = <<>>
           /\ missed \subseteq missed'
           /\ \A y : InQueue(y, sq) => InQueue(y, sq')
           /\ x \in missed' \/ InQueue(x, sq')
  <1>1. sq \in Seq(ServerEvents)
    BY DEF TypeOK
  <1>2. CASE ServerRoom /\ sq' = Append(sq, x) /\ UNCHANGED missed
    <2>1. pyServer
      BY <1>2 DEF ServerRoom
    <2>2. \A y : InQueue(y, sq') <=> InQueue(y, sq) \/ y = x
      BY <1>1, <1>2, AppendHas
    <2>3. ASSUME NEW c \in Clients, <<"bound", c>> \notin missed, NEW e \in Traffic(c)
          PROVE  Behind(<<"bound", c>>, e, sq', <<"bound", c>> \in sseen)
      <3>1. Behind(<<"bound", c>>, e, sq, <<"bound", c>> \in sseen)
        BY <2>3, EsmeFirstIsBehind
      <3>2. x = e => <<"bound", c>> \in sseen \/ InQueue(<<"bound", c>>, sq)
        BY <2>1, <2>3 DEF EsmeInv
      <3> DEFINE b == <<"bound", c>>
                 done == b \in sseen
      <3>3. done \in BOOLEAN
        OBVIOUS
      <3> HIDE DEF b, done
      <3>4. Behind(b, e, Append(sq, x), done)
        BY <1>1, <3>1, <3>2, <3>3, AppendBehind DEF b, done
      <3> QED
        BY <1>2, <3>4 DEF b, done
    <2>4. EsmeFirst'
      BY <1>2, <2>3, EsmeFirstIsBehind DEF EsmeFirst, Behind
    <2> QED
      BY <1>2, <2>1, <2>2, <2>4
  <1>3. CASE missed' = missed \cup {x} /\ UNCHANGED sq
    BY <1>3 DEF EsmeFirst, EsmeInv
  <1> QED
    BY <1>2, <1>3 DEF TellServer

\* A step that leaves the queue and the sessions alone keeps the order.
LEMMA EsmeSame ==
    ASSUME EsmeInv, EsmeFirst, UNCHANGED <<sq, sseen, sess>>, pyServer' = pyServer,
           missed \subseteq missed',
           \A m \in Subs : <<"on_submit", m>> \in flight' => <<"on_submit", m>> \in flight
    PROVE  EsmeInv' /\ EsmeFirst'
  BY DEF EsmeInv, EsmeFirst, Traffic

\* The client's steps keep the order: a session is asked to bind only once.
LEMMA EsmeClient ==
    ASSUME TypeOK, ConnInv, EsmeInv, EsmeFirst, NEW c \in Clients, ClientStep(c)
    PROVE  EsmeInv' /\ EsmeFirst'
  <1>1. UNCHANGED <<sq, sseen, pyServer, flight>>
    BY ClientFrame DEF eventVars, msgVars
  <1>2. CASE BindWritten(c)
    <2>1. /\ task[c] = "spawned" /\ sess' = [sess EXCEPT ![c] = "asked"] /\ UNCHANGED missed
      BY <1>2 DEF BindWritten
    <2>2. sess \in [Clients -> {"none", "asked", "accepted", "closed", "bound", "over"}]
      BY DEF TypeOK
    <2>3. sess[c] = "none"
      BY <2>1 DEF ConnInv
    <2>4. EsmeFirst'
      BY <1>1, <2>1 DEF EsmeFirst, Traffic
    <2>5. \A m \in Subs : ClientOf[m] \in Clients
      BY PyBridgeAssumption
    <2>6. \A k \in Clients : sess'[k] \in {"bound", "over"} <=> sess[k] \in {"bound", "over"}
      BY <2>1, <2>2, <2>3
    <2> QED
      BY <1>1, <2>1, <2>4, <2>5, <2>6 DEF EsmeInv
  <1>3. CASE ~BindWritten(c)
    <2>1. UNCHANGED sess /\ missed \subseteq missed'
      BY <1>3 DEF ClientStep, Connect, Ending, ConnectBegins, StartFails, StartSpawns,
         ConnectReturns, ConnectTimesOut, ConnectCancelled, BindNotWritten, BindGivesUp, SmscBound, LoopLeft,
         SmscUnbound, TellClient, Cancelled, Stop, UnbindBegins, UnbindStops, UnbindCancelled, ClientDropped,
         SmscNext, serverVars
    <2> QED
      BY <1>1, <2>1, EsmeSame
  <1> QED
    BY <1>2, <1>3

\* The server's steps keep the order.
LEMMA EsmeServer ==
    ASSUME TypeOK, EsmeInv, EsmeFirst, ServerStep
    PROVE  EsmeInv' /\ EsmeFirst'
  <1>1. /\ sess \in [Clients -> {"none", "asked", "accepted", "closed", "bound", "over"}]
        /\ sq \in Seq(ServerEvents)
    BY DEF TypeOK
  <1>2. \A m \in Subs : ClientOf[m] \in Clients
    BY PyBridgeAssumption
  <1>3. CASE ServerStarts \/ ServerStops
    BY <1>3, EsmeSame DEF ServerStarts, ServerStops, eventVars, msgVars
  <1>4. CASE ServerNext
    <2>1. /\ pyServer /\ sq # <<>> /\ sq' = Tail(sq) /\ sseen' = sseen \cup {Head(sq)}
          /\ UNCHANGED <<pyServer, sess, flight, missed>>
      BY <1>4 DEF ServerNext, serverVars, msgVars
    <2>2. \A y : InQueue(y, sq) <=> y = Head(sq) \/ InQueue(y, sq')
      BY <1>1, <2>1, TailHas
    <2>3. EsmeInv'
      BY <2>1, <2>2 DEF EsmeInv
    <2>4. ASSUME NEW c \in Clients, <<"bound", c>> \notin missed, NEW e \in Traffic(c)
          PROVE  /\ e \in sseen' => <<"bound", c>> \in sseen'
                 /\ Behind(<<"bound", c>>, e, sq', <<"bound", c>> \in sseen')
      <3> DEFINE b == <<"bound", c>>
                 done == b \in sseen
      <3>1. /\ e \in sseen => done
            /\ Behind(b, e, sq, done) /\ done \in BOOLEAN
        BY <2>4, EsmeFirstIsBehind
      <3>2. b \in sseen' <=> done \/ b = Head(sq)
        BY <2>1
      <3> HIDE DEF b, done
      <3>3. /\ e = Head(sq) => done
            /\ Behind(b, e, Tail(sq), done \/ b = Head(sq))
        BY <1>1, <2>1, <3>1, TailBehind
      <3>4. e \in sseen' => b \in sseen'
        BY <2>1, <3>1, <3>2, <3>3
      <3>5. Behind(b, e, sq', b \in sseen')
        BY <2>1, <3>2, <3>3 DEF Behind
      <3> QED
        BY <3>4, <3>5 DEF b
    <2>5. EsmeFirst'
      BY <2>1, <2>4 DEF EsmeFirst, Behind, Traffic
    <2> QED
      BY <2>3, <2>5
  <1>5. CASE ServerDropped
    <2>1. /\ pyServer' = FALSE /\ sq' = <<>> /\ UNCHANGED <<sess, sseen, missed>>
      BY <1>5 DEF ServerDropped
    <2>2. \A m \in Subs : <<"on_submit", m>> \in flight' => <<"on_submit", m>> \in flight
      BY <1>5 DEF ServerDropped, Decides
    <2>3. EsmeInv'
      BY <2>1, <2>2 DEF EsmeInv
    <2>4. EsmeFirst'
      <3>1. 1 .. Len(sq') = {}
        BY <2>1
      <3>2. \A c \in Clients : <<"bound", c>> \notin missed =>
              \A e \in Traffic(c) : e \in sseen => <<"bound", c>> \in sseen
        BY DEF EsmeFirst
      <3> QED
        BY <2>1, <3>1, <3>2 DEF EsmeFirst
    <2> QED
      BY <2>3, <2>4
  <1>6. ASSUME NEW c \in Clients, BindAnswered(c) PROVE EsmeInv' /\ EsmeFirst'
    <2>1. PICK s \in {"accepted", "closed"} : sess' = [sess EXCEPT ![c] = s]
      BY <1>6 DEF BindAnswered
    <2>2. /\ sess[c] = "asked" /\ UNCHANGED <<pyServer, sq, sseen, flight, missed>>
      BY <1>6 DEF BindAnswered, eventVars, msgVars
    <2>3. \A k \in Clients : sess'[k] \in {"bound", "over"} <=> sess[k] \in {"bound", "over"}
      BY <1>1, <2>1, <2>2
    <2>4. EsmeInv'
      BY <1>2, <2>2, <2>3 DEF EsmeInv
    <2>5. EsmeFirst'
      BY <2>2 DEF EsmeFirst, Traffic
    <2> QED
      BY <2>4, <2>5
  <1>7. ASSUME NEW c \in Clients, EsmeBound(c) PROVE EsmeInv' /\ EsmeFirst'
    <2> DEFINE b == <<"bound", c>>
    <2>1. /\ b \in ServerEvents /\ TellServer(b) /\ sess' = [sess EXCEPT ![c] = "bound"]
          /\ UNCHANGED <<pyServer, sseen, flight>>
      BY <1>7 DEF EsmeBound, ServerEvents, msgVars
    <2>2. \A k \in Clients : b \notin Traffic(k)
      BY DEF Traffic
    <2>3. /\ EsmeFirst' /\ (~pyServer => sq' = <<>>) /\ missed \subseteq missed'
          /\ \A y : InQueue(y, sq) => InQueue(y, sq')
          /\ b \in missed' \/ InQueue(b, sq')
      BY <2>1, <2>2, EsmeTell
    <2>4. EsmeInv'
      BY <1>1, <1>2, <2>1, <2>3 DEF EsmeInv
    <2> QED
      BY <2>3, <2>4
  <1>8. ASSUME NEW c \in Clients, EsmeUnbound(c) PROVE EsmeInv' /\ EsmeFirst'
    <2> DEFINE u == <<"unbound", c>>
    <2>1. /\ u \in ServerEvents /\ TellServer(u) /\ sess[c] = "bound"
          /\ sess' = [sess EXCEPT ![c] = "over"] /\ UNCHANGED <<pyServer, sseen, flight>>
      BY <1>8 DEF EsmeUnbound, ServerEvents, msgVars
    <2>2. \A k \in Clients : u \in Traffic(k) => k = c
      BY DEF Traffic
    <2>3. /\ EsmeFirst' /\ (~pyServer => sq' = <<>>) /\ missed \subseteq missed'
          /\ \A y : InQueue(y, sq) => InQueue(y, sq')
      BY <2>1, <2>2, EsmeTell
    <2>4. EsmeInv'
      BY <1>1, <1>2, <2>1, <2>3 DEF EsmeInv
    <2> QED
      BY <2>3, <2>4
  <1> QED
    BY <1>3, <1>4, <1>5, <1>6, <1>7, <1>8 DEF ServerStep

\* The steps of a submit_sm keep the order: it is read in a bound session.
LEMMA EsmeSubmit ==
    ASSUME TypeOK, EsmeInv, EsmeFirst, NEW m \in Subs, SubmitStep(m)
    PROVE  EsmeInv' /\ EsmeFirst'
  <1>1. UNCHANGED <<sess, pyServer, missed>>
    BY SubmitFrame DEF serverVars
  <1>2. CASE SubmitRead(m)
    <2>1. sess[ClientOf[m]] = "bound" /\ UNCHANGED <<sq, sseen>>
      BY <1>2 DEF SubmitRead, eventVars
    <2>2. \A s \in Subs : <<"on_submit", s>> \in flight' => <<"on_submit", s>> \in flight \/ s = m
      BY <1>2 DEF SubmitRead, Moves
    <2>3. EsmeInv'
      BY <1>1, <2>1, <2>2 DEF EsmeInv
    <2>4. EsmeFirst'
      BY <1>1, <2>1 DEF EsmeFirst, Traffic
    <2> QED
      BY <2>3, <2>4
  <1>3. CASE OnSubmitSm(m)
    <2>1. <<"on_submit", m>> \in flight /\ UNCHANGED sseen
      BY <1>3 DEF OnSubmitSm
    <2>2. \A s \in Subs : <<"on_submit", s>> \in flight' => <<"on_submit", s>> \in flight
      BY <1>3 DEF OnSubmitSm, Decides
    <2>3. CASE UNCHANGED sq
      BY <1>1, <2>1, <2>2, <2>3, EsmeSame
    <2>4. CASE ServerRoom /\ sq' = Append(sq, <<"submit", m>>)
      <3>1. TellServer(<<"submit", m>>) /\ <<"submit", m>> \in ServerEvents
        BY <1>1, <2>4 DEF TellServer, ServerEvents
      <3>2. \A c \in Clients : <<"submit", m>> \in Traffic(c) => sess[c] \in {"bound", "over"}
        BY <2>1 DEF Traffic, EsmeInv
      <3>3. /\ EsmeFirst' /\ (~pyServer => sq' = <<>>)
            /\ \A y : InQueue(y, sq) => InQueue(y, sq')
        BY <1>1, <2>1, <3>1, <3>2, EsmeTell
      <3>4. EsmeInv'
        BY <1>1, <2>1, <2>2, <3>3 DEF EsmeInv
      <3> QED
        BY <3>3, <3>4
    <2> QED
      BY <1>3, <2>3, <2>4 DEF OnSubmitSm
  <1>4. CASE ~SubmitRead(m) /\ ~OnSubmitSm(m)
    <2>1. /\ UNCHANGED <<sq, sseen>>
          /\ \A s \in Subs : <<"on_submit", s>> \in flight' => <<"on_submit", s>> \in flight
      BY <1>4 DEF SubmitStep, SubmitCalls, Accept, Reject, EventDropped, PythonAnswers, Answers,
         SubmitReturns, SubmitFails, Decides, eventVars
    <2> QED
      BY <1>1, <2>1, EsmeSame
  <1> QED
    BY <1>2, <1>3, <1>4

\* Every step keeps the order of the server's events.
LEMMA EsmeStep ==
    TypeOK /\ ConnInv /\ EsmeInv /\ EsmeFirst /\ [Next]_vars => EsmeInv' /\ EsmeFirst'
  <1> SUFFICES ASSUME TypeOK, ConnInv, EsmeInv, EsmeFirst, [Next]_vars
               PROVE  EsmeInv' /\ EsmeFirst'
    OBVIOUS
  <1>1. ASSUME NEW m \in Dels, DeliverStep(m) PROVE EsmeInv' /\ EsmeFirst'
    <2>1. /\ UNCHANGED <<sq, sseen, sess, pyServer, missed>>
          /\ \A s \in Subs : <<"on_submit", s>> \in flight' => <<"on_submit", s>> \in flight
      BY <1>1, DeliverFrame DEF serverVars, eventVars, SameSubmit
    <2> QED
      BY <2>1, EsmeSame
  <1>2. CASE UNCHANGED vars
    BY <1>2, EsmeSame DEF vars, serverVars, eventVars, msgVars
  <1> QED
    BY <1>1, <1>2, EsmeClient, EsmeServer, EsmeSubmit DEF Next

-----------------------------------------------------------------------------
(* The theorems *)

\* The parts hold before anybody connects.
LEMMA IInvInit == Init => IInv
  <1> SUFFICES ASSUME Init PROVE IInv
    OBVIOUS
  <1>1. TypeOK
    BY TypeInit
  <1>2. ConnInv /\ DeliverInv
    BY DEF Init, ConnInv, DeliverInv
  <1>3. /\ cq = [c \in Clients |-> <<>>] /\ seen = [c \in Clients |-> {}]
        /\ ack = [m \in Dels |-> "none"] /\ del = [m \in Dels |-> "idle"]
        /\ \A m \in Dels : ClientOf[m] \in Clients
    BY PyBridgeAssumption DEF Init
  <1>4. AckedMeansQueued
    BY <1>3 DEF AckedMeansQueued, InQueue
  <1>5. SubmitInv
    BY DEF Init, SubmitInv, SubmitOk, Queued, OnceIn
  <1>6. EsmeInv /\ EsmeFirst
    <2>1. sq = <<>> /\ sseen = {} /\ flight = {} /\ sess = [c \in Clients |-> "none"]
      BY DEF Init
    <2> QED
      BY <2>1 DEF EsmeInv, EsmeFirst, Traffic
  <1> QED
    BY <1>1, <1>2, <1>4, <1>5, <1>6 DEF IInv

\* IInv is an invariant of PyBridge.
LEMMA Invariance == Spec => []IInv
  <1>1. IInv /\ [Next]_vars => IInv'
    BY TypeStep, ConnStep, DeliverStepInv, AckStep, SubmitInvStep, EsmeStep DEF IInv
  <1> QED
    BY <1>1, IInvInit, PTL DEF Spec

\* The queues stay within inbound_capacity and every variable keeps its type.
THEOREM TypeCorrect == Spec => []TypeOK
  <1>1. IInv => TypeOK
    BY DEF IInv
  <1> QED
    BY <1>1, Invariance, PTL

\* A returned Smsc had a bound session, and a bound session has its Smsc
\* returned, about to be, or lost in a connect() that timed out or was cancelled.
THEOREM ConnectMatches == Spec => []HandleMatchesSession
  <1>1. IInv => HandleMatchesSession
    BY ConnImplies DEF IInv
  <1> QED
    BY <1>1, Invariance, PTL

\* on_deliver_sm acknowledges a deliver_sm exactly when Python gets it.
THEOREM DeliverAckedOnceQueued == Spec => []AckedMeansQueued
  <1>1. IInv => AckedMeansQueued
    BY DEF IInv
  <1> QED
    BY <1>1, Invariance, PTL

\* The responder of a submit_sm is in one place until it is used, and it is used.
THEOREM SubmitHasOneDecider == Spec => []OneDecider
  <1>1. IInv => OneDecider
    BY SubmitImplies DEF IInv
  <1> QED
    BY <1>1, Invariance, PTL

\* Smsc.submit_sm returns the status the application of the server decided on, or,
\* where it decided nothing, that its event was refused unseen or dropped.
THEOREM SubmitResultIsTruth == Spec => []ResultIsTruth
  <1>1. IInv => ResultIsTruth
    BY SubmitImplies DEF IInv
  <1> QED
    BY <1>1, Invariance, PTL

\* An Esme comes before its traffic and its end.
THEOREM EsmeComesFirst == Spec => []EsmeFirst
  <1>1. IInv => EsmeFirst
    BY DEF IInv
  <1> QED
    BY <1>1, Invariance, PTL
=============================================================================
