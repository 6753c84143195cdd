-------------------------- MODULE LifecycleProofs --------------------------
(***************************************************************************)
(* Proofs about Lifecycle, for any number of start() calls and any         *)
(* connections of other ESMEs.                                             *)
(***************************************************************************)
EXTENDS Lifecycle, TLAPS

USE DEF history

-----------------------------------------------------------------------------
(* The inductive invariant, in parts *)

\* Nothing has happened on a connection start() has not made yet.
FreshInv ==
    /\ handle <= starts /\ aborted \subseteq 1 .. starts
    /\ \A k \in Starts : k > starts => task[k] = "none" /\ srv[k] = "none"

\* A success is on the way back only if the listener accepted the bind, and a
\* bind that was judged is over or in session.
BindInv ==
    \A k \in Starts :
      /\ resp[k] = "ok" => verdict[k] = "yes"
      /\ verdict[k] # "none" => srv[k] \in {"bound", "closed"}

\* Who answers for `alive': a bound session that stop() has not aborted, or one
\* it aborted too early to see the flag.
SetBy(k) ==
    /\ "bound" \in told[k]
    /\ k \in early \/ (task[k] \in {"bound", "unbinding"} /\ k \notin aborted)

FlagInv ==
    /\ alive => \E k \in Starts : SetBy(k)
    /\ \A k \in Starts :
         /\ task[k] \in {"bound", "unbinding"} => "bound" \in told[k]
         /\ k \in aborted /\ task[k] \in {"spawned", "binding", "accepted"} => k \in early

\* Two session tasks are under way together only if one of them was overlooked
\* by the start() of the other.
CrowdInv ==
    \A j, k \in Starts : ~Over(j) /\ ~Over(k) /\ j # k => j \in crowded /\ k \in crowded

IInv ==
    /\ TypeOK /\ FreshInv /\ BindInv /\ AgreeOnBind /\ FlagInv
    /\ CrowdInv /\ SessionKeepsFlag
-----------------------------------------------------------------------------
(* Type correctness *)

\* Numbers of starts are numbers, and none is a stranger's connection.
LEMMA StartFacts ==
    /\ MaxStarts \in Nat /\ Starts \subseteq Conns /\ Starts \subseteq Nat \ {0}
    /\ \A k \in Strangers : k \notin Starts
  BY LifecycleAssumption DEF Starts, Conns

\* A start() that does not panic makes the next connection.
LEMMA NextStart ==
    ASSUME TypeOK, MayStart
    PROVE  starts + 1 \in Starts /\ starts + 1 \in Conns /\ starts \in Nat
  BY StartFacts DEF TypeOK, MayStart, Starts, Conns

\* A stopped client leaves well-typed sets of aborted tasks.
LEMMA TypeStops ==
    ASSUME TypeOK, Stops
    PROVE  /\ alive' \in BOOLEAN /\ handle' \in 0 .. MaxStarts
           /\ early' \subseteq aborted' /\ aborted' \subseteq Starts
           /\ stopped' \subseteq Starts
  <1>1. /\ handle \in Starts \/ handle = 0
        /\ early \subseteq aborted /\ aborted \subseteq Starts
    BY StartFacts DEF TypeOK, Starts
  <1>2. aborted' \subseteq Starts
    BY <1>1 DEF Stops
  <1>3. \A k \in early' : k \in aborted'
    BY <1>1, StartFacts DEF Stops
  <1>4. 0 \in 0 .. MaxStarts
    BY StartFacts
  <1>5. stopped' \subseteq Starts
    BY DEF TypeOK, Stops
  <1> QED
    BY <1>2, <1>3, <1>4, <1>5 DEF Stops

\* The client's calls preserve the types.
LEMMA TypeCalls ==
    ASSUME TypeOK, StartFails \/ StartConnects \/ Stop \/ Drop
    PROVE  TypeOK'
  <1> USE DEF serverVars
  <1>1. CASE StartFails
    BY <1>1, NextStart, StartFacts DEF TypeOK, StartFails, MayStart, Ends, Tell, Starts
  <1>2. CASE StartConnects
    <2>1. crowded' \subseteq Starts
      BY <1>2, NextStart DEF TypeOK, StartConnects, Joined, Overlooked
    <2> QED
      BY <1>2, <2>1, NextStart, StartFacts DEF TypeOK, StartConnects, MayStart, Starts
  <1>3. CASE Stop
    BY <1>3, TypeStops DEF TypeOK, Stop
  <1>4. CASE Drop
    <2>1. CASE Stops
      BY <1>4, <2>1, TypeStops DEF TypeOK, Drop
    <2>2. CASE handle' = 0 /\ UNCHANGED <<alive, aborted, early, stopped>>
      BY <1>4, <2>2, StartFacts DEF TypeOK, Drop
    <2> QED
      BY <1>4, <2>1, <2>2 DEF Drop
  <1> QED
    BY <1>1, <1>2, <1>3, <1>4

\* The steps of a session task preserve the types.
LEMMA TypeTask ==
    ASSUME TypeOK, NEW k \in Starts, ClientTask(k) \/ Unbound(k)
    PROVE  TypeOK'
  <1> USE DEF TypeOK, serverVars, Ends, Tell
  <1>1. CASE BindWritten(k)
    BY <1>1 DEF BindWritten
  <1>2. CASE BindAccepted(k)
    BY <1>2 DEF BindAccepted
  <1>3. CASE BindGivesUp(k)
    BY <1>3 DEF BindGivesUp
  <1>4. CASE Bound(k)
    BY <1>4 DEF Bound
  <1>5. CASE Unbound(k)
    BY <1>5 DEF Unbound
  <1>6. CASE SessionOver(k)
    BY <1>6 DEF SessionOver
  <1>7. CASE Cancelled(k)
    BY <1>7 DEF Cancelled
  <1> QED
    BY <1>1, <1>2, <1>3, <1>4, <1>5, <1>6, <1>7 DEF ClientTask

ServerStep ==
    \/ ServerStarts \/ AcceptLoopEnds
    \/ \E k \in Conns : ServerTask(k) \/ Decides(k) \/ ServerUnbound(k)
    \/ \E k \in Strangers : StrangerConnects(k)

\* The server leaves the client alone.
LEMMA ServerKeepsClient ==
    ASSUME ServerStep
    PROVE  UNCHANGED <<alive, handle, starts, dropped, task, aborted, history, told, sent>>
  BY DEF ServerStep, ServerStarts, AcceptLoopEnds, ServerTask, Accept, ReadsFirst,
         OpenTimesOut, Decides, ServerUnbound, StrangerConnects, clientVars

\* What the server does to one connection, in one place: it takes up or closes
\* a connection whose bind is not judged, judges it, or ends its session.
LEMMA ServerMoves ==
    ASSUME TypeOK, ServerStep
    PROVE  \/ UNCHANGED <<srv, verdict, resp>>
           \/ /\ srv' = [k \in Conns |-> IF srv[k] = "backlog" THEN "closed" ELSE srv[k]]
              /\ UNCHANGED <<verdict, resp>>
           \/ \E k \in Conns :
                /\ srv[k] # "none" \/ k \notin Starts
                /\ \/ /\ srv[k] \notin {"bound", "closed"}
                      /\ srv' = [srv EXCEPT ![k] = srv'[k]]
                      /\ srv'[k] \in {"backlog", "open", "deciding", "closed"}
                      /\ UNCHANGED verdict
                      /\ resp' = resp \/ \E p \in {"refused", "nack"} : Answers(k, p)
                   \/ /\ srv[k] = "deciding"
                      /\ srv' = [srv EXCEPT ![k] = srv'[k]]
                      /\ srv'[k] \in {"bound", "closed"}
                      /\ \/ Judges(k, "yes") /\ (Answers(k, "ok") \/ resp' = resp)
                         \/ Judges(k, "no") /\ Answers(k, "refused")
                   \/ /\ srv[k] = "bound"
                      /\ srv' = [srv EXCEPT ![k] = "closed"]
                      /\ UNCHANGED <<verdict, resp>>
  <1> USE DEF TypeOK
  <1>1. CASE ServerStarts
    BY <1>1 DEF ServerStarts
  <1>2. CASE AcceptLoopEnds
    BY <1>2 DEF AcceptLoopEnds
  <1>3. ASSUME NEW k \in Conns, Accept(k) \/ OpenTimesOut(k)
        PROVE  /\ srv[k] \notin {"none", "bound", "closed"}
               /\ srv' = [srv EXCEPT ![k] = srv'[k]]
               /\ srv'[k] \in {"open", "closed"} /\ UNCHANGED <<verdict, resp>>
    BY <1>3 DEF Accept, OpenTimesOut
  <1>4. ASSUME NEW k \in Conns, ReadsFirst(k)
        PROVE  /\ srv[k] \notin {"none", "bound", "closed"}
               /\ srv' = [srv EXCEPT ![k] = srv'[k]]
               /\ srv'[k] \in {"deciding", "closed"} /\ UNCHANGED verdict
               /\ resp' = resp \/ \E p \in {"refused", "nack"} : Answers(k, p)
    BY <1>4 DEF ReadsFirst, Rejection
  <1>5. ASSUME NEW k \in Conns, Decides(k)
        PROVE  /\ srv[k] = "deciding"
               /\ srv' = [srv EXCEPT ![k] = srv'[k]]
               /\ srv'[k] \in {"bound", "closed"}
               /\ \/ Judges(k, "yes") /\ (Answers(k, "ok") \/ resp' = resp)
                  \/ Judges(k, "no") /\ Answers(k, "refused")
    BY <1>5 DEF Decides
  <1>6. ASSUME NEW k \in Conns, ServerUnbound(k)
        PROVE  /\ srv[k] = "bound" /\ srv' = [srv EXCEPT ![k] = "closed"]
               /\ UNCHANGED <<verdict, resp>>
    BY <1>6 DEF ServerUnbound
  <1>7. ASSUME NEW k \in Strangers, StrangerConnects(k)
        PROVE  /\ k \in Conns /\ k \notin Starts /\ srv[k] = "none"
               /\ srv' = [srv EXCEPT ![k] = srv'[k]]
               /\ srv'[k] = "backlog" /\ UNCHANGED <<verdict, resp>>
    BY <1>7, StartFacts DEF StrangerConnects, Conns
  <1> HIDE DEF TypeOK
  <1> QED
    BY <1>1, <1>2, <1>3, <1>4, <1>5, <1>6, <1>7 DEF ServerStep, ServerTask

\* The server's steps preserve the types.
LEMMA TypeServer ==
    ASSUME TypeOK, ServerStep
    PROVE  TypeOK'
  <1>1. /\ srv' \in [Conns -> {"none", "backlog", "open", "deciding", "bound", "closed"}]
        /\ verdict' \in [Starts -> {"none", "yes", "no"}]
        /\ resp' \in [Starts -> {"none", "ok", "refused", "nack"}]
    BY ServerMoves DEF TypeOK, Answers, Judges
  <1>2. accepting' \in BOOLEAN
    BY DEF TypeOK, ServerStep, ServerStarts, AcceptLoopEnds, ServerTask, Accept, ReadsFirst,
           OpenTimesOut, Decides, ServerUnbound, StrangerConnects
  <1> QED
    BY <1>1, <1>2, ServerKeepsClient DEF TypeOK

\* Next, by who takes the step.
LEMMA NextCases ==
    ASSUME [Next]_vars
    PROVE  \/ StartFails \/ StartConnects \/ Stop \/ Drop
           \/ \E k \in Starts : ClientTask(k) \/ Unbound(k)
           \/ ServerStep
           \/ UNCHANGED vars
  BY DEF Next, ServerStep

\* Every step preserves the types.
LEMMA TypeStep == TypeOK /\ [Next]_vars => TypeOK'
  <1> SUFFICES ASSUME TypeOK, [Next]_vars PROVE TypeOK'
    OBVIOUS
  <1>1. CASE UNCHANGED vars
    BY <1>1 DEF TypeOK, vars, clientVars, serverVars
  <1> QED
    BY <1>1, NextCases, TypeCalls, TypeTask, TypeServer

-----------------------------------------------------------------------------
(* Connections that are not made yet *)

\* A step on connection k leaves the others' task, and k's is not fresh.
LEMMA FreshStep == TypeOK /\ FreshInv /\ [Next]_vars => FreshInv'
  <1> SUFFICES ASSUME TypeOK, FreshInv, [Next]_vars PROVE FreshInv'
    OBVIOUS
  <1> USE DEF FreshInv, serverVars
  <1>0. /\ starts \in Nat /\ handle \in Nat /\ Starts \subseteq Nat \ {0}
        /\ task \in [Starts -> {"none", "spawned", "binding", "accepted", "bound",
                                "unbinding", "done"}]
        /\ srv \in [Conns -> {"none", "backlog", "open", "deciding", "bound", "closed"}]
        /\ Starts \subseteq Conns
    BY StartFacts DEF TypeOK
  <1>1. CASE StartFails
    <2>1. starts' = starts + 1 /\ handle' = handle /\ aborted' = aborted /\ srv' = srv
      BY <1>1 DEF StartFails
    <2>2. \A k \in Starts : k > starts' => task'[k] = task[k]
      BY <1>0, <1>1, <2>1 DEF StartFails, Ends
    <2> QED
      BY <1>0, <2>1, <2>2
  <1>2. CASE StartConnects
    <2>1. starts' = starts + 1 /\ handle' = starts + 1 /\ aborted' = aborted
      BY <1>2 DEF StartConnects
    <2>2. \A k \in Starts : k > starts' => task'[k] = task[k] /\ srv'[k] = srv[k]
      BY <1>0, <1>2, <2>1 DEF StartConnects
    <2> QED
      BY <1>0, <2>1, <2>2
  <1>3. ASSUME Stops PROVE handle' <= starts /\ aborted' \subseteq 1 .. starts
    <2>1. handle = 0 \/ handle \in 1 .. starts
      BY <1>0
    <2> QED
      BY <1>0, <1>3, <2>1 DEF Stops
  <1>4. CASE Stop \/ Drop
    <2>1. UNCHANGED <<starts, task, srv>>
      BY <1>4 DEF Stop, Drop
    <2>2. handle' <= starts /\ aborted' \subseteq 1 .. starts
      <3>1. Stops \/ (handle' = 0 /\ aborted' = aborted)
        BY <1>4 DEF Stop, Drop
      <3>2. CASE handle' = 0 /\ aborted' = aborted
        BY <1>0, <3>2
      <3> QED
        BY <1>3, <3>1, <3>2
    <2> QED
      BY <2>1, <2>2
  <1>5. ASSUME NEW k \in Starts, ClientTask(k) \/ Unbound(k)
        PROVE  FreshInv'
    <2>1. /\ handle' = handle /\ starts' = starts /\ aborted' = aborted /\ srv' = srv
          /\ task[k] # "none" /\ \A j \in Starts \ {k} : task'[j] = task[j]
      BY <1>0, <1>5 DEF ClientTask, BindWritten, BindAccepted, BindGivesUp, Bound, Unbound,
                        SessionOver, Cancelled, Ends
    <2> QED
      BY <1>0, <2>1
  <1>6. CASE ServerStep
    <2>1. \A k \in Starts : srv[k] = "none" => srv'[k] = "none"
      BY <1>0, <1>6, ServerMoves
    <2> QED
      BY <2>1, <1>6, ServerKeepsClient
  <1>7. CASE UNCHANGED vars
    BY <1>7 DEF vars, clientVars
  <1> QED
    BY <1>1, <1>2, <1>4, <1>5, <1>6, <1>7, NextCases

-----------------------------------------------------------------------------
(* The bind *)

\* What the client does to its own task leaves the server's view alone and
\* enters a session only behind a success.
LEMMA BindTask ==
    ASSUME TypeOK, BindInv, AgreeOnBind, NEW k \in Starts, ClientTask(k) \/ Unbound(k)
    PROVE  BindInv' /\ AgreeOnBind'
  <1>0. /\ task \in [Starts -> {"none", "spawned", "binding", "accepted", "bound",
                                "unbinding", "done"}]
        /\ told \in [Starts -> SUBSET {"failed", "bound", "unbound"}]
    BY DEF TypeOK
  <1>1. UNCHANGED <<srv, verdict, resp>>
    BY DEF ClientTask, BindWritten, BindAccepted, BindGivesUp, Bound, Unbound,
           SessionOver, Cancelled, serverVars
  <1>2. \A j \in Starts \ {k} : task'[j] = task[j] /\ told'[j] = told[j]
    BY <1>0 DEF ClientTask, BindWritten, BindAccepted, BindGivesUp, Bound, Unbound,
                SessionOver, Cancelled, Ends, Tell
  <1>3. \/ task[k] \in {"accepted", "bound", "unbinding"} \/ resp[k] = "ok"
        \/ /\ task'[k] \notin {"accepted", "bound", "unbinding"}
           /\ "bound" \in told'[k] => "bound" \in told[k]
    BY <1>0 DEF ClientTask, BindWritten, BindAccepted, BindGivesUp, Bound, Unbound,
                SessionOver, Cancelled, Ends, Tell
  <1> QED
    BY <1>1, <1>2, <1>3 DEF BindInv, AgreeOnBind

\* The server judges a bind before it answers, and once.
LEMMA BindServer ==
    ASSUME TypeOK, BindInv, AgreeOnBind, ServerStep
    PROVE  BindInv' /\ AgreeOnBind'
  <1>0. /\ srv \in [Conns -> {"none", "backlog", "open", "deciding", "bound", "closed"}]
        /\ Starts \subseteq Conns
        /\ verdict \in [Starts -> {"none", "yes", "no"}]
        /\ resp \in [Starts -> {"none", "ok", "refused", "nack"}]
    BY StartFacts DEF TypeOK
  <1>1. UNCHANGED <<task, told>>
    BY ServerKeepsClient
  <1>2. ASSUME NEW j \in Starts
        PROVE  /\ resp'[j] = "ok" => verdict'[j] = "yes"
               /\ verdict'[j] # "none" => srv'[j] \in {"bound", "closed"}
               /\ verdict[j] = "yes" => verdict'[j] = "yes"
               /\ srv[j] \in {"bound", "closed"} => srv'[j] \in {"bound", "closed"}
    BY <1>0, ServerMoves DEF BindInv, Answers, Judges
  <1> QED
    BY <1>1, <1>2 DEF BindInv, AgreeOnBind

\* Every step keeps the two sides in agreement about every bind.
LEMMA BindStep ==
    TypeOK /\ FreshInv /\ BindInv /\ AgreeOnBind /\ [Next]_vars => BindInv' /\ AgreeOnBind'
  <1> SUFFICES ASSUME TypeOK, FreshInv, BindInv, AgreeOnBind, [Next]_vars
               PROVE  BindInv' /\ AgreeOnBind'
    OBVIOUS
  <1>0. /\ task \in [Starts -> {"none", "spawned", "binding", "accepted", "bound",
                                "unbinding", "done"}]
        /\ told \in [Starts -> SUBSET {"failed", "bound", "unbound"}]
        /\ srv \in [Conns -> {"none", "backlog", "open", "deciding", "bound", "closed"}]
        /\ Starts \subseteq Conns
    BY StartFacts DEF TypeOK
  <1>1. CASE StartFails \/ StartConnects
    <2> DEFINE n == starts + 1
    <2>1. n \in Starts /\ srv[n] = "none" /\ task[n] = "none"
      BY <1>1, NextStart DEF FreshInv, StartFails, StartConnects
    <2>2. UNCHANGED <<verdict, resp>>
      BY <1>1 DEF StartFails, StartConnects, serverVars
    <2>3. /\ \A j \in Starts \ {n} : /\ task'[j] = task[j] /\ told'[j] = told[j]
                                    /\ srv'[j] = srv[j]
          /\ task'[n] \in {"spawned", "done"}
          /\ "bound" \in told'[n] => "bound" \in told[n]
      BY <1>0, <1>1, <2>1 DEF StartFails, StartConnects, Ends, Tell, serverVars
    <2> HIDE DEF n
    <2> QED
      BY <2>1, <2>2, <2>3 DEF BindInv, AgreeOnBind
  <1>2. CASE Stop \/ Drop
    BY <1>2 DEF Stop, Drop, serverVars, BindInv, AgreeOnBind
  <1>3. CASE UNCHANGED vars
    BY <1>3 DEF vars, clientVars, serverVars, BindInv, AgreeOnBind
  <1> QED
    BY <1>1, <1>2, <1>3, BindTask, BindServer, NextCases

-----------------------------------------------------------------------------
(* The flag *)

\* A step of a session task keeps somebody answerable for the flag.
LEMMA FlagTask ==
    ASSUME TypeOK, FlagInv, NEW k \in Starts, ClientTask(k) \/ Unbound(k)
    PROVE  FlagInv'
  <1>0. /\ task \in [Starts -> {"none", "spawned", "binding", "accepted", "bound",
                                "unbinding", "done"}]
        /\ told \in [Starts -> SUBSET {"failed", "bound", "unbound"}]
    BY DEF TypeOK
  <1> USE DEF FlagInv
  <1>1. UNCHANGED <<aborted, early>>
    BY DEF ClientTask, BindWritten, BindAccepted, BindGivesUp, Bound, Unbound,
           SessionOver, Cancelled
  <1>2. \A j \in Starts \ {k} : task'[j] = task[j] /\ told'[j] = told[j]
    BY <1>0 DEF ClientTask, BindWritten, BindAccepted, BindGivesUp, Bound, Unbound,
                SessionOver, Cancelled, Ends, Tell
  <1>3. "bound" \in told[k] => "bound" \in told'[k]
    BY <1>0 DEF ClientTask, BindWritten, BindAccepted, BindGivesUp, Bound, Unbound,
                SessionOver, Cancelled, Ends, Tell
  <1>4. /\ task'[k] \in {"bound", "unbinding"} => "bound" \in told'[k]
        /\ task'[k] \in {"spawned", "binding", "accepted"} =>
             task[k] \in {"spawned", "binding", "accepted"}
    BY <1>0 DEF ClientTask, BindWritten, BindAccepted, BindGivesUp, Bound, Unbound,
                SessionOver, Cancelled, Ends, Tell
  <1>5. alive' => \E j \in Starts : SetBy(j)'
    <2>1. CASE Bound(k)
      <3>1. "bound" \in told'[k] /\ task'[k] = "bound" /\ task[k] = "accepted"
        BY <1>0, <2>1 DEF Bound, Tell
      <3> QED
        BY <3>1, <1>1 DEF SetBy
    <2>2. CASE SessionOver(k)
      BY <2>2 DEF SessionOver
    <2>3. CASE /\ alive' = alive
               /\ k \notin aborted /\ task[k] \in {"bound", "unbinding"} =>
                    task'[k] \in {"bound", "unbinding"}
      <3> SUFFICES ASSUME alive PROVE \E j \in Starts : SetBy(j)'
        BY <2>3
      <3>1. PICK j \in Starts : SetBy(j)
        OBVIOUS
      <3>2. SetBy(j)'
        BY <1>1, <1>2, <1>3, <2>3, <3>1 DEF SetBy
      <3> QED
        BY <3>2
    <2>4. \/ Bound(k) \/ SessionOver(k)
          \/ /\ alive' = alive
             /\ k \notin aborted /\ task[k] \in {"bound", "unbinding"} =>
                  task'[k] \in {"bound", "unbinding"}
      BY <1>0 DEF ClientTask, BindWritten, BindAccepted, BindGivesUp, Unbound, Cancelled, Ends
    <2> QED
      BY <2>1, <2>2, <2>3, <2>4
  <1> QED
    BY <1>1, <1>2, <1>4, <1>5

\* Every step keeps somebody answerable for the flag.
LEMMA FlagStep == TypeOK /\ FreshInv /\ FlagInv /\ [Next]_vars => FlagInv'
  <1> SUFFICES ASSUME TypeOK, FreshInv, FlagInv, [Next]_vars PROVE FlagInv'
    OBVIOUS
  <1>0. /\ task \in [Starts -> {"none", "spawned", "binding", "accepted", "bound",
                                "unbinding", "done"}]
        /\ told \in [Starts -> SUBSET {"failed", "bound", "unbound"}]
    BY DEF TypeOK
  <1>1. CASE StartFails \/ StartConnects
    <2> DEFINE n == starts + 1
    <2>1. n \in Starts /\ task[n] = "none" /\ n \notin aborted
      BY <1>1, NextStart DEF FreshInv, StartFails, StartConnects
    <2>2. UNCHANGED <<aborted, early>> /\ ~alive'
      BY <1>1 DEF StartFails, StartConnects, MayStart
    <2>3. /\ \A j \in Starts \ {n} : task'[j] = task[j] /\ told'[j] = told[j]
          /\ task'[n] \in {"spawned", "done"}
      BY <1>0, <1>1, <2>1 DEF StartFails, StartConnects, Ends, Tell
    <2> HIDE DEF n
    <2> QED
      BY <2>1, <2>2, <2>3 DEF FlagInv
  <1>2. CASE Stops /\ UNCHANGED <<task, told>>
    BY <1>2 DEF FlagInv, Stops, Binding
  <1>3. CASE UNCHANGED <<alive, aborted, early, task, told>>
    BY <1>3 DEF FlagInv, SetBy
  <1>4. Stop \/ Drop => \/ Stops /\ UNCHANGED <<task, told>>
                       \/ UNCHANGED <<alive, aborted, early, task, told>>
    BY DEF Stop, Drop
  <1>5. ServerStep \/ UNCHANGED vars => UNCHANGED <<alive, aborted, early, task, told>>
    BY ServerKeepsClient DEF vars, clientVars
  <1> QED
    BY <1>1, <1>2, <1>3, <1>4, <1>5, FlagTask, NextCases

-----------------------------------------------------------------------------
(* Two sessions over one flag *)

\* A start() that connects has every session task under way join the crowd: one
\* in session with the flag clear is one that lost it.
LEMMA CrowdStart ==
    ASSUME TypeOK, FreshInv, CrowdInv, SessionKeepsFlag, StartConnects
    PROVE  CrowdInv' /\ SessionKeepsFlag'
  <1>0. task \in [Starts -> {"none", "spawned", "binding", "accepted", "bound",
                             "unbinding", "done"}]
    BY DEF TypeOK
  <1>1. ~alive /\ starts + 1 \in Starts
    BY NextStart DEF StartConnects, MayStart
  <1>n. PICK n \in Starts : n = starts + 1
    BY <1>1
  <1>2. /\ \A j \in Starts \ {n} : task'[j] = task[j]
        /\ task'[n] = "spawned" /\ alive' = alive /\ stopped' = stopped
        /\ crowded' = crowded \cup Joined(n)
    BY <1>0, <1>n DEF StartConnects
  <1>3. \A j \in Starts : ~Over(j) => j \in Overlooked
    BY <1>0, <1>1 DEF Over, Overlooked, Binding, InSession, SessionKeepsFlag
  <1>4. \A j \in Starts \ {n} : ~Over(j) => j \in crowded' /\ n \in crowded'
    BY <1>2, <1>3 DEF Joined
  <1>5. \A j \in Starts \ {n} : Over(j)' = Over(j) /\ InSession(j)' = InSession(j)
    BY <1>2 DEF Over, InSession
  <1>6. ~InSession(n)'
    BY <1>2 DEF InSession
  <1>7. CrowdInv'
    BY <1>2, <1>4, <1>5 DEF CrowdInv
  <1>8. SessionKeepsFlag'
    BY <1>2, <1>5, <1>6 DEF SessionKeepsFlag
  <1> QED
    BY <1>7, <1>8

\* A session task clears the flag of another only as one of two under way.
LEMMA CrowdTask ==
    ASSUME TypeOK, CrowdInv, SessionKeepsFlag, NEW k \in Starts, ClientTask(k) \/ Unbound(k)
    PROVE  CrowdInv' /\ SessionKeepsFlag'
  <1>0. task \in [Starts -> {"none", "spawned", "binding", "accepted", "bound",
                             "unbinding", "done"}]
    BY DEF TypeOK
  <1>1. UNCHANGED <<stopped, crowded>>
    BY DEF ClientTask, BindWritten, BindAccepted, BindGivesUp, Bound, Unbound,
           SessionOver, Cancelled
  <1>2. \A j \in Starts \ {k} : task'[j] = task[j]
    BY <1>0 DEF ClientTask, BindWritten, BindAccepted, BindGivesUp, Bound, Unbound,
                SessionOver, Cancelled, Ends
  <1>3. \A j \in Starts \ {k} : Over(j)' = Over(j) /\ InSession(j)' = InSession(j)
    BY <1>2 DEF Over, InSession
  <1>4. ~Over(k)
    BY <1>0 DEF ClientTask, BindWritten, BindAccepted, BindGivesUp, Bound, Unbound,
                SessionOver, Cancelled, Over
  <1>5. \/ alive' = TRUE
        \/ alive' = FALSE /\ ~InSession(k)'
        \/ alive' = alive /\ (InSession(k)' => InSession(k))
    BY <1>0 DEF ClientTask, BindWritten, BindAccepted, BindGivesUp, Bound, Unbound,
                SessionOver, Cancelled, Ends, InSession
  <1>6. CrowdInv'
    BY <1>1, <1>3, <1>4 DEF CrowdInv
  <1>7. \A j \in Starts \ {k} : InSession(j) => j \in crowded
    BY <1>4 DEF CrowdInv, Over, InSession
  <1>8. SessionKeepsFlag'
    BY <1>1, <1>3, <1>5, <1>7 DEF SessionKeepsFlag
  <1> QED
    BY <1>6, <1>8

\* Every step keeps track of who shares the flag with whom.
LEMMA CrowdStep ==
    TypeOK /\ FreshInv /\ CrowdInv /\ SessionKeepsFlag /\ [Next]_vars
      => CrowdInv' /\ SessionKeepsFlag'
  <1> SUFFICES ASSUME TypeOK, FreshInv, CrowdInv, SessionKeepsFlag, [Next]_vars
               PROVE  CrowdInv' /\ SessionKeepsFlag'
    OBVIOUS
  <1>0. task \in [Starts -> {"none", "spawned", "binding", "accepted", "bound",
                             "unbinding", "done"}]
    BY DEF TypeOK
  <1>1. CASE StartFails
    <2>1. starts + 1 \in Starts
      BY <1>1, NextStart DEF StartFails
    <2>n. PICK n \in Starts : n = starts + 1
      BY <2>1
    <2>2. /\ \A j \in Starts \ {n} : task'[j] = task[j]
          /\ task'[n] = "done" /\ UNCHANGED <<alive, stopped, crowded>>
      BY <1>0, <1>1, <2>n DEF StartFails, Ends
    <2> QED
      BY <2>1, <2>2 DEF CrowdInv, SessionKeepsFlag, Over, InSession
  <1>2. CASE Stops /\ UNCHANGED <<task, crowded>>
    BY <1>0, <1>2 DEF CrowdInv, SessionKeepsFlag, Over, InSession, Stops
  <1>3. CASE UNCHANGED <<alive, stopped, crowded, task>>
    BY <1>3 DEF CrowdInv, SessionKeepsFlag, Over, InSession
  <1>4. Stop \/ Drop => \/ Stops /\ UNCHANGED <<task, crowded>>
                       \/ UNCHANGED <<alive, stopped, crowded, task>>
    BY DEF Stop, Drop
  <1>5. ServerStep \/ UNCHANGED vars => UNCHANGED <<alive, stopped, crowded, task>>
    BY ServerKeepsClient DEF vars, clientVars
  <1> QED
    BY <1>1, <1>2, <1>3, <1>4, <1>5, CrowdStart, CrowdTask, NextCases

-----------------------------------------------------------------------------
(* The theorems *)

\* The first state satisfies the invariant.
LEMMA IInvInit == Init => IInv
  <1> SUFFICES ASSUME Init PROVE IInv
    OBVIOUS
  <1>1. 0 \in 0 .. MaxStarts
    BY StartFacts
  <1>2. TypeOK
    BY <1>1 DEF Init, TypeOK
  <1> QED
    BY <1>2, StartFacts DEF Init, IInv, FreshInv, BindInv, AgreeOnBind, FlagInv, CrowdInv, Over,
                            SessionKeepsFlag, InSession

\* The invariant is inductive.
LEMMA IInvNext == IInv /\ [Next]_vars => IInv'
  BY TypeStep, FreshStep, BindStep, FlagStep, CrowdStep DEF IInv

LEMMA IInvAlways == Spec => []IInv
  BY IInvInit, IInvNext, PTL DEF Spec

\* Every state of clients, server and connections is well typed, however many
\* times start() is called.
THEOREM TypeCorrect == Spec => []TypeOK
  <1>1. IInv => TypeOK
    BY DEF IInv
  <1> QED
    BY <1>1, IInvAlways, PTL

\* Client and server agree on every bind: a client is in a session only on a
\* connection whose bind the server's listener accepted, whatever is stopped,
\* dropped or restarted meanwhile.
THEOREM BindAgreed == Spec => []AgreeOnBind
  <1>1. IInv => AgreeOnBind
    BY DEF IInv
  <1> QED
    BY <1>1, IInvAlways, PTL

\* A client whose session tasks are all over has a clear `alive', and can be
\* started again, unless stop() raced a bind that was being accepted.
THEOREM FlagCleared == Spec => []FlagClearedUnlessRaced
  <1>1. IInv => FlagClearedUnlessRaced
    BY DEF IInv, FlagInv, SetBy, FlagClearedUnlessRaced, Over
  <1> QED
    BY <1>1, IInvAlways, PTL

\* A session keeps the flag it runs under, however often start() is called: only
\* a stop(), or a start() that overlooked a session task, can take it away.
THEOREM FlagKept == Spec => []SessionKeepsFlag
  <1>1. IInv => SessionKeepsFlag
    BY DEF IInv
  <1> QED
    BY <1>1, IInvAlways, PTL
=============================================================================
