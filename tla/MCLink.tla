------------------------------- MODULE MCLink -------------------------------
(* Instances of Link for TLC. *)
EXTENDS Link, TLC

CONSTANTS u1, u2, d1

MCClientCalls  == {u1, u2}
MCServerCalls  == {d1}
MCSubmitUnbind == u1 :> "submit_sm" @@ u2 :> "unbind"
MCDeliver      == d1 :> "deliver_sm"

\* The command of every call of a side that makes none.
MCNone == [c \in {} |-> "unbind"]
=============================================================================
