----------------------------- MODULE PduStream -----------------------------
(***************************************************************************)
(* What the framing of a connection promises the dispatcher, without bytes:*)
(* the well-formed PDUs come out whole, in the order in which they were    *)
(* sent, each once, until the connection is given up.                      *)
(***************************************************************************)
EXTENDS Naturals, Sequences

CONSTANTS
    Pdus,   \* what may be sent
    Good    \* the PDUs whose command_length is acceptable

VARIABLES
    sent,   \* PDUs sent so far
    got,    \* PDUs handed to the dispatcher so far
    up      \* the receiver still reads

vars == <<sent, got, up>>

Init == sent = <<>> /\ got = <<>> /\ up = TRUE

Send ==
    /\ \E p \in Pdus : sent' = Append(sent, p)
    /\ UNCHANGED <<got, up>>

Receive ==
    /\ up
    /\ Len(got) < Len(sent)
    /\ sent[Len(got) + 1] \in Good
    /\ got' = Append(got, sent[Len(got) + 1])
    /\ UNCHANGED <<sent, up>>

Close == up /\ up' = FALSE /\ UNCHANGED <<sent, got>>

Next == Send \/ Receive \/ Close

Spec == Init /\ [][Next]_vars
=============================================================================
