----------------------------- MODULE MCFraming -----------------------------
(* Instances of Framing for TLC. *)
EXTENDS Framing

\* Too short, a bare header, with a body, the longest, too long.
MCLengths == {1, 2, 3, 4, 5}
\* Well-formed PDUs only.
MCGoodLengths == {2, 3}
=============================================================================
