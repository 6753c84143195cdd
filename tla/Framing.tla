------------------------------ MODULE Framing ------------------------------
(***************************************************************************)
(* From bytes to PDUs: one direction of a connection, from the peer's      *)
(* writes to the dispatcher.  The first PDU is framed by the handshake     *)
(* (frame_first_pdu); what shared a segment with it is replayed ahead of   *)
(* the socket; the read loop frames the rest with a cursor.  TCP may cut   *)
(* the stream anywhere.                                                    *)
(*                                                                         *)
(* A byte is the pair <<i, k>>: byte k of the i-th PDU sent.  Only the     *)
(* whole header of a PDU tells its command_length; at any other offset the *)
(* four bytes read as a length are arbitrary.                              *)
(***************************************************************************)
EXTENDS Naturals, Sequences

CONSTANTS
    HdrLen,       \* bytes of a header (16)
    MaxLen,       \* MAX_PDU_LEN (1 MiB)
    Lengths,      \* the command_lengths the peer may claim
    ReadMax,      \* bytes one read returns at most
    MaxPdus,      \* bound: PDUs sent
    ShortWrites   \* whether a write may accept only part of a PDU

ASSUME FramingAssumption ==
    /\ HdrLen \in Nat \ {0} /\ MaxLen \in Nat /\ HdrLen <= MaxLen
    /\ Lengths \subseteq Nat
    /\ ReadMax \in Nat \ {0} /\ MaxPdus \in Nat
    /\ ShortWrites \in BOOLEAN

VARIABLES
    lens,     \* command_length of every PDU sent
    wire,     \* bytes in flight
    peer,     \* "up", or "gone" once the peer has closed its end
    pc,       \* receiver: "handshake", "read", "drain", "close" or "closed"
    hbuf,     \* handshake_buffer
    replay,   \* what Cursor::new(handshake_buffer).chain(..) has yet to yield
    buf,      \* buffer of the read loop
    cursor,   \* bytes of buf dispatched in this batch
    out       \* PDUs dispatched, the bind PDU first

vars == <<lens, wire, peer, pc, hbuf, replay, buf, cursor, out>>

\* A PDU with an acceptable length is that long; any other is a bare header.
Size(L) == IF L \in HdrLen .. MaxLen THEN L ELSE HdrLen

PduBytes(i, L) == [k \in 1 .. Size(L) |-> <<i, k>>]

Drop(s, n) == SubSeq(s, n + 1, Len(s))

\* be_u32_at(b, at): the length the header at that offset claims.
LengthAt(b, at) ==
    LET i == b[at + 1][1] IN
    IF \A k \in 1 .. HdrLen : b[at + k] = <<i, k>>
      THEN {lens[i]} ELSE 0 .. MaxLen + 1

\* Mutant of ValidLength: no upper bound.
ValidLengthNoMax(L) == L >= HdrLen

ValidLength(L) == L >= HdrLen /\ L <= MaxLen

\* Framing::{Incomplete, Invalid, Complete} of the PDU at offset `at', if the
\* header there claims length L.
HasHeader(b, at) == Len(b) - at >= HdrLen

Complete(b, at, L) == ValidLength(L) /\ Len(b) - at >= L

Incomplete(b, at) ==
    HasHeader(b, at) => \E L \in LengthAt(b, at) : ValidLength(L) /\ Len(b) - at < L

Invalid(b, at) == HasHeader(b, at) /\ \E L \in LengthAt(b, at) : ~ValidLength(L)

Init ==
    /\ lens = <<>> /\ wire = <<>> /\ peer = "up"
    /\ pc = "handshake" /\ hbuf = <<>> /\ replay = <<>>
    /\ buf = <<>> /\ cursor = 0 /\ out = <<>>

-----------------------------------------------------------------------------
(* The peer: `writer.write(&frame.pdu)', whose count nobody looks at *)

Write(L) ==
    /\ peer = "up" /\ Len(lens) < MaxPdus
    /\ lens' = Append(lens, L)
    /\ LET p == PduBytes(Len(lens) + 1, L) IN
         \E n \in IF ShortWrites THEN 1 .. Len(p) ELSE {Len(p)} :
           wire' = wire \o SubSeq(p, 1, n)
    /\ UNCHANGED <<peer, pc, hbuf, replay, buf, cursor, out>>

HangUp ==
    /\ peer = "up"
    /\ peer' = "gone"
    /\ UNCHANGED <<lens, wire, pc, hbuf, replay, buf, cursor, out>>

-----------------------------------------------------------------------------
(* Handshake: read until frame_first_pdu has a decision *)

\* A read returns between 1 and ReadMax of the bytes that are there.
Chunks(s) == {n \in 1 .. ReadMax : n <= Len(s)}

HandshakeReads ==
    /\ pc = "handshake"
    /\ Incomplete(hbuf, 0)
    /\ \E n \in Chunks(wire) :
         hbuf' = hbuf \o SubSeq(wire, 1, n) /\ wire' = Drop(wire, n)
    /\ UNCHANGED <<lens, peer, pc, replay, buf, cursor, out>>

\* Mutant of HandshakeCompletes: the leftover is parked in the loop's buffer.
HandshakeCompletesParked ==
    /\ pc = "handshake"
    /\ HasHeader(hbuf, 0)
    /\ \E L \in LengthAt(hbuf, 0) :
         /\ Complete(hbuf, 0, L)
         /\ out' = Append(out, SubSeq(hbuf, 1, L))
         /\ \/ pc' = "read" /\ buf' = Drop(hbuf, L)
            \/ pc' = "close" /\ UNCHANGED buf
    /\ hbuf' = <<>>
    /\ UNCHANGED <<lens, wire, peer, replay, cursor>>

\* split_to(len); the bind it carries succeeds, and the leftover goes ahead of
\* the socket, or it does not, and the connection is closed.
HandshakeCompletes ==
    /\ pc = "handshake"
    /\ HasHeader(hbuf, 0)
    /\ \E L \in LengthAt(hbuf, 0) :
         /\ Complete(hbuf, 0, L)
         /\ out' = Append(out, SubSeq(hbuf, 1, L))
         /\ \/ pc' = "read" /\ replay' = Drop(hbuf, L)
            \/ pc' = "close" /\ UNCHANGED replay
    /\ hbuf' = <<>>
    /\ UNCHANGED <<lens, wire, peer, buf, cursor>>

\* A bogus length, the end of the stream, or session_init_timer without a byte.
HandshakeFails ==
    /\ pc = "handshake"
    /\ \/ Invalid(hbuf, 0)
       \/ Incomplete(hbuf, 0) /\ wire = <<>>
    /\ pc' = "close"
    /\ UNCHANGED <<lens, wire, peer, hbuf, replay, buf, cursor, out>>

-----------------------------------------------------------------------------
(* The read loop *)

\* Chain: the leftover first, alone, then the socket.
Reads ==
    /\ pc = "read"
    /\ \/ /\ replay # <<>>
          /\ \E n \in Chunks(replay) :
               buf' = buf \o SubSeq(replay, 1, n) /\ replay' = Drop(replay, n)
          /\ UNCHANGED wire
       \/ /\ replay = <<>>
          /\ \E n \in Chunks(wire) :
               buf' = buf \o SubSeq(wire, 1, n) /\ wire' = Drop(wire, n)
          /\ UNCHANGED replay
    /\ pc' = "drain" /\ cursor' = 0
    /\ UNCHANGED <<lens, peer, hbuf, out>>

\* One turn of the inner loop: dispatch, then go on behind the PDU, or leave
\* both loops (an unbind, or the writer is gone).
DrainDispatches ==
    /\ pc = "drain"
    /\ HasHeader(buf, cursor)
    /\ \E L \in LengthAt(buf, cursor) :
         /\ Complete(buf, cursor, L)
         /\ out' = Append(out, SubSeq(buf, cursor + 1, cursor + L))
         /\ \/ cursor' = cursor + L /\ UNCHANGED pc
            \/ pc' = "close" /\ UNCHANGED cursor
    /\ UNCHANGED <<lens, wire, peer, hbuf, replay, buf>>

DrainRejects ==
    /\ pc = "drain"
    /\ Invalid(buf, cursor)
    /\ pc' = "close"
    /\ UNCHANGED <<lens, wire, peer, hbuf, replay, buf, cursor, out>>

\* Mutants of DrainEnds: the dispatched bytes stay; only the cursor does.
DrainEndsKeepsBytes ==
    /\ pc = "drain" /\ Incomplete(buf, cursor)
    /\ cursor' = 0 /\ pc' = "read"
    /\ UNCHANGED <<lens, wire, peer, hbuf, replay, buf, out>>
DrainEndsKeepsCursor ==
    /\ pc = "drain" /\ Incomplete(buf, cursor)
    /\ buf' = Drop(buf, cursor) /\ pc' = "read"
    /\ UNCHANGED <<lens, wire, peer, hbuf, replay, cursor, out>>

\* Less than a PDU is left: split_to(cursor) and read again.
DrainEnds ==
    /\ pc = "drain"
    /\ Incomplete(buf, cursor)
    /\ buf' = Drop(buf, cursor) /\ cursor' = 0
    /\ pc' = "read"
    /\ UNCHANGED <<lens, wire, peer, hbuf, replay, out>>

\* The end of the stream, or inactivity_timer without a byte.
ReadFails ==
    /\ pc = "read"
    /\ replay = <<>> /\ wire = <<>>
    /\ pc' = "close"
    /\ UNCHANGED <<lens, wire, peer, hbuf, replay, buf, cursor, out>>

Closes ==
    /\ pc = "close"
    /\ pc' = "closed"
    /\ UNCHANGED <<lens, wire, peer, hbuf, replay, buf, cursor, out>>

Next ==
    \/ (\E L \in Lengths : Write(L)) \/ HangUp
    \/ HandshakeReads \/ HandshakeCompletes \/ HandshakeFails
    \/ Reads \/ DrainDispatches \/ DrainRejects \/ DrainEnds
    \/ ReadFails \/ Closes

Spec == Init /\ [][Next]_vars

-----------------------------------------------------------------------------
(* Properties *)

Bytes == (1 .. MaxPdus) \X (1 .. MaxLen)

\* Type correctness of both ends of the stream.
TypeOK ==
    /\ lens \in Seq(Lengths) /\ Len(lens) <= MaxPdus
    /\ wire \in Seq(Bytes) /\ hbuf \in Seq(Bytes) /\ replay \in Seq(Bytes)
    /\ peer \in {"up", "gone"}
    /\ pc \in {"handshake", "read", "drain", "close", "closed"}
    /\ buf \in Seq(Bytes)
    /\ cursor \in 0 .. Len(buf)
    /\ out \in Seq(Seq(Bytes))

AllPdus  == {PduBytes(i, L) : i \in 1 .. MaxPdus, L \in Lengths}
GoodPdus == {PduBytes(i, L) : i \in 1 .. MaxPdus, L \in Lengths \cap (HdrLen .. MaxLen)}

Stream == INSTANCE PduStream WITH
    Pdus <- AllPdus, Good <- GoodPdus,
    sent <- [i \in 1 .. Len(lens) |-> PduBytes(i, lens[i])],
    got  <- out, up <- pc # "closed"

\* However TCP cuts the stream, and whichever PDUs share a segment with the bind,
\* the dispatcher sees exactly the PDUs sent, whole, in order, each once, and
\* nothing from the first bogus command_length on.
ImplementsPduStream == Stream!Spec

\* When the receiver finds nothing more to read, every PDU sent has been
\* dispatched: no complete PDU, not even one that arrived behind the bind, sits in
\* a buffer waiting for bytes that may never come.
QuietMeansDrained ==
    /\ pc = "handshake" /\ Incomplete(hbuf, 0) /\ wire = <<>> => lens = <<>>
    /\ pc = "read" /\ replay = <<>> /\ wire = <<>> => Len(out) = Len(lens)

\* The bytes kept between two reads are less than one PDU of the largest size.
TailBounded ==
    /\ pc = "read" => Len(buf) < MaxLen
    /\ Len(hbuf) < MaxLen + ReadMax /\ Len(buf) < MaxLen + ReadMax

\* Each PDU handed to the writer reaches the other side's dispatcher as it was:
\* a WriteFrame holds "The actual PDU to send on the TCP connection".
SentWhole ==
    \A i \in 1 .. Len(out) : i <= Len(lens) /\ out[i] = PduBytes(i, lens[i])
=============================================================================
