--------------------------- MODULE FramingProofs ---------------------------
(***************************************************************************)
(* Proofs about Framing, for every header and PDU length, every size of a  *)
(* read and every number of PDUs.  What PDUs come out is proved for a      *)
(* socket that takes whole PDUs (~ShortWrites), what the buffers hold for  *)
(* both kinds.                                                             *)
(***************************************************************************)
EXTENDS Framing, SequenceTheorems, TLAPS

-----------------------------------------------------------------------------
(* The inductive invariants, in parts *)

\* A byte that is anywhere is one of a PDU that was sent.
SentBytes == (1 .. Len(lens)) \X (1 .. MaxLen)

BytesInv ==
    /\ wire \in Seq(SentBytes) /\ hbuf \in Seq(SentBytes)
    /\ replay \in Seq(SentBytes) /\ buf \in Seq(SentBytes)

\* The read loop starts with an empty buffer.
EmptyInv == pc = "handshake" => buf = <<>>

BufferInv == TypeOK /\ BytesInv /\ EmptyInv /\ TailBounded

\* The stream as it was written: PDU i starts behind byte off[i] of it.
Laid(S, off) ==
    /\ off \in [1 .. Len(lens) + 1 -> Nat] /\ off[1] = 0
    /\ \A i \in 1 .. Len(lens) : off[i + 1] = off[i] + Size(lens[i])
    /\ \A i, j \in 1 .. Len(lens) + 1 : i <= j => off[i] <= off[j]
    /\ \A i \in 1 .. Len(lens) : \A k \in 1 .. Size(lens[i]) : S[off[i] + k] = <<i, k>>

\* Segment s holds what stands in the stream behind position p.
At(S, s, p) == \A j \in 1 .. Len(s) : s[j] = S[p + j]

\* So does what is left of buffer b behind its first `at' bytes.
Behind(S, b, at, p) == \A j \in 1 .. Len(b) - at : b[at + j] = S[p + j]

\* What the handshake has read, and then the wire, is the whole stream.
InHandshake(S, off) ==
    /\ out = <<>> /\ replay = <<>> /\ buf = <<>> /\ cursor = 0
    /\ At(S, hbuf, 0) /\ At(S, wire, Len(hbuf))
    /\ Len(hbuf) + Len(wire) = off[Len(lens) + 1]

\* The stream behind the PDUs dispatched so far is the buffer behind the cursor,
\* what is left to replay, and the wire.
InLoop(S, off) ==
    LET start == off[Len(out) + 1]
        seen  == start + (Len(buf) - cursor)
    IN  /\ Behind(S, buf, cursor, start)
        /\ At(S, replay, seen)
        /\ At(S, wire, seen + Len(replay))
        /\ seen + Len(replay) + Len(wire) = off[Len(lens) + 1]

\* Between two reads the loop keeps less than the PDU it is at.
TailInv ==
    pc = "read" =>
      cursor = 0 /\ (Len(out) < Len(lens) => Len(buf) < Size(lens[Len(out) + 1]))

Placed(S, off) ==
    /\ Laid(S, off)
    /\ pc = "handshake" => InHandshake(S, off)
    /\ pc \in {"read", "drain"} => InLoop(S, off)

StreamInv ==
    /\ Len(out) <= Len(lens) /\ SentWhole
    /\ TailInv
    /\ \E S, off : Placed(S, off)
-----------------------------------------------------------------------------
(* The operators of the model *)

\* The constants and sizes, as the provers need them.
LEMMA SizeFacts ==
    /\ HdrLen \in Nat /\ HdrLen >= 1 /\ MaxLen \in Nat /\ HdrLen <= MaxLen
    /\ ReadMax \in Nat /\ ReadMax >= 1 /\ MaxPdus \in Nat
    /\ \A L \in Nat : Size(L) \in Nat /\ HdrLen <= Size(L) /\ Size(L) <= MaxLen
  BY FramingAssumption DEF Size

\* A PDU is a sequence of its own bytes.
LEMMA PduBytesSeq ==
    ASSUME NEW i, NEW L \in Nat
    PROVE  /\ PduBytes(i, L) \in Seq({i} \X (1 .. MaxLen))
           /\ Len(PduBytes(i, L)) = Size(L)
           /\ \A k \in 1 .. Size(L) : PduBytes(i, L)[k] = <<i, k>>
  <1>1. Size(L) \in Nat /\ Size(L) <= MaxLen /\ MaxLen \in Nat
    BY SizeFacts
  <1>2. \A k \in 1 .. Size(L) : k \in 1 .. MaxLen
    BY <1>1
  <1>3. \A k \in 1 .. Size(L) : <<i, k>> \in {i} \X (1 .. MaxLen)
    BY <1>2
  <1>4. PduBytes(i, L) \in Seq({i} \X (1 .. MaxLen))
    BY <1>1, <1>3, IsASeq DEF PduBytes
  <1>5. DOMAIN PduBytes(i, L) = 1 .. Size(L)
    BY DEF PduBytes
  <1>6. Len(PduBytes(i, L)) = Size(L)
    BY <1>1, <1>4, <1>5, LenProperties
  <1> QED
    BY <1>4, <1>6 DEF PduBytes

\* The part of a buffer up to n, and what is left behind it.
LEMMA Split ==
    ASSUME NEW T, NEW s \in Seq(T), NEW n \in Nat, n <= Len(s)
    PROVE  /\ SubSeq(s, 1, n) \in Seq(T) /\ Len(SubSeq(s, 1, n)) = n
           /\ \A j \in 1 .. n : SubSeq(s, 1, n)[j] = s[j]
           /\ Drop(s, n) \in Seq(T) /\ Len(Drop(s, n)) = Len(s) - n
           /\ \A j \in 1 .. Len(s) - n : Drop(s, n)[j] = s[n + j]
  <1>1. Len(s) \in Nat /\ \A j \in 1 .. Len(s) : s[j] \in T
    BY LenProperties
  <1>2. \A j \in 1 .. n : s[j] \in T
    BY <1>1
  <1>3. \A j \in n + 1 .. Len(s) : s[j] \in T
    BY <1>1
  <1>4. /\ SubSeq(s, 1, n) \in Seq(T)
        /\ Len(SubSeq(s, 1, n)) = IF 1 <= n THEN n - 1 + 1 ELSE 0
        /\ \A i \in 1 .. n - 1 + 1 : SubSeq(s, 1, n)[i] = s[1 + i - 1]
    BY <1>2, SubSeqProperties
  <1>5. /\ SubSeq(s, n + 1, Len(s)) \in Seq(T)
        /\ Len(SubSeq(s, n + 1, Len(s))) = IF n + 1 <= Len(s) THEN Len(s) - (n + 1) + 1 ELSE 0
        /\ \A i \in 1 .. Len(s) - (n + 1) + 1 :
              SubSeq(s, n + 1, Len(s))[i] = s[(n + 1) + i - 1]
    <2>1. n + 1 \in Int /\ Len(s) \in Int
      BY <1>1
    <2> QED
      BY <2>1, <1>3, SubSeqProperties
  <1>6. Len(SubSeq(s, 1, n)) = n /\ \A j \in 1 .. n : SubSeq(s, 1, n)[j] = s[j]
    <2>1. n - 1 + 1 = n /\ \A j \in 1 .. n : 1 + j - 1 = j
      OBVIOUS
    <2> QED
      BY <1>4, <2>1
  <1>7. /\ Len(SubSeq(s, n + 1, Len(s))) = Len(s) - n
        /\ \A j \in 1 .. Len(s) - n : SubSeq(s, n + 1, Len(s))[j] = s[n + j]
    <2>1. /\ Len(s) - (n + 1) + 1 = Len(s) - n
          /\ \A j \in 1 .. Len(s) - n : (n + 1) + j - 1 = n + j
      BY <1>1
    <2>2. Len(SubSeq(s, n + 1, Len(s))) = Len(s) - n
      BY <1>1, <1>5
    <2> QED
      BY <1>5, <2>1, <2>2
  <1> QED
    BY <1>4, <1>5, <1>6, <1>7 DEF Drop

\* What follows the first `at' bytes, up to L of them, as the dispatcher gets it.
LEMMA Cut ==
    ASSUME NEW T, NEW s \in Seq(T), NEW at \in Nat, NEW L \in Nat, L <= Len(s) - at
    PROVE  /\ SubSeq(s, at + 1, at + L) \in Seq(T)
           /\ Len(SubSeq(s, at + 1, at + L)) = L
           /\ \A j \in 1 .. L : SubSeq(s, at + 1, at + L)[j] = s[at + j]
  <1>1. Len(s) \in Nat /\ \A j \in 1 .. Len(s) : s[j] \in T
    BY LenProperties
  <1>2. \A j \in at + 1 .. at + L : s[j] \in T
    BY <1>1
  <1>3. /\ SubSeq(s, at + 1, at + L) \in Seq(T)
        /\ Len(SubSeq(s, at + 1, at + L))
             = IF at + 1 <= at + L THEN (at + L) - (at + 1) + 1 ELSE 0
        /\ \A i \in 1 .. (at + L) - (at + 1) + 1 :
              SubSeq(s, at + 1, at + L)[i] = s[(at + 1) + i - 1]
    <2>1. at + 1 \in Int /\ at + L \in Int
      OBVIOUS
    <2> QED
      BY <2>1, <1>2, SubSeqProperties
  <1>4. /\ (at + L) - (at + 1) + 1 = L
        /\ \A j \in 1 .. L : (at + 1) + j - 1 = at + j
    OBVIOUS
  <1>5. Len(SubSeq(s, at + 1, at + L)) = L
    BY <1>3
  <1> QED
    BY <1>3, <1>4, <1>5

\* A read moves at most ReadMax bytes from the front of s to the end of b.
LEMMA Chunk ==
    ASSUME NEW T, NEW b \in Seq(T), NEW s \in Seq(T), NEW n \in Chunks(s)
    PROVE  /\ n \in Nat /\ n >= 1 /\ n <= ReadMax /\ n <= Len(s)
           /\ b \o SubSeq(s, 1, n) \in Seq(T) /\ Len(b \o SubSeq(s, 1, n)) = Len(b) + n
           /\ \A j \in 1 .. Len(b) : (b \o SubSeq(s, 1, n))[j] = b[j]
           /\ \A j \in 1 .. n : (b \o SubSeq(s, 1, n))[Len(b) + j] = s[j]
           /\ Drop(s, n) \in Seq(T) /\ Len(Drop(s, n)) = Len(s) - n
           /\ \A j \in 1 .. Len(s) - n : Drop(s, n)[j] = s[n + j]
  <1>1. n \in Nat /\ n >= 1 /\ n <= ReadMax /\ n <= Len(s)
    BY SizeFacts DEF Chunks
  <1>2. Len(b) \in Nat /\ Len(s) \in Nat
    BY LenProperties
  <1> DEFINE h == SubSeq(s, 1, n)
  <1>3. h \in Seq(T) /\ Len(h) = n /\ \A j \in 1 .. n : h[j] = s[j]
    BY <1>1, Split
  <1> HIDE DEF h
  <1>4. /\ b \o h \in Seq(T) /\ Len(b \o h) = Len(b) + n
        /\ \A i \in 1 .. Len(b) + n :
              (b \o h)[i] = IF i <= Len(b) THEN b[i] ELSE h[i - Len(b)]
    BY <1>3, ConcatProperties
  <1>5. \A j \in 1 .. Len(b) : (b \o h)[j] = b[j]
    BY <1>1, <1>2, <1>4
  <1>6. \A j \in 1 .. n : (b \o h)[Len(b) + j] = s[j]
    <2> TAKE j \in 1 .. n
    <2>1. /\ Len(b) + j \in 1 .. Len(b) + n /\ ~(Len(b) + j <= Len(b))
          /\ (Len(b) + j) - Len(b) = j
      BY <1>1, <1>2
    <2> QED
      BY <2>1, <1>3, <1>4
  <1>7. /\ Drop(s, n) \in Seq(T) /\ Len(Drop(s, n)) = Len(s) - n
        /\ \A j \in 1 .. Len(s) - n : Drop(s, n)[j] = s[n + j]
    BY <1>1, Split
  <1> QED
    BY <1>1, <1>4, <1>5, <1>6, <1>7 DEF h

\* Whatever four bytes are taken for a length, they are a number.
LEMMA LengthAtNat ==
    ASSUME TypeOK, NEW b \in Seq(SentBytes), NEW at \in Nat, HasHeader(b, at),
           NEW L \in LengthAt(b, at)
    PROVE  L \in Nat
  <1>1. Len(b) \in Nat /\ at + 1 \in 1 .. Len(b)
    BY SizeFacts, LenProperties DEF HasHeader
  <1>2. b[at + 1] \in SentBytes
    BY <1>1, ElementOfSeq
  <1>3. b[at + 1][1] \in 1 .. Len(lens)
    BY <1>2 DEF SentBytes
  <1>4. lens[b[at + 1][1]] \in Nat
    BY <1>3, FramingAssumption, ElementOfSeq DEF TypeOK
  <1>5. L = lens[b[at + 1][1]] \/ L \in 0 .. MaxLen + 1
    BY DEF LengthAt
  <1>6. L \in 0 .. MaxLen + 1 => L \in Nat
    BY SizeFacts
  <1> QED
    BY <1>4, <1>5, <1>6

\* What is not yet a whole PDU is shorter than the longest one.
LEMMA IncompleteIsShort ==
    ASSUME TypeOK, NEW b \in Seq(SentBytes), NEW at \in Nat, Incomplete(b, at)
    PROVE  Len(b) - at < MaxLen
  <1>1. Len(b) \in Nat
    BY LenProperties
  <1>2. CASE HasHeader(b, at)
    <2>1. PICK L \in LengthAt(b, at) : ValidLength(L) /\ Len(b) - at < L
      BY <1>2 DEF Incomplete
    <2>2. L \in Nat
      BY <1>2, LengthAtNat
    <2> QED
      BY <1>1, <2>1, <2>2, SizeFacts DEF ValidLength
  <1>3. CASE ~HasHeader(b, at)
    BY <1>1, <1>3, SizeFacts DEF HasHeader
  <1> QED
    BY <1>2, <1>3

-----------------------------------------------------------------------------
(* What the buffers hold, however the socket takes a PDU *)

\* The sets of bytes only grow.
LEMMA BytesGrow ==
    ASSUME TypeOK, NEW L \in Lengths, Write(L)
    PROVE  /\ lens' \in Seq(Lengths) /\ Len(lens') = Len(lens) + 1 /\ Len(lens') <= MaxPdus
           /\ SentBytes \subseteq SentBytes' /\ SentBytes' \subseteq Bytes
           /\ {Len(lens) + 1} \X (1 .. MaxLen) \subseteq SentBytes'
  <1>1. Len(lens) \in Nat /\ lens \in Seq(Lengths)
    BY LenProperties DEF TypeOK
  <1>2. lens' \in Seq(Lengths) /\ Len(lens') = Len(lens) + 1
    BY <1>1, AppendProperties DEF Write
  <1>3. Len(lens') <= MaxPdus
    BY <1>1, <1>2, SizeFacts DEF Write
  <1>4. /\ 1 .. Len(lens) \subseteq 1 .. Len(lens') /\ 1 .. Len(lens') \subseteq 1 .. MaxPdus
        /\ Len(lens) + 1 \in 1 .. Len(lens')
    <2>1. \A N, M \in Nat :
            M = N + 1 /\ M <= MaxPdus =>
              /\ 1 .. N \subseteq 1 .. M /\ 1 .. M \subseteq 1 .. MaxPdus
              /\ N + 1 \in 1 .. M
      BY SizeFacts
    <2>2. Len(lens') \in Nat
      BY <1>1, <1>2
    <2> QED
      BY <1>1, <1>2, <1>3, <2>1, <2>2
  <1> QED
    BY <1>2, <1>3, <1>4 DEF SentBytes, Bytes

\* While nothing is written, the bytes sent are the same, and they are Bytes.
LEMMA BytesSame ==
    ASSUME TypeOK, UNCHANGED lens
    PROVE  SentBytes' = SentBytes /\ SentBytes \subseteq Bytes
  <1>1. Len(lens) \in Nat
    BY LenProperties DEF TypeOK
  <1>2. 1 .. Len(lens) \subseteq 1 .. MaxPdus
    BY <1>1, SizeFacts DEF TypeOK
  <1> QED
    BY <1>2 DEF SentBytes, Bytes

\* Writing preserves the invariant of the buffers.
LEMMA BufferWrite ==
    ASSUME BufferInv, NEW L \in Lengths, Write(L)
    PROVE  BufferInv'
  <1> DEFINE p == PduBytes(Len(lens) + 1, L)
  <1>1. TypeOK
    BY DEF BufferInv
  <1>2. /\ wire \in Seq(SentBytes') /\ hbuf \in Seq(SentBytes')
        /\ replay \in Seq(SentBytes') /\ buf \in Seq(SentBytes')
    BY <1>1, BytesGrow, SeqMonotonic DEF BufferInv, BytesInv
  <1>3. p \in Seq(SentBytes') /\ Len(p) \in Nat /\ Len(p) >= 1
    <2>1. L \in Nat
      BY FramingAssumption
    <2>2. p \in Seq({Len(lens) + 1} \X (1 .. MaxLen)) /\ Len(p) = Size(L)
      BY <2>1, PduBytesSeq
    <2> HIDE DEF p
    <2>3. {Len(lens) + 1} \X (1 .. MaxLen) \subseteq SentBytes'
      BY <1>1, BytesGrow
    <2>4. p \in Seq(SentBytes')
      BY <2>2, <2>3, SeqMonotonic
    <2> QED
      BY <2>1, <2>2, <2>4, SizeFacts
  <1>4. PICK n \in IF ShortWrites THEN 1 .. Len(p) ELSE {Len(p)} :
          wire' = wire \o SubSeq(p, 1, n)
    BY DEF Write
  <1> HIDE DEF p
  <1>5. n \in Nat /\ n <= Len(p)
    BY <1>3, <1>4
  <1>6. SubSeq(p, 1, n) \in Seq(SentBytes')
    BY <1>3, <1>5, Split
  <1>7. wire' \in Seq(SentBytes')
    BY <1>2, <1>4, <1>6, ConcatProperties
  <1>8. /\ wire' \in Seq(Bytes) /\ hbuf \in Seq(Bytes)
        /\ replay \in Seq(Bytes) /\ buf \in Seq(Bytes)
    BY <1>1, <1>2, <1>7, BytesGrow, SeqMonotonic
  <1>9. UNCHANGED <<peer, pc, hbuf, replay, buf, cursor, out>>
    BY DEF Write
  <1>10. TypeOK'
    BY <1>1, <1>8, <1>9, BytesGrow DEF TypeOK
  <1>11. BytesInv'
    BY <1>2, <1>7, <1>9 DEF BytesInv
  <1>12. EmptyInv' /\ TailBounded'
    BY <1>9 DEF BufferInv, EmptyInv, TailBounded
  <1> QED
    BY <1>10, <1>11, <1>12 DEF BufferInv

\* It is enough to look at what a step does to the buffers.
LEMMA BufferStep ==
    ASSUME BufferInv, UNCHANGED lens, peer' \in {"up", "gone"},
           pc' \in {"handshake", "read", "drain", "close", "closed"},
           wire' \in Seq(SentBytes), hbuf' \in Seq(SentBytes),
           replay' \in Seq(SentBytes), buf' \in Seq(SentBytes),
           cursor' \in 0 .. Len(buf'), out' \in Seq(Seq(Bytes)),
           EmptyInv', TailBounded'
    PROVE  BufferInv'
  <1>1. TypeOK
    BY DEF BufferInv
  <1>2. SentBytes' = SentBytes /\ SentBytes \subseteq Bytes
    BY <1>1, BytesSame
  <1>3. BytesInv'
    BY <1>2 DEF BytesInv
  <1>4. /\ wire' \in Seq(Bytes) /\ hbuf' \in Seq(Bytes)
        /\ replay' \in Seq(Bytes) /\ buf' \in Seq(Bytes)
    BY <1>2, SeqMonotonic
  <1>5. lens' \in Seq(Lengths) /\ Len(lens') <= MaxPdus
    BY <1>1 DEF TypeOK
  <1>6. TypeOK'
    BY <1>4, <1>5 DEF TypeOK
  <1> QED
    BY <1>3, <1>6 DEF BufferInv

\* The parts of the invariant, for the steps that leave some of them alone.
LEMMA BufferParts ==
    ASSUME BufferInv
    PROVE  /\ TypeOK
           /\ wire \in Seq(SentBytes) /\ hbuf \in Seq(SentBytes)
           /\ replay \in Seq(SentBytes) /\ buf \in Seq(SentBytes)
           /\ Len(wire) \in Nat /\ Len(hbuf) \in Nat /\ Len(replay) \in Nat
           /\ Len(buf) \in Nat /\ Len(lens) \in Nat /\ Len(out) \in Nat
           /\ cursor \in Nat /\ cursor <= Len(buf) /\ out \in Seq(Seq(Bytes))
           /\ peer \in {"up", "gone"}
           /\ pc \in {"handshake", "read", "drain", "close", "closed"}
           /\ EmptyInv /\ TailBounded
  <1>1. /\ TypeOK /\ EmptyInv /\ TailBounded
        /\ wire \in Seq(SentBytes) /\ hbuf \in Seq(SentBytes)
        /\ replay \in Seq(SentBytes) /\ buf \in Seq(SentBytes)
    BY DEF BufferInv, BytesInv
  <1>2. /\ out \in Seq(Seq(Bytes)) /\ lens \in Seq(Lengths) /\ cursor \in 0 .. Len(buf)
        /\ peer \in {"up", "gone"}
        /\ pc \in {"handshake", "read", "drain", "close", "closed"}
    BY <1>1 DEF TypeOK
  <1>3. /\ Len(wire) \in Nat /\ Len(hbuf) \in Nat /\ Len(replay) \in Nat
        /\ Len(buf) \in Nat /\ Len(lens) \in Nat /\ Len(out) \in Nat
    BY <1>1, <1>2, LenProperties
  <1>4. cursor \in Nat /\ cursor <= Len(buf)
    BY <1>2, <1>3
  <1> QED
    BY <1>1, <1>2, <1>3, <1>4

\* The handshake reads.
LEMMA BufferHandshakeReads ==
    ASSUME BufferInv, HandshakeReads
    PROVE  BufferInv'
  <1>1. PICK n \in Chunks(wire) : hbuf' = hbuf \o SubSeq(wire, 1, n) /\ wire' = Drop(wire, n)
    BY DEF HandshakeReads
  <1>2. /\ n \in Nat /\ n <= ReadMax /\ Len(hbuf') = Len(hbuf) + n
        /\ hbuf' \in Seq(SentBytes) /\ wire' \in Seq(SentBytes)
    BY <1>1, BufferParts, Chunk
  <1>3. Len(hbuf) - 0 < MaxLen
    <2>1. 0 \in Nat
      OBVIOUS
    <2> QED
      BY <2>1, BufferParts, IncompleteIsShort DEF HandshakeReads
  <1>4. Len(hbuf') < MaxLen + ReadMax
    BY <1>2, <1>3, BufferParts, SizeFacts
  <1>5. UNCHANGED <<lens, peer, pc, replay, buf, cursor, out>>
    BY DEF HandshakeReads
  <1>6. TailBounded' /\ EmptyInv'
    BY <1>4, <1>5, BufferParts DEF TailBounded, EmptyInv
  <1>7. cursor' \in 0 .. Len(buf')
    BY <1>5 DEF BufferInv, TypeOK
  <1> QED
    BY <1>2, <1>5, <1>6, <1>7, BufferParts, BufferStep

\* What is dispatched is a sequence of bytes.
LEMMA DispatchedBytes ==
    ASSUME BufferInv, NEW b \in Seq(SentBytes), NEW at \in Nat, HasHeader(b, at),
           NEW L \in LengthAt(b, at), Complete(b, at, L),
           out' = Append(out, SubSeq(b, at + 1, at + L))
    PROVE  /\ L \in Nat /\ L >= HdrLen /\ L <= MaxLen /\ L <= Len(b) - at
           /\ out' \in Seq(Seq(Bytes)) /\ Len(out') = Len(out) + 1
           /\ \A i \in 1 .. Len(out) : out'[i] = out[i]
           /\ out'[Len(out) + 1] = SubSeq(b, at + 1, at + L)
           /\ SubSeq(b, at + 1, at + L) \in Seq(Bytes)
  <1>1. L \in Nat
    BY BufferParts, LengthAtNat
  <1>2. L >= HdrLen /\ L <= MaxLen /\ L <= Len(b) - at
    <2>1. Len(b) \in Nat
      BY LenProperties
    <2> QED
      BY <1>1, <2>1, SizeFacts DEF Complete, ValidLength
  <1>3. SubSeq(b, at + 1, at + L) \in Seq(SentBytes)
    BY <1>1, <1>2, Cut
  <1>4. SentBytes \subseteq Bytes
    <2>1. 1 .. Len(lens) \subseteq 1 .. MaxPdus
      BY BufferParts, SizeFacts DEF TypeOK
    <2> QED
      BY <2>1 DEF SentBytes, Bytes
  <1>5. SubSeq(b, at + 1, at + L) \in Seq(Bytes)
    BY <1>3, <1>4, SeqMonotonic
  <1> QED
    BY <1>1, <1>2, <1>5, BufferParts, AppendProperties

\* The handshake hands its leftover to the read loop, whose buffer is empty.
LEMMA BufferHandshakeCompletes ==
    ASSUME BufferInv, HandshakeCompletes
    PROVE  BufferInv'
  <1>1. PICK L \in LengthAt(hbuf, 0) :
          /\ Complete(hbuf, 0, L)
          /\ out' = Append(out, SubSeq(hbuf, 1, L))
          /\ \/ pc' = "read" /\ replay' = Drop(hbuf, L)
             \/ pc' = "close" /\ UNCHANGED replay
    BY DEF HandshakeCompletes
  <1>2. L \in Nat /\ L <= Len(hbuf) /\ out' \in Seq(Seq(Bytes))
    <2>1. 0 \in Nat /\ 0 + 1 = 1
      OBVIOUS
    <2>2. HasHeader(hbuf, 0)
      BY DEF HandshakeCompletes
    <2>3. L \in Nat
      BY <2>1, <2>2, BufferParts, LengthAtNat
    <2>4. 0 + L = L /\ Len(hbuf) - 0 = Len(hbuf)
      BY <2>3, BufferParts
    <2>5. out' = Append(out, SubSeq(hbuf, 0 + 1, 0 + L))
      BY <1>1, <2>1, <2>4
    <2>6. L <= Len(hbuf) - 0 /\ out' \in Seq(Seq(Bytes))
      BY <1>1, <2>1, <2>2, <2>5, BufferParts, DispatchedBytes
    <2> QED
      BY <2>3, <2>4, <2>6
  <1>3. replay' \in Seq(SentBytes) /\ pc' \in {"read", "close"}
    <2>1. Drop(hbuf, L) \in Seq(SentBytes)
      BY <1>2, BufferParts, Split
    <2> QED
      BY <1>1, <2>1, BufferParts
  <1>4. hbuf' = <<>> /\ UNCHANGED <<lens, wire, peer, buf, cursor>> /\ pc = "handshake"
    BY DEF HandshakeCompletes
  <1>5. hbuf' \in Seq(SentBytes) /\ Len(hbuf') = 0
    BY <1>4, EmptySeq
  <1>6. buf' = <<>> /\ Len(buf') = 0
    BY <1>4, BufferParts, EmptySeq DEF EmptyInv
  <1>7. TailBounded'
    BY <1>5, <1>6, SizeFacts DEF TailBounded
  <1>8. EmptyInv'
    BY <1>3 DEF EmptyInv
  <1>9. cursor' \in 0 .. Len(buf') /\ buf' \in Seq(SentBytes)
    BY <1>4, BufferParts DEF TypeOK
  <1> QED
    BY <1>2, <1>3, <1>4, <1>5, <1>7, <1>8, <1>9, BufferParts, BufferStep

\* A read adds at most ReadMax bytes to less than a PDU.
LEMMA BufferReads ==
    ASSUME BufferInv, Reads
    PROVE  BufferInv'
  <1>1. /\ pc = "read" /\ pc' = "drain" /\ cursor' = 0
        /\ UNCHANGED <<lens, peer, hbuf, out>>
    BY DEF Reads
  <1>2. Len(buf) < MaxLen
    BY <1>1, BufferParts DEF TailBounded
  <1>3. /\ wire' \in Seq(SentBytes) /\ replay' \in Seq(SentBytes)
        /\ buf' \in Seq(SentBytes) /\ Len(buf') \in Nat
        /\ Len(buf') < MaxLen + ReadMax
    <2>1. ASSUME NEW s \in Seq(SentBytes), NEW n \in Chunks(s),
                 buf' = buf \o SubSeq(s, 1, n)
          PROVE  /\ Drop(s, n) \in Seq(SentBytes) /\ buf' \in Seq(SentBytes)
                 /\ Len(buf') \in Nat /\ Len(buf') < MaxLen + ReadMax
      <3>1. /\ n \in Nat /\ n <= ReadMax /\ Len(buf') = Len(buf) + n
            /\ buf' \in Seq(SentBytes) /\ Drop(s, n) \in Seq(SentBytes)
        BY <2>1, BufferParts, Chunk
      <3> QED
        BY <3>1, <1>2, BufferParts, SizeFacts
    <2>2. CASE replay # <<>>
      <3>1. PICK n \in Chunks(replay) :
              buf' = buf \o SubSeq(replay, 1, n) /\ replay' = Drop(replay, n)
        BY <2>2 DEF Reads
      <3>2. UNCHANGED wire
        BY <2>2 DEF Reads
      <3> QED
        BY <3>1, <3>2, <2>1, BufferParts
    <2>3. CASE replay = <<>>
      <3>1. PICK n \in Chunks(wire) :
              buf' = buf \o SubSeq(wire, 1, n) /\ wire' = Drop(wire, n)
        BY <2>3 DEF Reads
      <3>2. UNCHANGED replay
        BY <2>3 DEF Reads
      <3> QED
        BY <3>1, <3>2, <2>1, BufferParts
    <2> QED
      BY <2>2, <2>3
  <1>4. cursor' \in 0 .. Len(buf')
    BY <1>1, <1>3
  <1>5. TailBounded' /\ EmptyInv'
    BY <1>1, <1>3, BufferParts DEF TailBounded, EmptyInv
  <1> QED
    BY <1>1, <1>3, <1>4, <1>5, BufferParts, BufferStep

\* The cursor stays in the buffer.
LEMMA BufferDrainDispatches ==
    ASSUME BufferInv, DrainDispatches
    PROVE  BufferInv'
  <1>1. PICK L \in LengthAt(buf, cursor) :
          /\ Complete(buf, cursor, L)
          /\ out' = Append(out, SubSeq(buf, cursor + 1, cursor + L))
          /\ \/ cursor' = cursor + L /\ UNCHANGED pc
             \/ pc' = "close" /\ UNCHANGED cursor
    BY DEF DrainDispatches
  <1>2. /\ HasHeader(buf, cursor) /\ pc = "drain"
        /\ UNCHANGED <<lens, wire, peer, hbuf, replay, buf>>
    BY DEF DrainDispatches
  <1>3. L \in Nat /\ L <= Len(buf) - cursor /\ out' \in Seq(Seq(Bytes))
    BY <1>1, <1>2, BufferParts, DispatchedBytes
  <1>4. cursor' \in 0 .. Len(buf')
    <2>1. cursor \in 0 .. Len(buf) /\ cursor + L \in 0 .. Len(buf)
      BY <1>3, BufferParts
    <2> QED
      BY <1>1, <1>2, <2>1
  <1>5. pc' \in {"drain", "close"}
    BY <1>1, <1>2
  <1>6. TailBounded' /\ EmptyInv'
    BY <1>2, <1>5, BufferParts DEF TailBounded, EmptyInv
  <1> QED
    BY <1>2, <1>3, <1>4, <1>5, <1>6, BufferParts, BufferStep

\* What the drain keeps is less than one PDU.
LEMMA BufferDrainEnds ==
    ASSUME BufferInv, DrainEnds
    PROVE  BufferInv'
  <1>1. /\ pc' = "read" /\ cursor' = 0 /\ buf' = Drop(buf, cursor)
        /\ UNCHANGED <<lens, wire, peer, hbuf, replay, out>>
        /\ Incomplete(buf, cursor)
    BY DEF DrainEnds
  <1>2. buf' \in Seq(SentBytes) /\ Len(buf') = Len(buf) - cursor
    BY <1>1, BufferParts, Split
  <1>3. Len(buf) - cursor < MaxLen
    BY <1>1, BufferParts, IncompleteIsShort
  <1>4. cursor' \in 0 .. Len(buf')
    BY <1>1, <1>2, BufferParts
  <1>5. Len(buf') < MaxLen /\ Len(buf') < MaxLen + ReadMax
    BY <1>2, <1>3, BufferParts, SizeFacts
  <1>6. TailBounded' /\ EmptyInv'
    BY <1>1, <1>5, BufferParts DEF TailBounded, EmptyInv
  <1> QED
    BY <1>1, <1>2, <1>4, <1>6, BufferParts, BufferStep

\* The steps that touch no buffer.
LEMMA BufferQuiet ==
    ASSUME BufferInv,
           HangUp \/ HandshakeFails \/ DrainRejects \/ ReadFails \/ Closes \/ UNCHANGED vars
    PROVE  BufferInv'
  <1>1. /\ UNCHANGED <<lens, wire, hbuf, replay, buf, cursor, out>>
        /\ peer' \in {"up", "gone"}
        /\ pc' = pc \/ pc' \in {"close", "closed"}
    BY BufferParts DEF HangUp, HandshakeFails, DrainRejects, ReadFails, Closes, vars
  <1>2. pc' \in {"handshake", "read", "drain", "close", "closed"}
    BY <1>1, BufferParts
  <1>3. cursor' \in 0 .. Len(buf')
    BY <1>1 DEF BufferInv, TypeOK
  <1>4. TailBounded' /\ EmptyInv'
    BY <1>1, BufferParts DEF TailBounded, EmptyInv
  <1> QED
    BY <1>1, <1>2, <1>3, <1>4, BufferParts, BufferStep

\* The invariant of the buffers is inductive.
LEMMA BufferInit == Init => BufferInv
  <1> SUFFICES ASSUME Init PROVE BufferInv
    OBVIOUS
  <1>1. \A T : <<>> \in Seq(T) /\ Len(<<>>) = 0
    BY EmptySeq
  <1>2. /\ lens = <<>> /\ wire = <<>> /\ peer = "up" /\ pc = "handshake" /\ hbuf = <<>>
        /\ replay = <<>> /\ buf = <<>> /\ cursor = 0 /\ out = <<>>
    BY DEF Init
  <1>3. cursor \in 0 .. Len(buf) /\ Len(lens) <= MaxPdus
    <2>1. 0 \in 0 .. 0 /\ 0 <= MaxPdus
      BY SizeFacts
    <2> QED
      BY <1>1, <1>2, <2>1
  <1>4. TypeOK
    BY <1>1, <1>2, <1>3 DEF TypeOK
  <1>5. BytesInv /\ EmptyInv
    BY <1>1, <1>2 DEF BytesInv, EmptyInv
  <1>6. TailBounded
    <2>1. 0 < MaxLen + ReadMax
      BY SizeFacts
    <2> QED
      BY <1>1, <1>2, <2>1 DEF TailBounded
  <1> QED
    BY <1>4, <1>5, <1>6 DEF BufferInv

LEMMA BufferNext == BufferInv /\ [Next]_vars => BufferInv'
  <1> SUFFICES ASSUME BufferInv, [Next]_vars PROVE BufferInv'
    OBVIOUS
  <1>1. ASSUME NEW L \in Lengths, Write(L) PROVE BufferInv'
    BY <1>1, BufferWrite
  <1>2. CASE HandshakeReads
    BY <1>2, BufferHandshakeReads
  <1>3. CASE HandshakeCompletes
    BY <1>3, BufferHandshakeCompletes
  <1>4. CASE Reads
    BY <1>4, BufferReads
  <1>5. CASE DrainDispatches
    BY <1>5, BufferDrainDispatches
  <1>6. CASE DrainEnds
    BY <1>6, BufferDrainEnds
  <1>7. CASE HangUp \/ HandshakeFails \/ DrainRejects \/ ReadFails \/ Closes \/ UNCHANGED vars
    BY <1>7, BufferQuiet
  <1> QED
    BY <1>1, <1>2, <1>3, <1>4, <1>5, <1>6, <1>7 DEF Next

\* Both ends of the stream keep their types: the cursor never leaves the buffer
\* (buffer.split_to(cursor) of run_read_loop does not panic), whatever four bytes
\* the loop takes for a command_length.
THEOREM TypeCorrect == Spec => []TypeOK
  <1>1. BufferInv => TypeOK
    BY DEF BufferInv
  <1> QED
    BY <1>1, BufferInit, BufferNext, PTL DEF Spec

\* The read loop never keeps more than the longest PDU and one read: a peer that
\* claims large lengths, or sends bytes that are no PDU, cannot make the buffers
\* of frame_first_pdu and run_read_loop grow.
THEOREM BuffersBounded == Spec => []TailBounded
  <1>1. BufferInv => TailBounded
    BY DEF BufferInv
  <1> QED
    BY <1>1, BufferInit, BufferNext, PTL DEF Spec

-----------------------------------------------------------------------------
(* Where the bytes stand in the stream, when every PDU is written whole *)

\* The offsets, as numbers.
LEMMA LaidFacts ==
    ASSUME BufferInv, NEW S, NEW off, Laid(S, off)
    PROVE  /\ \A i \in 1 .. Len(lens) + 1 : off[i] \in Nat
           /\ \A i \in 1 .. Len(lens) :
                /\ i + 1 \in 1 .. Len(lens) + 1 /\ i \in 1 .. Len(lens) + 1
                /\ lens[i] \in Nat /\ Size(lens[i]) \in Nat
                /\ HdrLen <= Size(lens[i]) /\ Size(lens[i]) <= MaxLen
                /\ off[i + 1] = off[i] + Size(lens[i])
                /\ off[i + 1] <= off[Len(lens) + 1]
           /\ off[Len(lens) + 1] \in Nat /\ off[1] = 0
  <1>1. Len(lens) \in Nat /\ lens \in Seq(Lengths)
    BY BufferParts DEF TypeOK
  <1>2. \A i \in 1 .. Len(lens) : lens[i] \in Nat
    BY <1>1, ElementOfSeq, FramingAssumption
  <1>3. \A i \in 1 .. Len(lens) :
          i + 1 \in 1 .. Len(lens) + 1 /\ i \in 1 .. Len(lens) + 1 /\ i + 1 <= Len(lens) + 1
    BY <1>1
  <1>4. Len(lens) + 1 \in 1 .. Len(lens) + 1
    BY <1>1
  <1>5. \A i \in 1 .. Len(lens) + 1 : off[i] \in Nat
    BY DEF Laid
  <1>6. \A i \in 1 .. Len(lens) : off[i + 1] <= off[Len(lens) + 1]
    BY <1>3, <1>4 DEF Laid
  <1>7. \A i \in 1 .. Len(lens) :
          Size(lens[i]) \in Nat /\ HdrLen <= Size(lens[i]) /\ Size(lens[i]) <= MaxLen
    BY <1>2, SizeFacts
  <1>8. off[Len(lens) + 1] \in Nat
    BY <1>4, <1>5
  <1>9. off[1] = 0 /\ \A i \in 1 .. Len(lens) : off[i + 1] = off[i] + Size(lens[i])
    BY DEF Laid
  <1> QED
    BY <1>2, <1>3, <1>5, <1>6, <1>7, <1>8, <1>9

\* At the start of a PDU, be_u32_at reads the length the PDU claims.
LEMMA HeaderRead ==
    ASSUME BufferInv, NEW S, NEW off, Laid(S, off), NEW n \in 1 .. Len(lens),
           NEW b \in Seq(SentBytes), NEW at \in Nat, HasHeader(b, at),
           Behind(S, b, at, off[n])
    PROVE  LengthAt(b, at) = {lens[n]}
  <1>1. Len(b) \in Nat
    BY LenProperties
  <1>2. Size(lens[n]) \in Nat /\ HdrLen <= Size(lens[n])
    BY LaidFacts
  <1>3. \A k \in 1 .. HdrLen : k \in 1 .. Len(b) - at /\ k \in 1 .. Size(lens[n])
    <2>1. HdrLen <= Len(b) - at /\ Len(b) - at \in Int
      BY <1>1, SizeFacts DEF HasHeader
    <2>2. \A m \in Int : HdrLen <= m => \A k \in 1 .. HdrLen : k \in 1 .. m
      BY SizeFacts
    <2>3. Size(lens[n]) \in Int
      BY <1>2
    <2> QED
      BY <1>2, <2>1, <2>2, <2>3
  <1>4. \A k \in 1 .. HdrLen : b[at + k] = <<n, k>>
    BY <1>3 DEF Laid, Behind
  <1>5. 1 \in 1 .. HdrLen
    BY SizeFacts
  <1>6. b[at + 1] = <<n, 1>>
    BY <1>4, <1>5
  <1>7. b[at + 1][1] = n
    BY <1>6
  <1> QED
    BY <1>4, <1>7 DEF LengthAt

\* A PDU that is all there is cut out whole.
LEMMA PduRead ==
    ASSUME BufferInv, NEW S, NEW off, Laid(S, off), NEW n \in 1 .. Len(lens),
           NEW b \in Seq(SentBytes), NEW at \in Nat, Complete(b, at, lens[n]),
           Behind(S, b, at, off[n])
    PROVE  /\ Size(lens[n]) = lens[n]
           /\ SubSeq(b, at + 1, at + lens[n]) = PduBytes(n, lens[n])
  <1>1. Len(b) \in Nat
    BY LenProperties
  <1>2. lens[n] \in Nat
    BY LaidFacts
  <1> DEFINE L == lens[n]
             p == SubSeq(b, at + 1, at + L)
  <1>3. L \in Nat /\ L <= Len(b) - at /\ Size(L) = L
    BY <1>1, <1>2, SizeFacts DEF Complete, ValidLength, Size
  <1> HIDE DEF L
  <1>4. p \in Seq(SentBytes) /\ Len(p) = L /\ \A j \in 1 .. L : p[j] = b[at + j]
    BY <1>3, Cut
  <1> HIDE DEF p
  <1>5. \A j \in 1 .. L : j \in 1 .. Len(b) - at /\ j \in 1 .. Size(lens[n])
    BY <1>1, <1>3 DEF L
  <1>6. \A j \in 1 .. L : p[j] = <<n, j>>
    BY <1>4, <1>5 DEF Laid, Behind
  <1>7. /\ PduBytes(n, L) \in Seq({n} \X (1 .. MaxLen)) /\ Len(PduBytes(n, L)) = L
        /\ \A j \in 1 .. L : PduBytes(n, L)[j] = <<n, j>>
    BY <1>3, PduBytesSeq
  <1>8. PduBytes(n, L) \in Seq(SentBytes)
    <2>1. {n} \X (1 .. MaxLen) \subseteq SentBytes
      BY DEF SentBytes
    <2> QED
      BY <1>7, <2>1, SeqMonotonic
  <1>9. p = PduBytes(n, L)
    <2>1. Len(p) = Len(PduBytes(n, L)) /\ \A i \in 1 .. Len(p) : p[i] = PduBytes(n, L)[i]
      BY <1>4, <1>6, <1>7
    <2> QED
      BY <1>4, <1>8, <2>1, SeqEqual
  <1> QED
    BY <1>3, <1>9 DEF L, p

\* The PDU the read loop is at.
LEMMA LoopHeader ==
    ASSUME BufferInv, Len(out) <= Len(lens), NEW S, NEW off, Laid(S, off), InLoop(S, off),
           HasHeader(buf, cursor)
    PROVE  /\ Len(out) + 1 \in 1 .. Len(lens)
           /\ LengthAt(buf, cursor) = {lens[Len(out) + 1]}
  <1>1. /\ Behind(S, buf, cursor, off[Len(out) + 1])
        /\ off[Len(out) + 1] + (Len(buf) - cursor) + Len(replay) + Len(wire)
             = off[Len(lens) + 1]
    BY DEF InLoop
  <1>2. Len(out) # Len(lens)
    <2> SUFFICES ASSUME Len(out) = Len(lens) PROVE FALSE
      OBVIOUS
    <2>1. off[Len(out) + 1] = off[Len(lens) + 1] /\ off[Len(lens) + 1] \in Nat
      BY LaidFacts
    <2>2. Len(buf) - cursor >= HdrLen
      BY DEF HasHeader
    <2>3. \A x, a, c, r, w \in Nat : a - c >= HdrLen => x + (a - c) + r + w # x
      BY SizeFacts
    <2> QED
      BY <1>1, <2>1, <2>2, <2>3, BufferParts
  <1>3. Len(out) + 1 \in 1 .. Len(lens)
    BY <1>2, BufferParts
  <1> QED
    BY <1>1, <1>3, BufferParts, HeaderRead

\* The PDU the handshake is at.
LEMMA HandshakeHeader ==
    ASSUME BufferInv, NEW S, NEW off, Laid(S, off), InHandshake(S, off),
           HasHeader(hbuf, 0)
    PROVE  1 \in 1 .. Len(lens) /\ LengthAt(hbuf, 0) = {lens[1]}
  <1>1. Len(hbuf) + Len(wire) = off[Len(lens) + 1] /\ off[1] = 0
    BY LaidFacts DEF InHandshake
  <1>2. Len(lens) # 0
    <2> SUFFICES ASSUME Len(lens) = 0 PROVE FALSE
      OBVIOUS
    <2>1. off[Len(lens) + 1] = 0
      <3>1. 0 + 1 = 1
        OBVIOUS
      <3> QED
        BY <1>1, <3>1
    <2> QED
      BY <1>1, <2>1, BufferParts, SizeFacts DEF HasHeader
  <1>3. 1 \in 1 .. Len(lens)
    BY <1>2, BufferParts
  <1>4. Behind(S, hbuf, 0, off[1])
    <2>1. \A j \in 1 .. Len(hbuf) : hbuf[j] = S[0 + j]
      BY DEF InHandshake, At
    <2>2. Len(hbuf) - 0 = Len(hbuf) /\ \A j \in 1 .. Len(hbuf) : 0 + j = j
      BY BufferParts
    <2> QED
      BY <1>1, <2>1, <2>2 DEF Behind
  <1>5. 0 \in Nat
    OBVIOUS
  <1> QED
    BY <1>3, <1>4, <1>5, BufferParts, HeaderRead

-----------------------------------------------------------------------------
(* Each step keeps the bytes in their places *)

\* What a write that takes the whole PDU does to the wire.
LEMMA WrittenWhole ==
    ASSUME ~ShortWrites, BufferInv, NEW L \in Lengths, Write(L)
    PROVE  /\ L \in Nat /\ Len(lens') = Len(lens) + 1 /\ lens'[Len(lens) + 1] = L
           /\ \A i \in 1 .. Len(lens) : lens'[i] = lens[i]
           /\ Len(wire') = Len(wire) + Size(L)
           /\ \A j \in 1 .. Len(wire) : wire'[j] = wire[j]
           /\ \A k \in 1 .. Size(L) : wire'[Len(wire) + k] = <<Len(lens) + 1, k>>
  <1> DEFINE i0 == Len(lens) + 1
             p  == PduBytes(i0, L)
  <1>1. L \in Nat /\ lens \in Seq(Lengths)
    BY FramingAssumption, BufferParts DEF TypeOK
  <1>2. /\ Len(lens') = Len(lens) + 1 /\ lens'[Len(lens) + 1] = L
        /\ \A i \in 1 .. Len(lens) : lens'[i] = lens[i]
    BY <1>1, AppendProperties DEF Write
  <1>3. wire' = wire \o SubSeq(p, 1, Len(p))
    BY DEF Write
  <1> HIDE DEF i0
  <1>4. /\ p \in Seq({i0} \X (1 .. MaxLen)) /\ Len(p) = Size(L) /\ Size(L) \in Nat
        /\ \A k \in 1 .. Size(L) : p[k] = <<i0, k>>
    BY <1>1, PduBytesSeq, SizeFacts
  <1> HIDE DEF p
  <1> DEFINE q == SubSeq(p, 1, Len(p))
             T == SentBytes \cup ({i0} \X (1 .. MaxLen))
  <1>5. /\ q \in Seq({i0} \X (1 .. MaxLen)) /\ Len(q) = Size(L)
        /\ \A k \in 1 .. Size(L) : q[k] = <<i0, k>>
    <2>1. Len(p) \in Nat /\ Len(p) <= Len(p)
      BY <1>4
    <2>2. /\ q \in Seq({i0} \X (1 .. MaxLen)) /\ Len(q) = Len(p)
          /\ \A k \in 1 .. Len(p) : q[k] = p[k]
      BY <1>4, <2>1, Split
    <2> HIDE DEF q
    <2> QED
      BY <1>4, <2>2
  <1> HIDE DEF q
  <1>6. q \in Seq(T) /\ wire \in Seq(T)
    BY <1>5, BufferParts, SeqMonotonic
  <1> HIDE DEF T
  <1>7. /\ Len(wire \o q) = Len(wire) + Size(L)
        /\ \A i \in 1 .. Len(wire) + Size(L) :
             (wire \o q)[i] = IF i <= Len(wire) THEN wire[i] ELSE q[i - Len(wire)]
    <2>1. /\ Len(wire \o q) = Len(wire) + Len(q)
          /\ \A i \in 1 .. Len(wire) + Len(q) :
               (wire \o q)[i] = IF i <= Len(wire) THEN wire[i] ELSE q[i - Len(wire)]
      BY <1>6, ConcatProperties
    <2>2. Len(q) = Size(L)
      BY <1>5
    <2> QED
      BY <2>1, <2>2
  <1>8. \A j \in 1 .. Len(wire) : (wire \o q)[j] = wire[j]
    BY <1>4, <1>7, BufferParts
  <1>9. \A k \in 1 .. Size(L) : (wire \o q)[Len(wire) + k] = <<i0, k>>
    <2> TAKE k \in 1 .. Size(L)
    <2>1. /\ Len(wire) + k \in 1 .. Len(wire) + Size(L) /\ ~(Len(wire) + k <= Len(wire))
          /\ (Len(wire) + k) - Len(wire) = k
      BY <1>4, BufferParts
    <2> QED
      BY <1>5, <1>7, <2>1
  <1> QED
    BY <1>1, <1>2, <1>3, <1>7, <1>8, <1>9 DEF q, i0

\* A stream that is longer by one PDU.
LEMMA LaidLonger ==
    ASSUME ~ShortWrites, BufferInv, NEW L \in Lengths, Write(L),
           NEW S, NEW off, Laid(S, off)
    PROVE  \E S2, off2 :
             /\ Laid(S2, off2)'
             /\ \A i \in 1 .. Len(lens) + 1 : off2[i] = off[i]
             /\ off2[Len(lens) + 2] = off[Len(lens) + 1] + Size(L)
             /\ \A x \in Nat : x <= off[Len(lens) + 1] => S2[x] = S[x]
             /\ \A k \in 1 .. Size(L) :
                  S2[off[Len(lens) + 1] + k] = <<Len(lens) + 1, k>>
  <1>1. PICK N : N = Len(lens)
    OBVIOUS
  <1>2. PICK e : e = off[Len(lens) + 1]
    OBVIOUS
  <1>3. PICK z : z = Size(L)
    OBVIOUS
  <1>4. N \in Nat /\ e \in Nat /\ z \in Nat /\ z >= 1 /\ L \in Nat
    <2>1. L \in Nat
      BY FramingAssumption
    <2>2. N \in Nat /\ e \in Nat
      BY <1>1, <1>2, BufferParts, LaidFacts
    <2> QED
      BY <1>3, <2>1, <2>2, SizeFacts
  <1>5. /\ off \in [1 .. N + 1 -> Nat] /\ off[1] = 0 /\ off[N + 1] = e
        /\ \A i \in 1 .. N : off[i + 1] = off[i] + Size(lens[i])
        /\ \A i, j \in 1 .. N + 1 : i <= j => off[i] <= off[j]
        /\ \A i \in 1 .. N : \A k \in 1 .. Size(lens[i]) : S[off[i] + k] = <<i, k>>
    BY <1>1, <1>2 DEF Laid
  <1>6. /\ Len(lens') = N + 1 /\ lens'[N + 1] = L
        /\ \A i \in 1 .. N : lens'[i] = lens[i]
    BY <1>1, WrittenWhole
  <1>7. PICK off2 : off2 = [i \in 1 .. N + 2 |-> IF i = N + 2 THEN e + z ELSE off[i]]
    OBVIOUS
  <1>8. PICK S2 : S2 = [x \in Nat |-> IF x <= e THEN S[x] ELSE <<N + 1, x - e>>]
    OBVIOUS
  <1>9. /\ off2[N + 2] = e + z /\ \A i \in 1 .. N + 1 : off2[i] = off[i]
        /\ off2 \in [1 .. N + 2 -> Nat]
    <2>1. /\ N + 2 \in 1 .. N + 2 /\ e + z \in Nat
          /\ \A i \in 1 .. N + 1 : i \in 1 .. N + 2 /\ i # N + 2
          /\ \A i \in 1 .. N + 2 : i # N + 2 => i \in 1 .. N + 1
      BY <1>4
    <2>2. \A i \in 1 .. N + 1 : off[i] \in Nat
      BY <1>5
    <2> QED
      BY <1>7, <2>1, <2>2
  <1>10. /\ \A x \in Nat : x <= e => S2[x] = S[x]
         /\ \A k \in 1 .. z : S2[e + k] = <<N + 1, k>>
    <2>1. \A x \in Nat : x <= e => S2[x] = S[x]
      BY <1>8
    <2>2. \A k \in 1 .. z : e + k \in Nat /\ ~(e + k <= e) /\ (e + k) - e = k
      BY <1>4
    <2> QED
      BY <1>8, <2>1, <2>2
  <1>11. off2[1] = 0
    <2>1. 1 \in 1 .. N + 1
      BY <1>4
    <2> QED
      BY <2>1, <1>5, <1>9
  <1>12. \A i \in 1 .. N + 1 : off2[i + 1] = off2[i] + Size(lens'[i])
    <2> TAKE i \in 1 .. N + 1
    <2>1. CASE i = N + 1
      <3>1. i + 1 = N + 2
        BY <2>1, <1>4
      <3> QED
        BY <2>1, <3>1, <1>3, <1>5, <1>6, <1>9
    <2>2. CASE i # N + 1
      <3>1. i \in 1 .. N /\ i + 1 \in 1 .. N + 1
        BY <2>2, <1>4
      <3> QED
        BY <3>1, <1>5, <1>6, <1>9
    <2> QED
      BY <2>1, <2>2
  <1>13. \A i, j \in 1 .. N + 2 : i <= j => off2[i] <= off2[j]
    <2>1. \A i \in 1 .. N + 1 : off2[i] = off[i] /\ off[i] \in Nat /\ off[i] <= e
      <3>1. N + 1 \in 1 .. N + 1 /\ \A i \in 1 .. N + 1 : i <= N + 1
        BY <1>4
      <3> QED
        BY <3>1, <1>5, <1>9
    <2> TAKE i, j \in 1 .. N + 2
    <2> HAVE i <= j
    <2>2. CASE j = N + 2 /\ i = N + 2
      BY <2>2, <1>4, <1>9
    <2>3. CASE j = N + 2 /\ i # N + 2
      <3>1. i \in 1 .. N + 1
        BY <2>3, <1>4
      <3>2. \A x \in Nat : x <= e => x <= e + z
        BY <1>4
      <3> QED
        BY <2>1, <2>3, <3>1, <3>2, <1>9
    <2>4. CASE j # N + 2
      <3>1. i \in 1 .. N + 1 /\ j \in 1 .. N + 1
        BY <2>4, <1>4
      <3> QED
        BY <2>1, <3>1, <1>5
    <2> QED
      BY <2>2, <2>3, <2>4
  <1>14. \A i \in 1 .. N + 1 : \A k \in 1 .. Size(lens'[i]) : S2[off2[i] + k] = <<i, k>>
    <2> TAKE i \in 1 .. N + 1
    <2>1. CASE i = N + 1
      BY <2>1, <1>3, <1>5, <1>6, <1>9, <1>10
    <2>2. CASE i # N + 1
      <3>1. i \in 1 .. N /\ i + 1 \in 1 .. N + 1 /\ N + 1 \in 1 .. N + 1 /\ i + 1 <= N + 1
        BY <2>2, <1>4
      <3>2. Size(lens[i]) \in Nat
        BY <3>1, <1>1, LaidFacts
      <3>3. off[i] \in Nat /\ off[i + 1] = off[i] + Size(lens[i]) /\ off[i + 1] <= e
        BY <3>1, <1>5
      <3>4. \A k \in 1 .. Size(lens[i]) : off[i] + k \in Nat /\ off[i] + k <= e
        BY <3>2, <3>3, <1>4
      <3>5. lens'[i] = lens[i] /\ off2[i] = off[i]
        BY <3>1, <1>6, <1>9
      <3>6. \A k \in 1 .. Size(lens[i]) : S2[off[i] + k] = S[off[i] + k]
        BY <3>4, <1>10
      <3>7. \A k \in 1 .. Size(lens[i]) : S[off[i] + k] = <<i, k>>
        BY <3>1, <1>5
      <3> QED
        BY <3>5, <3>6, <3>7
    <2> QED
      BY <2>1, <2>2
  <1>15. Laid(S2, off2)'
    <2>1. Len(lens') + 1 = N + 2
      BY <1>4, <1>6
    <2> QED
      BY <2>1, <1>6, <1>9, <1>11, <1>12, <1>13, <1>14 DEF Laid
  <1> QED
    BY <1>1, <1>2, <1>3, <1>9, <1>10, <1>15

\* What stands in the stream stands in the longer one.
LEMMA AtLonger ==
    ASSUME NEW S, NEW S2, NEW e \in Nat, \A x \in Nat : x <= e => S2[x] = S[x],
           NEW T, NEW s \in Seq(T), NEW p \in Nat, At(S, s, p), p + Len(s) <= e
    PROVE  At(S2, s, p)
  <1>1. Len(s) \in Nat
    BY LenProperties
  <1>2. \A j \in 1 .. Len(s) : p + j \in Nat /\ p + j <= e
    BY <1>1
  <1> QED
    BY <1>2 DEF At

LEMMA BehindLonger ==
    ASSUME NEW S, NEW S2, NEW e \in Nat, \A x \in Nat : x <= e => S2[x] = S[x],
           NEW T, NEW b \in Seq(T), NEW at \in Nat, NEW p \in Nat,
           Behind(S, b, at, p), p + (Len(b) - at) <= e
    PROVE  Behind(S2, b, at, p)
  <1>1. Len(b) \in Nat
    BY LenProperties
  <1>2. \A j \in 1 .. Len(b) - at : p + j \in Nat /\ p + j <= e
    BY <1>1
  <1> QED
    BY <1>2 DEF Behind

\* Of the loop's part of the stream, in plain numbers.
LEMMA LoopFacts ==
    ASSUME BufferInv, Len(out) <= Len(lens), NEW S, NEW off, Laid(S, off), InLoop(S, off)
    PROVE  /\ Len(out) + 1 \in 1 .. Len(lens) + 1 /\ off[Len(out) + 1] \in Nat
           /\ Behind(S, buf, cursor, off[Len(out) + 1])
           /\ At(S, replay, off[Len(out) + 1] + (Len(buf) - cursor))
           /\ At(S, wire, off[Len(out) + 1] + (Len(buf) - cursor) + Len(replay))
           /\ off[Len(out) + 1] + (Len(buf) - cursor) + Len(replay) + Len(wire)
                = off[Len(lens) + 1]
  <1>1. Len(out) + 1 \in 1 .. Len(lens) + 1
    BY BufferParts
  <1> QED
    BY <1>1, LaidFacts DEF InLoop

\* Writing keeps the bytes in their places.
LEMMA StreamWrite ==
    ASSUME ~ShortWrites, BufferInv, StreamInv, NEW L \in Lengths, Write(L)
    PROVE  StreamInv'
  <1>1. /\ L \in Nat /\ Len(lens') = Len(lens) + 1 /\ lens'[Len(lens) + 1] = L
        /\ \A i \in 1 .. Len(lens) : lens'[i] = lens[i]
        /\ Len(wire') = Len(wire) + Size(L)
        /\ \A j \in 1 .. Len(wire) : wire'[j] = wire[j]
        /\ \A k \in 1 .. Size(L) : wire'[Len(wire) + k] = <<Len(lens) + 1, k>>
    BY WrittenWhole
  <1>2. UNCHANGED <<peer, pc, hbuf, replay, buf, cursor, out>>
    BY DEF Write
  <1>3. Len(out) <= Len(lens) /\ SentWhole /\ TailInv
    BY DEF StreamInv
  <1>4. PICK S, off : Placed(S, off)
    BY DEF StreamInv
  <1>5. Laid(S, off)
    BY <1>4 DEF Placed
  <1>6. PICK S2, off2 :
          /\ Laid(S2, off2)'
          /\ \A i \in 1 .. Len(lens) + 1 : off2[i] = off[i]
          /\ off2[Len(lens) + 2] = off[Len(lens) + 1] + Size(L)
          /\ \A x \in Nat : x <= off[Len(lens) + 1] => S2[x] = S[x]
          /\ \A k \in 1 .. Size(L) : S2[off[Len(lens) + 1] + k] = <<Len(lens) + 1, k>>
    BY <1>5, LaidLonger
  <1>7. PICK e : e = off[Len(lens) + 1]
    OBVIOUS
  <1>8. /\ e \in Nat /\ Size(L) \in Nat /\ Size(L) >= 1
        /\ off2[Len(lens') + 1] = e + Size(L)
    <2>1. (Len(lens) + 1) + 1 = Len(lens) + 2
      BY BufferParts
    <2>2. off2[Len(lens') + 1] = e + Size(L)
      BY <2>1, <1>1, <1>6, <1>7
    <2>3. e \in Nat
      BY <1>5, <1>7, LaidFacts
    <2> QED
      BY <2>2, <2>3, <1>1, SizeFacts
  <1>9. \A x \in Nat : x <= e => S2[x] = S[x]
    BY <1>6, <1>7
  <1>10. ASSUME NEW q \in Nat, At(S, wire, q), q + Len(wire) = e
        PROVE  At(S2, wire', q)
    <2>1. At(S2, wire, q)
      <3>1. q + Len(wire) <= e
        BY <1>8, <1>10
      <3> QED
        BY <3>1, <1>8, <1>9, <1>10, BufferParts, AtLonger
    <2>2. ASSUME NEW j \in 1 .. Len(wire) + Size(L)
          PROVE  wire'[j] = S2[q + j]
      <3>1. CASE j <= Len(wire)
        <4>1. j \in 1 .. Len(wire)
          BY <3>1, <1>8, BufferParts
        <4> QED
          BY <4>1, <2>1, <1>1 DEF At
      <3>2. CASE ~(j <= Len(wire))
        <4>1. PICK k \in 1 .. Size(L) : j = Len(wire) + k
          <5>1. j - Len(wire) \in 1 .. Size(L) /\ j = Len(wire) + (j - Len(wire))
            BY <3>2, <1>8, BufferParts
          <5> QED
            BY <5>1
        <4>2. q + j = e + k
          <5>1. \A w, m \in Nat : q + (w + m) = (q + w) + m
            OBVIOUS
          <5>2. k \in Nat
            BY <4>1, <1>8
          <5> QED
            BY <4>1, <5>1, <5>2, <1>10, BufferParts
        <4> QED
          BY <4>1, <4>2, <1>1, <1>6, <1>7
      <3> QED
        BY <3>1, <3>2
    <2> QED
      BY <2>2, <1>1 DEF At
  <1>11. (pc = "handshake" => InHandshake(S2, off2))'
    <2> SUFFICES ASSUME pc = "handshake" PROVE InHandshake(S2, off2)'
      BY <1>2
    <2>1. /\ out = <<>> /\ replay = <<>> /\ buf = <<>> /\ cursor = 0
          /\ At(S, hbuf, 0) /\ At(S, wire, Len(hbuf)) /\ Len(hbuf) + Len(wire) = e
      BY <1>4, <1>7 DEF Placed, InHandshake
    <2>2. At(S2, wire', Len(hbuf))
      BY <2>1, <1>10, BufferParts
    <2>3. At(S2, hbuf, 0)
      <3>1. 0 \in Nat /\ 0 + Len(hbuf) <= e
        BY <2>1, <1>8, BufferParts
      <3> QED
        BY <3>1, <2>1, <1>8, <1>9, BufferParts, AtLonger
    <2>4. Len(hbuf) + Len(wire') = off2[Len(lens') + 1]
      BY <2>1, <1>1, <1>8, BufferParts
    <2>5. At(S2, hbuf, 0)' /\ At(S2, wire, Len(hbuf))'
      BY <2>2, <2>3, <1>2 DEF At
    <2> QED
      BY <2>1, <2>4, <2>5, <1>2 DEF InHandshake
  <1>12. (pc \in {"read", "drain"} => InLoop(S2, off2))'
    <2> SUFFICES ASSUME pc \in {"read", "drain"} PROVE InLoop(S2, off2)'
      BY <1>2
    <2>1. InLoop(S, off)
      BY <1>4 DEF Placed
    <2>2. PICK b \in Nat : b = off[Len(out) + 1]
      BY <2>1, <1>3, <1>5, LoopFacts
    <2>3. off2[Len(out) + 1] = b
      BY <2>1, <2>2, <1>3, <1>5, <1>6, LoopFacts
    <2>4. PICK t \in Nat : t = Len(buf) - cursor
      <3>1. Len(buf) - cursor \in Nat
        BY BufferParts
      <3> QED
        BY <3>1
    <2>5. PICK r \in Nat, w \in Nat : r = Len(replay) /\ w = Len(wire)
      BY BufferParts
    <2>6. /\ Behind(S, buf, cursor, b) /\ At(S, replay, b + t)
          /\ At(S, wire, b + t + r)
      BY <2>1, <2>2, <2>4, <2>5, <1>3, <1>5, LoopFacts
    <2>7. b + t + r + w = e
      BY <2>1, <2>2, <2>4, <2>5, <1>3, <1>5, <1>7, LoopFacts
    <2>8. b + t <= e /\ b + t + r <= e /\ b + t \in Nat /\ b + t + r \in Nat
      BY <2>7, <1>8
    <2>9. Behind(S2, buf, cursor, b)
      <3>1. b + (Len(buf) - cursor) <= e
        BY <2>4, <2>8
      <3> QED
        BY <3>1, <2>2, <2>6, <1>8, <1>9, BufferParts, BehindLonger
    <2>10. At(S2, replay, b + t)
      <3>1. b + t + Len(replay) <= e
        BY <2>5, <2>8
      <3> QED
        BY <3>1, <2>6, <2>8, <1>8, <1>9, BufferParts, AtLonger
    <2>11. At(S2, wire', b + t + r)
      <3>1. b + t + r + Len(wire) = e
        BY <2>5, <2>7
      <3> QED
        BY <3>1, <2>6, <2>8, <1>10
    <2>12. b + t + r + Len(wire') = off2[Len(lens') + 1]
      <3>1. \A z \in Nat : b + t + r + (w + z) = e + z
        BY <2>7, <1>8
      <3>2. Len(wire') = w + Size(L)
        BY <2>5, <1>1
      <3> QED
        BY <3>1, <3>2, <1>8
    <2> QED
      BY <2>3, <2>4, <2>5, <2>9, <2>10, <2>11, <2>12, <1>2 DEF InLoop, At, Behind
  <1>13. Placed(S2, off2)'
    BY <1>6, <1>11, <1>12 DEF Placed
  <1>14. (Len(out) <= Len(lens))'
    BY <1>1, <1>2, <1>3, BufferParts
  <1>15. SentWhole'
    <2>1. \A i \in 1 .. Len(out) : i \in 1 .. Len(lens) /\ i <= Len(lens) + 1
      BY <1>3, BufferParts
    <2> QED
      BY <2>1, <1>1, <1>2, <1>3 DEF SentWhole
  <1>16. TailInv'
    <2> SUFFICES ASSUME pc = "read" PROVE TailInv'
      BY <1>2 DEF TailInv
    <2>1. cursor = 0 /\ (Len(out) < Len(lens) => Len(buf) < Size(lens[Len(out) + 1]))
      BY <1>3 DEF TailInv
    <2>2. CASE Len(out) < Len(lens)
      <3>1. Len(out) + 1 \in 1 .. Len(lens)
        BY <2>2, BufferParts
      <3> QED
        BY <2>1, <2>2, <3>1, <1>1, <1>2 DEF TailInv
    <2>3. CASE ~(Len(out) < Len(lens))
      <3>1. Len(out) = Len(lens)
        BY <2>3, <1>3, BufferParts
      <3>2. e + (Len(buf) - cursor) + Len(replay) + Len(wire) = e
        BY <3>1, <1>3, <1>4, <1>5, <1>7, LoopFacts DEF Placed
      <3>3. Len(buf) = 0
        BY <3>2, <2>1, <1>8, BufferParts
      <3>4. lens'[Len(out) + 1] = L
        BY <3>1, <1>1
      <3>5. Len(buf) < Size(L)
        BY <3>3, <1>8
      <3> QED
        BY <2>1, <3>4, <3>5, <1>2 DEF TailInv
    <2> QED
      BY <2>2, <2>3
  <1> QED
    BY <1>13, <1>14, <1>15, <1>16 DEF StreamInv

\* Behind nothing is everything.
LEMMA BehindZero ==
    ASSUME NEW T, NEW b \in Seq(T), NEW S, NEW p
    PROVE  Behind(S, b, 0, p) <=> At(S, b, p)
  <1>1. Len(b) \in Nat
    BY LenProperties
  <1>2. Len(b) - 0 = Len(b) /\ \A j \in 1 .. Len(b) : 0 + j = j
    BY <1>1
  <1> QED
    BY <1>2 DEF Behind, At

\* A read leaves every byte where it stands in the stream.
LEMMA ChunkPlaced ==
    ASSUME NEW T, NEW b \in Seq(T), NEW s \in Seq(T), NEW n \in Chunks(s),
           NEW S, NEW p \in Nat, At(S, b, p), At(S, s, p + Len(b))
    PROVE  /\ At(S, b \o SubSeq(s, 1, n), p)
           /\ At(S, Drop(s, n), p + Len(b \o SubSeq(s, 1, n)))
           /\ Len(b \o SubSeq(s, 1, n)) + Len(Drop(s, n)) = Len(b) + Len(s)
           /\ Len(b \o SubSeq(s, 1, n)) \in Nat /\ Len(Drop(s, n)) \in Nat
  <1>1. PICK m \in Nat, k \in Nat : m = Len(b) /\ k = Len(s)
    BY LenProperties
  <1>2. PICK c : c = b \o SubSeq(s, 1, n)
    OBVIOUS
  <1>3. PICK d : d = Drop(s, n)
    OBVIOUS
  <1>4. /\ n \in Nat /\ n <= k /\ Len(c) = m + n /\ Len(d) = k - n
        /\ \A j \in 1 .. m : c[j] = b[j]
        /\ \A j \in 1 .. n : c[m + j] = s[j]
        /\ \A j \in 1 .. k - n : d[j] = s[n + j]
    <2>1. /\ n \in Nat /\ n <= Len(s) /\ Len(b \o SubSeq(s, 1, n)) = Len(b) + n
          /\ \A j \in 1 .. Len(b) : (b \o SubSeq(s, 1, n))[j] = b[j]
          /\ \A j \in 1 .. n : (b \o SubSeq(s, 1, n))[Len(b) + j] = s[j]
          /\ Len(Drop(s, n)) = Len(s) - n
          /\ \A j \in 1 .. Len(s) - n : Drop(s, n)[j] = s[n + j]
      BY Chunk
    <2> QED
      BY <1>1, <1>2, <1>3, <2>1
  <1>5. /\ \A j \in 1 .. m : b[j] = S[p + j]
        /\ \A j \in 1 .. k : s[j] = S[p + m + j]
    BY <1>1 DEF At
  <1>6. ASSUME NEW j \in 1 .. m + n PROVE c[j] = S[p + j]
    <2>1. CASE j <= m
      BY <2>1, <1>4, <1>5
    <2>2. CASE ~(j <= m)
      <3>1. PICK i \in 1 .. n : j = m + i
        <4>1. j - m \in 1 .. n /\ j = m + (j - m)
          BY <2>2, <1>4
        <4> QED
          BY <4>1
      <3>2. i \in 1 .. k /\ p + j = p + m + i
        BY <3>1, <1>4
      <3> QED
        BY <3>1, <3>2, <1>4, <1>5
    <2> QED
      BY <2>1, <2>2
  <1>7. ASSUME NEW j \in 1 .. k - n PROVE d[j] = S[p + (m + n) + j]
    <2>1. n + j \in 1 .. k /\ p + m + (n + j) = p + (m + n) + j
      BY <1>4
    <2> QED
      BY <2>1, <1>4, <1>5
  <1>8. At(S, c, p) /\ At(S, d, p + Len(c))
    BY <1>4, <1>6, <1>7 DEF At
  <1>9. Len(c) + Len(d) = m + k /\ Len(c) \in Nat /\ Len(d) \in Nat
    BY <1>4
  <1> QED
    BY <1>1, <1>2, <1>3, <1>8, <1>9

\* The stream as written does not change while nothing is written.
LEMMA LaidSame ==
    ASSUME UNCHANGED lens, NEW S, NEW off, Laid(S, off)
    PROVE  Laid(S, off)'
  BY DEF Laid

\* Nor does what was sent whole while nothing is dispatched.
LEMMA SentSame ==
    ASSUME StreamInv, UNCHANGED <<lens, out>>
    PROVE  (Len(out) <= Len(lens) /\ SentWhole)'
  BY DEF StreamInv, SentWhole

\* The handshake reads.
LEMMA StreamHandshakeReads ==
    ASSUME BufferInv, StreamInv, HandshakeReads
    PROVE  StreamInv'
  <1>1. pc = "handshake" /\ UNCHANGED <<lens, peer, pc, replay, buf, cursor, out>>
    BY DEF HandshakeReads
  <1>2. PICK S, off : Laid(S, off) /\ InHandshake(S, off)
    BY <1>1 DEF StreamInv, Placed
  <1>3. PICK n \in Chunks(wire) : hbuf' = hbuf \o SubSeq(wire, 1, n) /\ wire' = Drop(wire, n)
    BY DEF HandshakeReads
  <1>4. /\ At(S, hbuf', 0) /\ At(S, wire', 0 + Len(hbuf'))
        /\ Len(hbuf') + Len(wire') = Len(hbuf) + Len(wire) /\ Len(hbuf') \in Nat
    <2>1. 0 \in Nat /\ 0 + Len(hbuf) = Len(hbuf)
      BY BufferParts
    <2>2. At(S, hbuf, 0) /\ At(S, wire, 0 + Len(hbuf))
      BY <1>2, <2>1 DEF InHandshake
    <2> QED
      BY <1>3, <2>1, <2>2, BufferParts, ChunkPlaced
  <1>5. 0 + Len(hbuf') = Len(hbuf')
    BY <1>4
  <1>6. InHandshake(S, off)'
    <2>1. At(S, hbuf, 0)' /\ At(S, wire, Len(hbuf))'
      BY <1>4, <1>5 DEF At
    <2>2. (Len(hbuf) + Len(wire) = off[Len(lens) + 1])'
      BY <1>1, <1>2, <1>4 DEF InHandshake
    <2> QED
      BY <1>1, <1>2, <2>1, <2>2 DEF InHandshake
  <1>7. Placed(S, off)'
    BY <1>1, <1>2, <1>6, LaidSame DEF Placed
  <1>8. TailInv'
    BY <1>1 DEF TailInv
  <1> QED
    BY <1>1, <1>7, <1>8, SentSame DEF StreamInv

\* The loop reads, from the leftover or from the socket.
LEMMA StreamReads ==
    ASSUME BufferInv, StreamInv, Reads
    PROVE  StreamInv'
  <1>1. pc = "read" /\ pc' = "drain" /\ cursor' = 0 /\ UNCHANGED <<lens, peer, hbuf, out>>
    BY DEF Reads
  <1>2. PICK S, off : Laid(S, off) /\ InLoop(S, off)
    BY <1>1 DEF StreamInv, Placed
  <1>3. cursor = 0 /\ Len(out) <= Len(lens)
    BY <1>1 DEF StreamInv, TailInv
  <1>4. PICK b \in Nat : b = off[Len(out) + 1]
    BY <1>2, <1>3, LoopFacts
  <1>5. /\ At(S, buf, b) /\ At(S, replay, b + Len(buf))
        /\ At(S, wire, b + Len(buf) + Len(replay))
        /\ b + Len(buf) + Len(replay) + Len(wire) = off[Len(lens) + 1]
    <2>1. Len(buf) - cursor = Len(buf)
      BY <1>3, BufferParts
    <2>2. Behind(S, buf, 0, b)
      BY <1>2, <1>3, <1>4, LoopFacts
    <2>3. At(S, buf, b)
      BY <2>2, BufferParts, BehindZero
    <2> QED
      BY <2>1, <2>3, <1>2, <1>3, <1>4, LoopFacts
  <1>6. /\ Len(buf') \in Nat /\ At(S, buf', b) /\ At(S, replay', b + Len(buf'))
        /\ At(S, wire', b + Len(buf') + Len(replay'))
        /\ b + Len(buf') + Len(replay') + Len(wire') = off[Len(lens) + 1]
    <2>1. CASE replay # <<>>
      <3>1. PICK n \in Chunks(replay) :
              buf' = buf \o SubSeq(replay, 1, n) /\ replay' = Drop(replay, n)
        BY <2>1 DEF Reads
      <3>2. UNCHANGED wire
        BY <2>1 DEF Reads
      <3>3. /\ At(S, buf', b) /\ At(S, replay', b + Len(buf'))
            /\ Len(buf') + Len(replay') = Len(buf) + Len(replay)
            /\ Len(buf') \in Nat /\ Len(replay') \in Nat
        <4>1. buf \in Seq(SentBytes) /\ replay \in Seq(SentBytes)
          BY BufferParts
        <4>2. PICK c, d : c = buf \o SubSeq(replay, 1, n) /\ d = Drop(replay, n)
          OBVIOUS
        <4>3. /\ At(S, c, b) /\ At(S, d, b + Len(c))
              /\ Len(c) + Len(d) = Len(buf) + Len(replay) /\ Len(c) \in Nat /\ Len(d) \in Nat
          BY <4>1, <4>2, <1>5, ChunkPlaced
        <4>4. c = buf' /\ d = replay'
          BY <3>1, <4>2
        <4> QED
          BY <4>3, <4>4
      <3>4. b + Len(buf') + Len(replay') = b + Len(buf) + Len(replay)
        <4>1. PICK x \in Nat, y \in Nat, z \in Nat, w \in Nat :
                x = Len(buf') /\ y = Len(replay') /\ z = Len(buf) /\ w = Len(replay)
          BY <3>3, BufferParts
        <4>2. b + x + y = b + z + w
          <5>1. x + y = z + w
            BY <3>3, <4>1
          <5> QED
            BY <5>1
        <4> QED
          BY <4>1, <4>2
      <3> QED
        BY <3>2, <3>3, <3>4, <1>5
    <2>2. CASE replay = <<>>
      <3>1. PICK n \in Chunks(wire) :
              buf' = buf \o SubSeq(wire, 1, n) /\ wire' = Drop(wire, n)
        BY <2>2 DEF Reads
      <3>2. UNCHANGED replay
        BY <2>2 DEF Reads
      <3>3. Len(replay) = 0 /\ Len(replay') = 0
        BY <2>2, <3>2, EmptySeq
      <3>4. At(S, wire, b + Len(buf)) /\ b + Len(buf) + Len(wire) = off[Len(lens) + 1]
        <4>1. b + Len(buf) + 0 = b + Len(buf)
          BY <1>4, BufferParts
        <4> QED
          BY <4>1, <3>3, <1>5
      <3>5. /\ At(S, buf', b) /\ At(S, wire', b + Len(buf'))
            /\ Len(buf') + Len(wire') = Len(buf) + Len(wire)
            /\ Len(buf') \in Nat /\ Len(wire') \in Nat
        <4>1. buf \in Seq(SentBytes) /\ wire \in Seq(SentBytes)
          BY BufferParts
        <4>2. PICK c, d : c = buf \o SubSeq(wire, 1, n) /\ d = Drop(wire, n)
          OBVIOUS
        <4>3. /\ At(S, c, b) /\ At(S, d, b + Len(c))
              /\ Len(c) + Len(d) = Len(buf) + Len(wire) /\ Len(c) \in Nat /\ Len(d) \in Nat
          BY <4>1, <4>2, <3>4, <1>5, ChunkPlaced
        <4>4. c = buf' /\ d = wire'
          BY <3>1, <4>2
        <4> QED
          BY <4>3, <4>4
      <3>6. b + Len(buf') + 0 + Len(wire') = off[Len(lens) + 1] /\ b + Len(buf') + 0 = b + Len(buf')
        <4>1. PICK x \in Nat, y \in Nat, z \in Nat, w \in Nat :
                x = Len(buf') /\ y = Len(wire') /\ z = Len(buf) /\ w = Len(wire)
          BY <3>5, BufferParts
        <4>2. b + x + 0 + y = b + z + w /\ b + x + 0 = b + x
          <5>1. x + y = z + w
            BY <3>5, <4>1
          <5> QED
            BY <5>1
        <4> QED
          BY <4>1, <4>2, <3>4
      <3>7. At(S, replay', b + Len(buf'))
        <4>1. \A j \in 1 .. 0 : FALSE
          OBVIOUS
        <4> QED
          BY <4>1, <3>3 DEF At
      <3> QED
        BY <3>3, <3>5, <3>6, <3>7
    <2> QED
      BY <2>1, <2>2
  <1>7. InLoop(S, off)'
    <2>1. Len(buf') - cursor' = Len(buf')
      BY <1>1, <1>6
    <2>2. \A j \in 1 .. Len(buf') : 0 + j = j
      BY <1>6
    <2>3. Behind(S, buf, cursor, off[Len(out) + 1])'
      BY <2>1, <2>2, <1>1, <1>4, <1>6 DEF Behind, At
    <2>4. /\ At(S, replay', off[Len(out') + 1] + (Len(buf') - cursor'))
          /\ At(S, wire', off[Len(out') + 1] + (Len(buf') - cursor') + Len(replay'))
          /\ off[Len(out') + 1] + (Len(buf') - cursor') + Len(replay') + Len(wire')
               = off[Len(lens') + 1]
      BY <2>1, <1>1, <1>4, <1>6
    <2> QED
      BY <2>3, <2>4 DEF InLoop, At
  <1>8. Placed(S, off)'
    BY <1>1, <1>2, <1>7, LaidSame DEF Placed
  <1>9. TailInv'
    BY <1>1 DEF TailInv
  <1> QED
    BY <1>1, <1>8, <1>9, SentSame DEF StreamInv

\* A PDU dispatched behind those sent whole is the next one sent.
LEMMA SentNext ==
    ASSUME BufferInv, StreamInv, UNCHANGED lens, Len(out) + 1 \in 1 .. Len(lens),
           Len(out') = Len(out) + 1, \A i \in 1 .. Len(out) : out'[i] = out[i],
           out'[Len(out) + 1] = PduBytes(Len(out) + 1, lens[Len(out) + 1])
    PROVE  (Len(out) <= Len(lens) /\ SentWhole)'
  <1>1. Len(out) + 1 <= Len(lens)
    BY BufferParts
  <1>2. ASSUME NEW i \in 1 .. Len(out) + 1
        PROVE  i <= Len(lens) /\ out'[i] = PduBytes(i, lens[i])
    <2>1. CASE i = Len(out) + 1
      BY <2>1, <1>1
    <2>2. CASE i # Len(out) + 1
      <3>1. i \in 1 .. Len(out)
        BY <2>2, BufferParts
      <3> QED
        BY <3>1 DEF StreamInv, SentWhole
    <2> QED
      BY <2>1, <2>2
  <1> QED
    BY <1>1, <1>2 DEF SentWhole

\* The handshake dispatches the first PDU and hands on what is behind it.
LEMMA HandshakePdu ==
    ASSUME BufferInv, HandshakeCompletes,
           NEW S, NEW off, Laid(S, off), InHandshake(S, off)
    PROVE  /\ 1 \in 1 .. Len(lens) /\ Len(out) = 0 /\ Len(out') = 1
           /\ out' = Append(out, PduBytes(1, lens[1])) /\ out'[1] = PduBytes(1, lens[1])
           /\ lens[1] \in HdrLen .. MaxLen /\ lens[1] <= Len(hbuf)
           /\ off[2] = lens[1] /\ pc' \in {"read", "close"}
           /\ pc' = "read" => replay' = Drop(hbuf, lens[1])
           /\ UNCHANGED <<lens, wire, peer, buf, cursor>>
  <1>1. HasHeader(hbuf, 0) /\ UNCHANGED <<lens, wire, peer, buf, cursor>>
    BY DEF HandshakeCompletes
  <1>2. 1 \in 1 .. Len(lens) /\ LengthAt(hbuf, 0) = {lens[1]}
    BY <1>1, HandshakeHeader
  <1>3. /\ Complete(hbuf, 0, lens[1]) /\ out' = Append(out, SubSeq(hbuf, 1, lens[1]))
        /\ \/ pc' = "read" /\ replay' = Drop(hbuf, lens[1])
           \/ pc' = "close" /\ UNCHANGED replay
    BY <1>2 DEF HandshakeCompletes
  <1>4. out = <<>> /\ Len(out) = 0 /\ At(S, hbuf, 0) /\ off[1] = 0
    BY EmptySeq, LaidFacts DEF InHandshake
  <1>5. lens[1] \in Nat /\ off[1 + 1] = off[1] + Size(lens[1])
    BY <1>2, LaidFacts
  <1>6. Behind(S, hbuf, 0, off[1])
    BY <1>4, BufferParts, BehindZero
  <1>7. 0 \in Nat
    OBVIOUS
  <1>8. Size(lens[1]) = lens[1] /\ SubSeq(hbuf, 0 + 1, 0 + lens[1]) = PduBytes(1, lens[1])
    BY <1>2, <1>3, <1>6, <1>7, BufferParts, PduRead
  <1>9. 0 + 1 = 1 /\ 0 + lens[1] = lens[1] /\ 1 + 1 = 2
    BY <1>5
  <1>10. out' = Append(out, PduBytes(1, lens[1]))
    BY <1>3, <1>8, <1>9
  <1>11. Len(out') = 1 /\ out'[1] = PduBytes(1, lens[1])
    <2>1. PduBytes(1, lens[1]) \in Seq({1} \X (1 .. MaxLen))
      BY <1>5, PduBytesSeq
    <2>2. out \in Seq(Seq({1} \X (1 .. MaxLen)))
      BY <1>4, EmptySeq
    <2> QED
      BY <1>4, <1>9, <1>10, <2>1, <2>2, AppendProperties
  <1>12. lens[1] \in HdrLen .. MaxLen /\ lens[1] <= Len(hbuf)
    <2>1. PICK L \in Nat : L = lens[1]
      BY <1>5
    <2>2. L >= HdrLen /\ L <= MaxLen /\ Len(hbuf) - 0 >= L
      BY <1>3, <2>1 DEF Complete, ValidLength
    <2>3. L \in HdrLen .. MaxLen /\ L <= Len(hbuf)
      BY <2>2, BufferParts, SizeFacts
    <2> QED
      BY <2>1, <2>3
  <1>13. off[2] = lens[1]
    BY <1>4, <1>5, <1>8, <1>9
  <1> QED
    BY <1>1, <1>2, <1>3, <1>4, <1>10, <1>11, <1>12, <1>13

LEMMA StreamHandshakeCompletes ==
    ASSUME BufferInv, StreamInv, HandshakeCompletes
    PROVE  StreamInv'
  <1>1. pc = "handshake"
    BY DEF HandshakeCompletes
  <1>2. PICK S, off : Laid(S, off) /\ InHandshake(S, off)
    BY <1>1 DEF StreamInv, Placed
  <1>3. /\ 1 \in 1 .. Len(lens) /\ Len(out) = 0 /\ Len(out') = 1
        /\ out'[1] = PduBytes(1, lens[1])
        /\ lens[1] \in HdrLen .. MaxLen /\ lens[1] <= Len(hbuf)
        /\ off[2] = lens[1] /\ pc' \in {"read", "close"}
        /\ pc' = "read" => replay' = Drop(hbuf, lens[1])
        /\ UNCHANGED <<lens, wire, peer, buf, cursor>>
    BY <1>2, HandshakePdu
  <1>4. (Len(out) <= Len(lens) /\ SentWhole)'
    <2>1. 0 + 1 = 1 /\ \A i \in 1 .. 0 : FALSE
      OBVIOUS
    <2>2. \A i \in 1 .. Len(out) : out'[i] = out[i]
      BY <1>3, <2>1
    <2> QED
      BY <1>3, <2>1, <2>2, SentNext
  <1>5. buf = <<>> /\ Len(buf) = 0 /\ cursor = 0
    BY <1>2, EmptySeq DEF InHandshake
  <1>6. TailInv'
    <2>1. 1 + 1 = 2 /\ (1 < Len(lens) => 2 \in 1 .. Len(lens))
      BY BufferParts
    <2>2. 1 < Len(lens) => 0 < Size(lens[2])
      <3> SUFFICES ASSUME 1 < Len(lens) PROVE 0 < Size(lens[2])
        OBVIOUS
      <3>1. Size(lens[2]) \in Nat /\ HdrLen <= Size(lens[2])
        BY <1>2, <2>1, LaidFacts
      <3> QED
        BY <3>1, SizeFacts
    <2> QED
      BY <1>3, <1>5, <2>1, <2>2 DEF TailInv
  <1>7. ASSUME pc' = "read" PROVE InLoop(S, off)'
    <2>1. PICK L \in Nat, h \in Nat, w \in Nat : L = lens[1] /\ h = Len(hbuf) /\ w = Len(wire)
      <3>1. lens[1] \in Nat
        BY <1>2, <1>3, LaidFacts
      <3> QED
        BY <3>1, BufferParts
    <2>2. L <= h /\ replay' = Drop(hbuf, L)
      BY <1>3, <1>7, <2>1
    <2>3. Len(replay') = h - L /\ \A j \in 1 .. h - L : replay'[j] = hbuf[L + j]
      <3>1. /\ Len(Drop(hbuf, L)) = Len(hbuf) - L
            /\ \A j \in 1 .. Len(hbuf) - L : Drop(hbuf, L)[j] = hbuf[L + j]
        <4>1. hbuf \in Seq(SentBytes) /\ L <= Len(hbuf)
          BY <2>1, <2>2, BufferParts
        <4> QED
          BY <4>1, Split
      <3> QED
        BY <2>1, <2>2, <3>1
    <2>4. /\ \A j \in 1 .. h : hbuf[j] = S[0 + j]
          /\ At(S, wire, h) /\ h + w = off[Len(lens) + 1]
      BY <1>2, <2>1 DEF InHandshake, At
    <2>5. \A j \in 1 .. h - L : replay'[j] = S[L + j]
      <3>1. \A j \in 1 .. h - L : L + j \in 1 .. h /\ 0 + (L + j) = L + j
        BY <2>2
      <3> QED
        BY <3>1, <2>3, <2>4
    <2>6. At(S, replay', L)
      BY <2>3, <2>5 DEF At
    <2>7. L + (0 - 0) = L /\ L + (h - L) = h
      BY <2>1
    <2>8. /\ Len(buf') - cursor' = 0 - 0 /\ off[Len(out') + 1] = L
          /\ off[Len(lens') + 1] = h + w /\ Len(wire') = w /\ wire' = wire
      <3>1. 1 + 1 = 2
        OBVIOUS
      <3> QED
        BY <3>1, <1>3, <1>5, <2>1, <2>4
    <2>9. Behind(S, buf, cursor, off[Len(out) + 1])'
      <3>1. \A j \in 1 .. 0 - 0 : FALSE
        OBVIOUS
      <3> QED
        BY <3>1, <2>8 DEF Behind
    <2>10. /\ At(S, replay', off[Len(out') + 1] + (Len(buf') - cursor'))
           /\ At(S, wire', off[Len(out') + 1] + (Len(buf') - cursor') + Len(replay'))
           /\ off[Len(out') + 1] + (Len(buf') - cursor') + Len(replay') + Len(wire')
                = off[Len(lens') + 1]
      BY <2>3, <2>4, <2>6, <2>7, <2>8
    <2> QED
      BY <2>9, <2>10 DEF InLoop, At
  <1>8. Placed(S, off)'
    BY <1>2, <1>3, <1>7, LaidSame DEF Placed
  <1> QED
    BY <1>4, <1>6, <1>8 DEF StreamInv

\* The loop dispatches the PDU it is at.
LEMMA DrainPdu ==
    ASSUME BufferInv, StreamInv, DrainDispatches,
           NEW S, NEW off, Laid(S, off), InLoop(S, off)
    PROVE  LET n == Len(out) + 1 IN
           /\ n \in 1 .. Len(lens) /\ Len(out') = n
           /\ out' = Append(out, PduBytes(n, lens[n])) /\ out'[n] = PduBytes(n, lens[n])
           /\ \A i \in 1 .. Len(out) : out'[i] = out[i]
           /\ lens[n] \in HdrLen .. MaxLen /\ lens[n] <= Len(buf) - cursor
           /\ off[n + 1] = off[n] + lens[n]
           /\ (cursor' = cursor + lens[n] /\ pc' = pc) \/ pc' = "close"
           /\ UNCHANGED <<lens, wire, peer, hbuf, replay, buf>>
  <1>1. HasHeader(buf, cursor) /\ UNCHANGED <<lens, wire, peer, hbuf, replay, buf>>
    BY DEF DrainDispatches
  <1>2. Len(out) <= Len(lens)
    BY DEF StreamInv
  <1>3. PICK n : n = Len(out) + 1
    OBVIOUS
  <1>4. n \in 1 .. Len(lens) /\ LengthAt(buf, cursor) = {lens[n]}
    BY <1>1, <1>2, <1>3, LoopHeader
  <1>5. PICK L : L = lens[n]
    OBVIOUS
  <1>6. /\ Complete(buf, cursor, L) /\ L \in LengthAt(buf, cursor)
        /\ out' = Append(out, SubSeq(buf, cursor + 1, cursor + L))
        /\ \/ cursor' = cursor + L /\ UNCHANGED pc
           \/ pc' = "close" /\ UNCHANGED cursor
    BY <1>4, <1>5 DEF DrainDispatches
  <1>7. Behind(S, buf, cursor, off[n])
    BY <1>2, <1>3, LoopFacts
  <1>8. Size(L) = L /\ SubSeq(buf, cursor + 1, cursor + L) = PduBytes(n, L)
    <2>1. buf \in Seq(SentBytes) /\ cursor \in Nat /\ Complete(buf, cursor, lens[n])
      BY <1>5, <1>6, BufferParts
    <2>2. /\ Size(lens[n]) = lens[n]
          /\ SubSeq(buf, cursor + 1, cursor + lens[n]) = PduBytes(n, lens[n])
      BY <1>4, <1>7, <2>1, PduRead
    <2> QED
      BY <1>5, <2>2
  <1>9. /\ L \in Nat /\ L >= HdrLen /\ L <= MaxLen /\ L <= Len(buf) - cursor
        /\ Len(out') = Len(out) + 1 /\ \A i \in 1 .. Len(out) : out'[i] = out[i]
        /\ out'[Len(out) + 1] = SubSeq(buf, cursor + 1, cursor + L)
    BY <1>1, <1>6, BufferParts, DispatchedBytes
  <1>10. off[n + 1] = off[n] + Size(lens[n])
    BY <1>4, LaidFacts
  <1>11. L \in HdrLen .. MaxLen
    BY <1>9, SizeFacts
  <1> QED
    BY <1>1, <1>3, <1>4, <1>5, <1>6, <1>8, <1>9, <1>10, <1>11

LEMMA StreamDrainDispatches ==
    ASSUME BufferInv, StreamInv, DrainDispatches
    PROVE  StreamInv'
  <1>1. pc = "drain"
    BY DEF DrainDispatches
  <1>2. PICK S, off : Laid(S, off) /\ InLoop(S, off)
    BY <1>1 DEF StreamInv, Placed
  <1>3. Len(out) <= Len(lens)
    BY DEF StreamInv
  <1>4. PICK n : n = Len(out) + 1
    OBVIOUS
  <1>5. /\ n \in 1 .. Len(lens) /\ Len(out') = n
        /\ out'[n] = PduBytes(n, lens[n]) /\ \A i \in 1 .. Len(out) : out'[i] = out[i]
        /\ lens[n] \in HdrLen .. MaxLen /\ lens[n] <= Len(buf) - cursor
        /\ off[n + 1] = off[n] + lens[n]
        /\ (cursor' = cursor + lens[n] /\ pc' = pc) \/ pc' = "close"
        /\ UNCHANGED <<lens, wire, peer, hbuf, replay, buf>>
    BY <1>2, <1>4, DrainPdu
  <1>6. (Len(out) <= Len(lens) /\ SentWhole)'
    BY <1>4, <1>5, SentNext
  <1>7. TailInv'
    BY <1>1, <1>5 DEF TailInv
  <1>8. ASSUME pc' = pc, cursor' = cursor + lens[n] PROVE InLoop(S, off)'
    <2>1. lens[n] \in Nat /\ off[n] \in Nat
      BY <1>2, <1>5, LaidFacts
    <2>2. PICK L \in Nat, b \in Nat, c \in Nat, m \in Nat, r \in Nat, w \in Nat :
            /\ L = lens[n] /\ b = off[n] /\ c = cursor /\ m = Len(buf)
            /\ r = Len(replay) /\ w = Len(wire)
      BY <2>1, BufferParts
    <2>3. /\ Behind(S, buf, c, b) /\ At(S, replay, b + (m - c))
          /\ At(S, wire, b + (m - c) + r)
          /\ b + (m - c) + r + w = off[Len(lens) + 1]
      BY <1>2, <1>3, <1>4, <2>2, LoopFacts
    <2>4. L <= m - c
      BY <1>5, <2>2
    <2>5. (b + L) + (m - (c + L)) = b + (m - c)
      BY <2>2
    <2>6. /\ off[Len(out') + 1] = b + L /\ cursor' = c + L /\ Len(buf') = m /\ buf' = buf
          /\ replay' = replay /\ wire' = wire /\ Len(replay') = r /\ Len(wire') = w
          /\ off[Len(lens') + 1] = off[Len(lens) + 1]
      BY <1>5, <1>8, <2>2
    <2>7. Behind(S, buf, cursor, off[Len(out) + 1])'
      <3>1. ASSUME NEW j \in 1 .. m - (c + L) PROVE buf[c + L + j] = S[b + L + j]
        <4>1. L + j \in 1 .. m - c /\ c + (L + j) = c + L + j /\ b + (L + j) = b + L + j
          <5>1. j \in Nat /\ 1 <= j /\ j <= m - (c + L)
            OBVIOUS
          <5> QED
            BY <5>1, <2>4
        <4>2. buf[c + (L + j)] = S[b + (L + j)]
          BY <4>1, <2>2, <2>3 DEF Behind
        <4> QED
          BY <4>1, <4>2
      <3> QED
        BY <3>1, <2>6 DEF Behind
    <2>8. /\ At(S, replay', off[Len(out') + 1] + (Len(buf') - cursor'))
          /\ At(S, wire', off[Len(out') + 1] + (Len(buf') - cursor') + Len(replay'))
          /\ off[Len(out') + 1] + (Len(buf') - cursor') + Len(replay') + Len(wire')
               = off[Len(lens') + 1]
      BY <2>3, <2>5, <2>6
    <2> QED
      BY <2>7, <2>8 DEF InLoop, At
  <1>9. Placed(S, off)'
    BY <1>1, <1>2, <1>5, <1>8, LaidSame DEF Placed
  <1> QED
    BY <1>6, <1>7, <1>9 DEF StreamInv

\* The loop drops what it has dispatched and keeps less than the PDU it is at.
LEMMA StreamDrainEnds ==
    ASSUME BufferInv, StreamInv, DrainEnds
    PROVE  StreamInv'
  <1>1. /\ pc = "drain" /\ pc' = "read" /\ cursor' = 0 /\ buf' = Drop(buf, cursor)
        /\ UNCHANGED <<lens, wire, peer, hbuf, replay, out>> /\ Incomplete(buf, cursor)
    BY DEF DrainEnds
  <1>2. PICK S, off : Laid(S, off) /\ InLoop(S, off)
    BY <1>1 DEF StreamInv, Placed
  <1>3. Len(out) <= Len(lens)
    BY DEF StreamInv
  <1>4. PICK t \in Nat : t = Len(buf) - cursor
    <2>1. Len(buf) - cursor \in Nat
      BY BufferParts
    <2> QED
      BY <2>1
  <1>5. Len(buf') = t /\ \A j \in 1 .. t : buf'[j] = buf[cursor + j]
    <2>1. /\ Len(Drop(buf, cursor)) = Len(buf) - cursor
          /\ \A j \in 1 .. Len(buf) - cursor : Drop(buf, cursor)[j] = buf[cursor + j]
      <3>1. buf \in Seq(SentBytes) /\ cursor \in Nat /\ cursor <= Len(buf)
        BY BufferParts
      <3> QED
        BY <3>1, Split
    <2> QED
      BY <1>1, <1>4, <2>1
  <1>6. TailInv'
    <2> SUFFICES ASSUME Len(out) < Len(lens) PROVE t < Size(lens[Len(out) + 1])
      BY <1>1, <1>5 DEF TailInv
    <2>1. PICK n : n = Len(out) + 1
      OBVIOUS
    <2>2. n \in 1 .. Len(lens)
      BY <2>1, BufferParts
    <2>3. lens[n] \in Nat /\ Size(lens[n]) \in Nat /\ HdrLen <= Size(lens[n])
      BY <1>2, <2>2, LaidFacts
    <2>4. CASE HasHeader(buf, cursor)
      <3>1. LengthAt(buf, cursor) = {lens[n]}
        BY <1>2, <1>3, <2>1, <2>4, LoopHeader
      <3>2. ValidLength(lens[n]) /\ t < lens[n]
        BY <1>1, <1>4, <2>4, <3>1 DEF Incomplete
      <3>3. Size(lens[n]) = lens[n]
        BY <2>3, <3>2, SizeFacts DEF ValidLength, Size
      <3> QED
        BY <2>1, <3>2, <3>3
    <2>5. CASE ~HasHeader(buf, cursor)
      <3>1. t < HdrLen
        BY <1>4, <2>5, SizeFacts DEF HasHeader
      <3>2. t < Size(lens[n])
        BY <3>1, <2>3, SizeFacts
      <3> QED
        BY <2>1, <3>2
    <2> QED
      BY <2>4, <2>5
  <1>7. InLoop(S, off)'
    <2>1. /\ Behind(S, buf, cursor, off[Len(out) + 1])
          /\ At(S, replay, off[Len(out) + 1] + t)
          /\ At(S, wire, off[Len(out) + 1] + t + Len(replay))
          /\ off[Len(out) + 1] + t + Len(replay) + Len(wire) = off[Len(lens) + 1]
      BY <1>2, <1>3, <1>4, LoopFacts
    <2>2. Len(buf') - cursor' = t /\ \A j \in 1 .. t : 0 + j = j
      BY <1>1, <1>5
    <2>3. \A j \in 1 .. t : buf'[j] = S[off[Len(out) + 1] + j]
      BY <1>4, <1>5, <2>1 DEF Behind
    <2>4. Behind(S, buf, cursor, off[Len(out) + 1])'
      BY <1>1, <2>2, <2>3 DEF Behind
    <2>5. /\ At(S, replay', off[Len(out') + 1] + (Len(buf') - cursor'))
          /\ At(S, wire', off[Len(out') + 1] + (Len(buf') - cursor') + Len(replay'))
          /\ off[Len(out') + 1] + (Len(buf') - cursor') + Len(replay') + Len(wire')
               = off[Len(lens') + 1]
      BY <1>1, <2>1, <2>2
    <2> QED
      BY <2>4, <2>5 DEF InLoop, At
  <1>8. Placed(S, off)'
    BY <1>1, <1>2, <1>7, LaidSame DEF Placed
  <1> QED
    BY <1>1, <1>6, <1>8, SentSame DEF StreamInv

\* The steps that move no byte.
LEMMA StreamQuiet ==
    ASSUME BufferInv, StreamInv,
           HangUp \/ HandshakeFails \/ DrainRejects \/ ReadFails \/ Closes \/ UNCHANGED vars
    PROVE  StreamInv'
  <1>1. /\ UNCHANGED <<lens, wire, hbuf, replay, buf, cursor, out>>
        /\ pc' = pc \/ pc' \in {"close", "closed"}
    BY DEF HangUp, HandshakeFails, DrainRejects, ReadFails, Closes, vars
  <1>2. PICK S, off : Placed(S, off)
    BY DEF StreamInv
  <1>3. CASE pc' = pc
    <2>1. Placed(S, off)'
      BY <1>1, <1>2, <1>3 DEF Placed, Laid, InHandshake, InLoop, At, Behind
    <2>2. TailInv'
      BY <1>1, <1>3 DEF StreamInv, TailInv
    <2> QED
      BY <1>1, <2>1, <2>2, SentSame DEF StreamInv
  <1>4. CASE pc' \in {"close", "closed"}
    <2>1. Laid(S, off)
      BY <1>2 DEF Placed
    <2>2. Placed(S, off)'
      BY <1>1, <1>4, <2>1, LaidSame DEF Placed
    <2>3. TailInv'
      BY <1>4 DEF TailInv
    <2> QED
      BY <1>1, <2>2, <2>3, SentSame DEF StreamInv
  <1> QED
    BY <1>1, <1>3, <1>4

-----------------------------------------------------------------------------
(* What comes out of the stream *)

\* The places of the bytes are an invariant of a socket that takes whole PDUs.
LEMMA StreamInit == Init => StreamInv
  <1> SUFFICES ASSUME Init PROVE StreamInv
    OBVIOUS
  <1>1. /\ lens = <<>> /\ wire = <<>> /\ pc = "handshake" /\ hbuf = <<>>
        /\ replay = <<>> /\ buf = <<>> /\ cursor = 0 /\ out = <<>>
    BY DEF Init
  <1>2. Len(<<>>) = 0
    BY EmptySeq
  <1>3. 0 + 1 = 1 /\ 0 + 0 = 0 /\ \A j \in 1 .. 0 : FALSE
    OBVIOUS
  <1>4. PICK off : off = [i \in 1 .. 1 |-> 0]
    OBVIOUS
  <1>5. off[1] = 0 /\ off \in [1 .. 1 -> Nat] /\ \A i, j \in 1 .. 1 : off[i] <= off[j]
    BY <1>4
  <1>6. PICK S : S = <<>>
    OBVIOUS
  <1>7. Laid(S, off)
    BY <1>1, <1>2, <1>3, <1>5 DEF Laid
  <1>8. InHandshake(S, off)
    BY <1>1, <1>2, <1>3, <1>5 DEF InHandshake, At
  <1>9. Placed(S, off)
    BY <1>1, <1>7, <1>8 DEF Placed
  <1>10. Len(out) <= Len(lens) /\ SentWhole /\ TailInv
    BY <1>1, <1>2, <1>3 DEF SentWhole, TailInv
  <1> QED
    BY <1>9, <1>10 DEF StreamInv

LEMMA StreamNext == ~ShortWrites /\ BufferInv /\ StreamInv /\ [Next]_vars => StreamInv'
  <1> SUFFICES ASSUME ~ShortWrites, BufferInv, StreamInv, [Next]_vars PROVE StreamInv'
    OBVIOUS
  <1>1. ASSUME NEW L \in Lengths, Write(L) PROVE StreamInv'
    BY <1>1, StreamWrite
  <1>2. CASE HandshakeReads
    BY <1>2, StreamHandshakeReads
  <1>3. CASE HandshakeCompletes
    BY <1>3, StreamHandshakeCompletes
  <1>4. CASE Reads
    BY <1>4, StreamReads
  <1>5. CASE DrainDispatches
    BY <1>5, StreamDrainDispatches
  <1>6. CASE DrainEnds
    BY <1>6, StreamDrainEnds
  <1>7. CASE HangUp \/ HandshakeFails \/ DrainRejects \/ ReadFails \/ Closes \/ UNCHANGED vars
    BY <1>7, StreamQuiet
  <1> QED
    BY <1>1, <1>2, <1>3, <1>4, <1>5, <1>6, <1>7 DEF Next

\* A buffer that holds as many bytes as its PDU has is not waiting.
LEMMA StreamDrained ==
    ASSUME BufferInv, StreamInv
    PROVE  QuietMeansDrained
  <1>1. PICK S, off : Placed(S, off)
    BY DEF StreamInv
  <1>2. Laid(S, off) /\ Len(out) <= Len(lens)
    BY <1>1 DEF Placed, StreamInv
  <1>3. ASSUME pc = "handshake", Incomplete(hbuf, 0), wire = <<>> PROVE lens = <<>>
    <2> SUFFICES ASSUME lens # <<>> PROVE FALSE
      OBVIOUS
    <2>1. 1 \in 1 .. Len(lens)
      BY BufferParts, EmptySeq DEF TypeOK
    <2>2. InHandshake(S, off) /\ Len(wire) = 0
      BY <1>1, <1>3, EmptySeq DEF Placed
    <2>3. Len(hbuf) = off[Len(lens) + 1]
      BY <2>2, BufferParts DEF InHandshake
    <2>4. /\ Size(lens[1]) \in Nat /\ HdrLen <= Size(lens[1]) /\ lens[1] \in Nat
          /\ off[1 + 1] = off[1] + Size(lens[1]) /\ off[1 + 1] <= off[Len(lens) + 1]
          /\ off[1] = 0
      BY <1>2, <2>1, LaidFacts
    <2>5. Size(lens[1]) <= Len(hbuf)
      <3>1. 0 + Size(lens[1]) = Size(lens[1])
        BY <2>4
      <3> QED
        BY <3>1, <2>3, <2>4
    <2>6. HasHeader(hbuf, 0)
      BY <2>4, <2>5, BufferParts, SizeFacts DEF HasHeader
    <2>7. LengthAt(hbuf, 0) = {lens[1]}
      BY <1>2, <2>2, <2>6, HandshakeHeader
    <2>8. ValidLength(lens[1]) /\ Len(hbuf) - 0 < lens[1]
      BY <1>3, <2>6, <2>7 DEF Incomplete
    <2>9. Size(lens[1]) = lens[1]
      BY <2>4, <2>8, SizeFacts DEF ValidLength, Size
    <2> QED
      BY <2>4, <2>5, <2>8, <2>9, BufferParts
  <1>4. ASSUME pc = "read", replay = <<>>, wire = <<>> PROVE Len(out) = Len(lens)
    <2> SUFFICES ASSUME Len(out) # Len(lens) PROVE FALSE
      OBVIOUS
    <2>1. PICK n : n = Len(out) + 1
      OBVIOUS
    <2>2. n \in 1 .. Len(lens) /\ Len(out) < Len(lens)
      BY <1>2, <2>1, BufferParts
    <2>3. cursor = 0 /\ Len(buf) < Size(lens[n])
      BY <1>4, <2>1, <2>2 DEF StreamInv, TailInv
    <2>4. InLoop(S, off) /\ Len(wire) = 0 /\ Len(replay) = 0
      BY <1>1, <1>4, EmptySeq DEF Placed
    <2>5. off[n] \in Nat /\ off[n] + Len(buf) = off[Len(lens) + 1]
      <3>1. /\ off[n] \in Nat
            /\ off[n] + (Len(buf) - cursor) + Len(replay) + Len(wire) = off[Len(lens) + 1]
        BY <1>2, <2>1, <2>4, LoopFacts
      <3>2. PICK b \in Nat, m \in Nat : b = off[n] /\ m = Len(buf)
        BY <3>1, BufferParts
      <3>3. b + (m - 0) + 0 + 0 = b + m
        BY <3>2
      <3> QED
        BY <2>3, <2>4, <3>1, <3>2, <3>3
    <2>6. /\ Size(lens[n]) \in Nat
          /\ off[n + 1] = off[n] + Size(lens[n]) /\ off[n + 1] <= off[Len(lens) + 1]
      BY <1>2, <2>2, LaidFacts
    <2>7. off[n] + Size(lens[n]) <= off[n] + Len(buf)
      BY <2>5, <2>6
    <2> QED
      BY <2>3, <2>5, <2>6, <2>7, BufferParts
  <1> QED
    BY <1>3, <1>4 DEF QuietMeansDrained

\* A PDU never sits in a buffer, whole, while the receiver waits for bytes: not
\* behind the bind in the segment frame_first_pdu read, and not behind another PDU
\* in the buffer of run_read_loop.
THEOREM NoneLeftBehind ==
    ASSUME ~ShortWrites
    PROVE  Spec => []QuietMeansDrained
  <1>1. BufferInv /\ StreamInv => QuietMeansDrained
    BY StreamDrained
  <1>2. BufferInv /\ StreamInv /\ [Next]_vars => StreamInv'
    BY StreamNext
  <1> QED
    BY <1>1, <1>2, BufferInit, BufferNext, StreamInit, PTL DEF Spec

\* On a socket that takes whole PDUs, the i-th PDU dispatched is the i-th one sent,
\* byte for byte: what WriteFrame promises fails (run framing_short) only because
\* the writer ignores how much of a PDU the socket took.
THEOREM WholeIfTaken ==
    ASSUME ~ShortWrites
    PROVE  Spec => []SentWhole
  <1>1. StreamInv => SentWhole
    BY DEF StreamInv
  <1>2. BufferInv /\ StreamInv /\ [Next]_vars => StreamInv'
    BY StreamNext
  <1> QED
    BY <1>1, <1>2, BufferInit, BufferNext, StreamInit, PTL DEF Spec

-----------------------------------------------------------------------------
(* The framing implements PduStream *)

\* The PDUs sent, as the abstract specification sees them.
SentPdus == [i \in 1 .. Len(lens) |-> PduBytes(i, lens[i])]

\* A write is a Send.
LEMMA WriteIsSend ==
    ASSUME BufferInv, NEW L \in Lengths, Write(L)
    PROVE  Stream!Send
  <1>1. L \in Nat /\ lens \in Seq(Lengths) /\ Len(lens) \in Nat /\ Len(lens) < MaxPdus
    BY FramingAssumption, BufferParts DEF TypeOK, Write
  <1>2. /\ Len(lens') = Len(lens) + 1 /\ lens'[Len(lens) + 1] = L
        /\ \A i \in 1 .. Len(lens) : lens'[i] = lens[i]
    BY <1>1, AppendProperties DEF Write
  <1>3. PICK N \in Nat : N = Len(lens)
    BY <1>1
  <1>4. PICK p : p = PduBytes(N + 1, L)
    OBVIOUS
  <1>5. PICK s : s = [i \in 1 .. N |-> PduBytes(i, lens[i])]
    OBVIOUS
  <1>6. PICK t : t = [i \in 1 .. N + 1 |-> PduBytes(i, lens'[i])]
    OBVIOUS
  <1>7. PICK T : T = {p} \cup {PduBytes(i, lens[i]) : i \in 1 .. N}
    OBVIOUS
  <1>8. s \in Seq(T) /\ Len(s) = N /\ \A i \in 1 .. N : s[i] = PduBytes(i, lens[i])
    <2>1. \A i \in 1 .. N : PduBytes(i, lens[i]) \in T
      BY <1>7
    <2>2. s \in Seq(T)
      BY <1>3, <1>5, <2>1, IsASeq
    <2>3. DOMAIN s = 1 .. N
      BY <1>5
    <2>4. Len(s) = N
      BY <1>3, <2>2, <2>3, LenProperties
    <2> QED
      BY <1>5, <2>2, <2>4
  <1>9. \A i \in 1 .. N + 1 : t[i] = IF i = N + 1 THEN p ELSE PduBytes(i, lens[i])
    <2> TAKE i \in 1 .. N + 1
    <2>1. CASE i = N + 1
      BY <2>1, <1>2, <1>3, <1>4, <1>6
    <2>2. CASE i # N + 1
      <3>1. i \in 1 .. N
        BY <2>2, <1>3
      <3>2. lens'[i] = lens[i]
        BY <3>1, <1>2, <1>3
      <3> QED
        BY <2>2, <3>2, <1>6
    <2> QED
      BY <2>1, <2>2
  <1>10. t \in Seq(T) /\ Len(t) = N + 1
    <2>1. \A i \in 1 .. N + 1 : i = N + 1 \/ i \in 1 .. N
      BY <1>3
    <2>2. \A i \in 1 .. N + 1 : t[i] \in T
      BY <1>7, <1>9, <2>1
    <2>3. \A i \in 1 .. N + 1 : PduBytes(i, lens'[i]) \in T
      BY <1>6, <2>2
    <2>4. N + 1 \in Nat
      BY <1>3
    <2>5. t \in Seq(T)
      BY <1>6, <2>3, <2>4, IsASeq
    <2>6. DOMAIN t = 1 .. N + 1
      BY <1>6
    <2> QED
      BY <2>4, <2>5, <2>6, LenProperties
  <1>11. t = Append(s, p)
    <2>1. p \in T
      BY <1>7
    <2>2. /\ Append(s, p) \in Seq(T) /\ Len(Append(s, p)) = N + 1
          /\ \A i \in 1 .. N : Append(s, p)[i] = s[i]
      BY <1>8, <2>1, AppendProperties
    <2>3. Append(s, p)[N + 1] = p
      BY <1>8, <2>1, AppendProperties
    <2>4. \A i \in 1 .. N + 1 : t[i] = Append(s, p)[i]
      <3> TAKE i \in 1 .. N + 1
      <3>1. CASE i = N + 1
        BY <3>1, <2>3, <1>9
      <3>2. CASE i # N + 1
        <4>1. i \in 1 .. N
          BY <3>2, <1>3
        <4> QED
          BY <3>2, <4>1, <2>2, <1>8, <1>9
      <3> QED
        BY <3>1, <3>2
    <2> QED
      BY <1>10, <2>2, <2>4, SeqEqual
  <1>12. p \in AllPdus
    <2>1. N + 1 \in 1 .. MaxPdus
      <3>1. N < MaxPdus
        BY <1>1, <1>3
      <3>2. MaxPdus \in Nat
        BY SizeFacts
      <3> QED
        BY <3>1, <3>2
    <2> QED
      BY <1>4, <2>1 DEF AllPdus
  <1>13. SentPdus = s /\ SentPdus' = t
    BY <1>2, <1>3, <1>5, <1>6 DEF SentPdus
  <1>14. SentPdus' = Append(SentPdus, p)
    BY <1>11, <1>13
  <1>15. UNCHANGED <<pc, out>>
    BY DEF Write
  <1> QED
    BY <1>12, <1>14, <1>15 DEF Stream!Send, SentPdus

\* Dispatching the next PDU sent, which has a good length, is a Receive.
LEMMA DispatchIsReceive ==
    ASSUME BufferInv, NEW n, n = Len(out) + 1, n \in 1 .. Len(lens), UNCHANGED lens,
           lens[n] \in HdrLen .. MaxLen, out' = Append(out, PduBytes(n, lens[n])),
           pc # "closed", pc' # "closed"
    PROVE  Stream!Receive
  <1>1. SentPdus[n] = PduBytes(n, lens[n]) /\ SentPdus' = SentPdus
    BY DEF SentPdus
  <1>2. Len(SentPdus) = Len(lens)
    <2>1. \A i \in 1 .. Len(lens) :
            PduBytes(i, lens[i]) \in {PduBytes(j, lens[j]) : j \in 1 .. Len(lens)}
      OBVIOUS
    <2>2. SentPdus \in Seq({PduBytes(j, lens[j]) : j \in 1 .. Len(lens)})
      BY <2>1, BufferParts, IsASeq DEF SentPdus
    <2>3. DOMAIN SentPdus = 1 .. Len(lens)
      BY DEF SentPdus
    <2> QED
      BY <2>2, <2>3, BufferParts, LenProperties
  <1>3. Len(out) < Len(SentPdus)
    BY <1>2, BufferParts
  <1>4. PduBytes(n, lens[n]) \in GoodPdus
    <2>1. n \in 1 .. MaxPdus
      BY BufferParts, SizeFacts DEF TypeOK
    <2>2. lens[n] \in Lengths
      BY BufferParts, ElementOfSeq DEF TypeOK
    <2> QED
      BY <2>1, <2>2 DEF GoodPdus
  <1> QED
    BY <1>1, <1>3, <1>4 DEF Stream!Receive, SentPdus

\* Every step is a step of PduStream or leaves what it shows alone.
LEMMA StepImplements ==
    ASSUME BufferInv, StreamInv, [Next]_vars
    PROVE  [Stream!Next]_Stream!vars
  <1>1. ASSUME NEW L \in Lengths, Write(L) PROVE Stream!Next
    BY <1>1, WriteIsSend DEF Stream!Next
  <1>2. CASE HandshakeCompletes
    <2>1. pc = "handshake"
      BY <1>2 DEF HandshakeCompletes
    <2>2. PICK S, off : Laid(S, off) /\ InHandshake(S, off)
      BY <2>1 DEF StreamInv, Placed
    <2>3. /\ 1 \in 1 .. Len(lens) /\ Len(out) = 0 /\ UNCHANGED lens
          /\ out' = Append(out, PduBytes(1, lens[1])) /\ lens[1] \in HdrLen .. MaxLen
          /\ pc' \in {"read", "close"}
      BY <1>2, <2>2, HandshakePdu
    <2>4. 1 = Len(out) + 1
      BY <2>3
    <2> QED
      BY <2>1, <2>3, <2>4, DispatchIsReceive DEF Stream!Next
  <1>3. CASE DrainDispatches
    <2>1. pc = "drain"
      BY <1>3 DEF DrainDispatches
    <2>2. PICK S, off : Laid(S, off) /\ InLoop(S, off)
      BY <2>1 DEF StreamInv, Placed
    <2>3. PICK n : n = Len(out) + 1
      OBVIOUS
    <2>4. /\ n \in 1 .. Len(lens) /\ UNCHANGED lens
          /\ out' = Append(out, PduBytes(n, lens[n])) /\ lens[n] \in HdrLen .. MaxLen
          /\ pc' = pc \/ pc' = "close"
      BY <1>3, <2>2, <2>3, DrainPdu
    <2>5. pc # "closed" /\ pc' # "closed"
      BY <2>1, <2>4
    <2> QED
      BY <2>3, <2>4, <2>5, DispatchIsReceive DEF Stream!Next
  <1>4. CASE Closes
    BY <1>4 DEF Closes, Stream!Next, Stream!Close
  <1>5. CASE \/ HangUp \/ HandshakeReads \/ HandshakeFails \/ Reads
             \/ DrainRejects \/ DrainEnds \/ ReadFails \/ UNCHANGED vars
    <2>1. UNCHANGED <<lens, out>> /\ (pc' # "closed") = (pc # "closed")
      BY <1>5 DEF HangUp, HandshakeReads, HandshakeFails, Reads, DrainRejects, DrainEnds,
                  ReadFails, vars
    <2> QED
      BY <2>1 DEF Stream!vars
  <1> QED
    BY <1>1, <1>2, <1>3, <1>4, <1>5 DEF Next

LEMMA InitImplements == Init => Stream!Init
  <1> SUFFICES ASSUME Init PROVE Stream!Init
    OBVIOUS
  <1>1. lens = <<>> /\ out = <<>> /\ pc = "handshake"
    BY DEF Init
  <1>2. Len(lens) = 0 /\ \A i \in 1 .. 0 : FALSE
    BY <1>1, EmptySeq
  <1>3. SentPdus = <<>>
    <2>1. \A i \in 1 .. 0 : PduBytes(i, lens[i]) \in {}
      BY <1>2
    <2>2. SentPdus \in Seq({}) /\ DOMAIN SentPdus = 1 .. 0
      <3>1. 0 \in Nat
        OBVIOUS
      <3> QED
        BY <1>2, <2>1, <3>1, IsASeq DEF SentPdus
    <2>3. Len(SentPdus) = 0
      BY <2>2, LenProperties
    <2> QED
      BY <2>2, <2>3, EmptySeq
  <1> QED
    BY <1>1, <1>3 DEF Stream!Init, SentPdus

\* However the stream is cut, and whichever PDUs share a segment with the bind, the
\* handshake and the read loop hand the dispatcher exactly the PDUs sent, whole, in
\* order, each once, up to the first bogus command_length: on a socket that takes
\* whole PDUs, Framing implements PduStream.
THEOREM FramingImplementsPduStream ==
    ASSUME ~ShortWrites
    PROVE  Spec => ImplementsPduStream
  <1>1. BufferInv /\ StreamInv /\ [Next]_vars => StreamInv'
    BY StreamNext
  <1>2. BufferInv /\ StreamInv /\ [Next]_vars => [Stream!Next]_Stream!vars
    BY StepImplements
  <1> QED
    BY <1>1, <1>2, BufferInit, BufferNext, StreamInit, InitImplements, PTL
       DEF Spec, ImplementsPduStream, Stream!Spec
=============================================================================
