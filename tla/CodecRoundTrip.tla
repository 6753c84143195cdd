-------------------------- MODULE CodecRoundTrip --------------------------
(***************************************************************************)
(* The second half of the theorems about Codec: decode takes back what     *)
(* encode wrote, and never reads a value from the octets of another when   *)
(* the end of a body is missing.                                           *)
(*                                                                         *)
(* Every parser comes with two facts: on the octets of a value, followed   *)
(* by anything, it returns the value and what follows; on those octets     *)
(* without their end it refuses.                                           *)
(***************************************************************************)
EXTENDS CodecProofs

-----------------------------------------------------------------------------
(* Parsers of octets *)

LEMMA ParsedIs ==
    ASSUME NEW v, NEW r
    PROVE  Parsed(v, r).ok /\ Parsed(v, r).val = v /\ Parsed(v, r).rest = r
  BY DEF Parsed

LEMMA RefusedIs == ~Refused.ok
  BY DEF Refused

LEMMA TakeIs ==
    ASSUME NEW s \in Seq(Nat), NEW r \in Seq(Nat)
    PROVE  take(Cat(s, r), Len(s)) = Parsed(s, r)
  <1>1. SubSeq(Cat(s, r), 1, Len(s)) = s /\ Skip(Cat(s, r), Len(s)) = r
    BY CatSplit, Zenon
  <1>2. PICK c : c = Cat(s, r)
    OBVIOUS
  <1>3. c \in Seq(Nat) /\ Len(c) = Len(s) + Len(r)
    BY <1>2, CatLen, Zenon
  <1>4. ~(Len(c) < Len(s))
    BY <1>3
  <1> QED
    BY <1>1, <1>2, <1>4, Zenon DEF take

LEMMA TakeShort ==
    ASSUME NEW b, NEW n, Len(b) < n
    PROVE  take(b, n) = Refused
  BY Zenon DEF take

LEMMA U8Is ==
    ASSUME NEW a \in Nat, NEW r \in Seq(Nat)
    PROVE  be_u8(Cat(One(a), r)) = Parsed(a, r)
  <1>1. PICK o : o = One(a)
    OBVIOUS
  <1>2. o \in Seq(Nat) /\ Len(o) = 1 /\ o[1] = a
    BY <1>1, OneIs, Zenon
  <1>3. PICK c : c = Cat(o, r)
    OBVIOUS
  <1>4. /\ c \in Seq(Nat) /\ Len(c) = 1 + Len(r)
        /\ \A i \in 1 .. 1 : c[i] = o[i]
        /\ \A i \in 1 .. Len(r) : c[1 + i] = r[i]
    <2>1. /\ Cat(o, r) \in Seq(Nat) /\ Len(Cat(o, r)) = Len(o) + Len(r)
          /\ \A i \in 1 .. Len(o) : Cat(o, r)[i] = o[i]
          /\ \A i \in 1 .. Len(r) : Cat(o, r)[Len(o) + i] = r[i]
      BY <1>2, CatIs, Zenon
    <2> QED
      BY <1>2, <1>3, <2>1, Zenon
  <1>5. c # <<>> /\ c[1] = a
    BY <1>2, <1>4
  <1>6. Tail(c) = r
    <2>1. Tail(c) \in Seq(Nat) /\ Len(Tail(c)) = Len(r)
      BY <1>4, <1>5
    <2>2. \A i \in 1 .. Len(r) : Tail(c)[i] = r[i]
      BY <1>4, <1>5
    <2> QED
      BY <2>1, <2>2, SeqEqual
  <1> QED
    BY <1>1, <1>3, <1>5, <1>6, Zenon DEF be_u8

LEMMA U8Refuses == be_u8(<<>>) = Refused
  BY DEF be_u8

\* Where a value is first found in a sequence.
FirstOf(b, e) == SelectInSeq(b, LAMBDA x : x = e)

LEMMA FirstOfIs ==
    ASSUME NEW b, Len(b) \in Nat, NEW e
    PROVE  /\ (\A i \in 1 .. Len(b) : b[i] # e) => FirstOf(b, e) = 0
           /\ \A k \in 1 .. Len(b) :
                b[k] = e => /\ FirstOf(b, e) \in 1 .. Len(b) /\ b[FirstOf(b, e)] = e
                            /\ (\A i \in 1 .. k - 1 : b[i] # e) => FirstOf(b, e) = k
  <1> DEFINE I == {i \in 1 .. Len(b) : b[i] = e}
  <1>1. FirstOf(b, e) = IF I # {} THEN Min(I) ELSE 0
    BY Zenon DEF FirstOf, SelectInSeq
  <1>2. Min(I) = CHOOSE x \in I : \A y \in I : x <= y
    BY Zenon DEF Min
  <1>3. ASSUME NEW k \in 1 .. Len(b), b[k] = e
        PROVE  /\ FirstOf(b, e) \in 1 .. Len(b) /\ b[FirstOf(b, e)] = e
               /\ (\A i \in 1 .. k - 1 : b[i] # e) => FirstOf(b, e) = k
    <2>1. k \in I /\ I \in SUBSET Nat
      BY <1>3
    <2>2. \E x \in I : \A y \in I : x <= y
      <3> HIDE DEF I
      <3> QED
        BY <2>1, LeastOf
    <2>3. Min(I) \in I /\ \A y \in I : Min(I) <= y
      <3> HIDE DEF I
      <3> QED
        BY <1>2, <2>2, Zenon
    <2>4. FirstOf(b, e) = Min(I)
      BY <1>1, <2>1
    <2>5. PICK m \in 1 .. Len(b) : m = Min(I) /\ b[m] = e
      BY <2>3
    <2>6. ASSUME \A i \in 1 .. k - 1 : b[i] # e PROVE m = k
      <3>1. m <= k
        BY <2>1, <2>3, <2>5
      <3>2. ~(m \in 1 .. k - 1)
        BY <2>5, <2>6
      <3> QED
        BY <3>1, <3>2
    <2> QED
      BY <2>4, <2>5, <2>6
  <1>4. ASSUME \A i \in 1 .. Len(b) : b[i] # e PROVE FirstOf(b, e) = 0
    <2>1. I = {}
      BY <1>4
    <2> QED
      BY <1>1, <2>1
  <1> QED
    BY <1>3, <1>4

LEMMA CStringBy ==
    ASSUME NEW b
    PROVE  /\ FirstOf(b, 0) = 0 => parse_c_octet_string(b) = Refused
           /\ FirstOf(b, 0) # 0 =>
                parse_c_octet_string(b) = Parsed(SubSeq(b, 1, FirstOf(b, 0) - 1), Skip(b, FirstOf(b, 0)))
  BY Zenon DEF parse_c_octet_string, FirstOf

\* A string ends at its NUL.
LEMMA CStringIs ==
    ASSUME NEW s \in Seq(Nat), ~Contains(s, 0), NEW r \in Seq(Nat)
    PROVE  parse_c_octet_string(Cat(Cat(s, One(0)), r)) = Parsed(s, r)
  <1>1. PICK z : z = One(0)
    OBVIOUS
  <1>2. z \in Seq(Nat) /\ Len(z) = 1 /\ z[1] = 0
    BY <1>1 DEF One
  <1>3. PICK n \in Nat : n = Len(s)
    OBVIOUS
  <1>4. PICK t : t = Cat(s, z)
    OBVIOUS
  <1>5. /\ t \in Seq(Nat) /\ Len(t) = n + 1 /\ \A i \in 1 .. n : t[i] = s[i]
        /\ \A i \in 1 .. 1 : t[n + i] = z[i]
    <2>1. /\ Cat(s, z) \in Seq(Nat) /\ Len(Cat(s, z)) = Len(s) + Len(z)
          /\ \A i \in 1 .. Len(s) : Cat(s, z)[i] = s[i]
          /\ \A i \in 1 .. Len(z) : Cat(s, z)[Len(s) + i] = z[i]
      BY <1>2, CatIs, Zenon
    <2> QED
      BY <1>2, <1>3, <1>4, <2>1, Zenon
  <1>6. PICK c : c = Cat(t, r)
    OBVIOUS
  <1>7. /\ c \in Seq(Nat) /\ Len(c) = Len(t) + Len(r) /\ \A i \in 1 .. Len(t) : c[i] = t[i]
    BY <1>5, <1>6, CatIs, Zenon
  <1>8. PICK k \in 1 .. Len(c) : k = n + 1 /\ k = Len(t)
    BY <1>5, <1>7
  <1>9. c[k] = 0 /\ \A i \in 1 .. k - 1 : c[i] = s[i] /\ s[i] # 0
    <2>1. \A i \in 1 .. n : s[i] # 0
      BY <1>3, Zenon DEF Contains
    <2>2. c[k] = t[n + 1] /\ t[n + 1] = z[1]
      BY <1>5, <1>7, <1>8
    <2> QED
      BY <1>2, <1>5, <1>7, <1>8, <2>1, <2>2
  <1>10. FirstOf(c, 0) = k
    <2>1. Len(c) \in Nat
      BY <1>7
    <2> QED
      BY <1>9, <2>1, FirstOfIs, SMTT(40)
  <1>11. Skip(c, k) = r
    BY <1>5, <1>6, <1>8, CatSplit, Zenon
  <1>12. SubSeq(c, 1, k - 1) = s
    <2>1. SubSeq(t, 1, n) = s
      BY <1>2, <1>3, <1>4, CatSplit, Zenon
    <2>2. k - 1 = n /\ \A i \in 1 .. n : c[i] = t[i]
      BY <1>5, <1>7, <1>8
    <2>3. SubSeq(c, 1, n) \in Seq(Nat) /\ Len(SubSeq(c, 1, n)) = n
          /\ \A i \in 1 .. n : SubSeq(c, 1, n)[i] = c[i]
      BY <1>5, <1>7, SMTT(40)
    <2>4. SubSeq(c, 1, n) = s
      BY <1>3, <1>5, <2>2, <2>3, SeqEqual
    <2> QED
      BY <2>2, <2>4
  <1>13. k # 0
    BY <1>8
  <1> QED
    BY <1>1, <1>4, <1>6, <1>10, <1>11, <1>12, <1>13, CStringBy, Zenon

\* Without its NUL a string is refused.
LEMMA CStringRefuses ==
    ASSUME NEW s \in Seq(Nat), ~Contains(s, 0), NEW k \in 1 .. Len(s) + 1
    PROVE  parse_c_octet_string(Chop(Cat(s, One(0)), k)) = Refused
  <1>1. PICK z : z = One(0)
    OBVIOUS
  <1>2. z \in Seq(Nat) /\ Len(z) = 1
    BY <1>1, Constants, Zenon
  <1>3. PICK l \in 0 .. Len(s) : l = k - Len(z) /\ Chop(Cat(s, z), k) = Chop(s, l)
    <2>1. k \in Nat /\ Len(z) <= k /\ k <= Len(s) + Len(z)
      BY <1>2
    <2>2. k - Len(z) \in 0 .. Len(s) /\ Chop(Cat(s, z), k) = Chop(s, k - Len(z))
      BY <1>2, <2>1, ChopFirst
    <2> QED
      BY <2>2, Zenon
  <1>4. PICK c : c = Chop(s, l)
    OBVIOUS
  <1>5. c \in Seq(Nat) /\ Len(c) = Len(s) - l /\ \A i \in 1 .. Len(s) - l : c[i] = s[i]
    BY <1>4, ChopIs, Zenon
  <1>6. \A i \in 1 .. Len(s) : s[i] # 0
    BY Zenon DEF Contains
  <1>7. \A i \in 1 .. Len(c) : c[i] # 0
    BY <1>5, <1>6, SMTT(40)
  <1>8. FirstOf(c, 0) = 0
    <2>1. Len(c) \in Nat
      BY <1>5
    <2> QED
      BY <1>7, <2>1, FirstOfIs
  <1> QED
    BY <1>1, <1>3, <1>4, <1>8, CStringBy, Zenon
-----------------------------------------------------------------------------
(* Parsers of the entries of lists, and of TLVs *)

LEMMA TwoCat ==
    ASSUME NEW a \in Nat, NEW b \in Nat, NEW x \in Seq(Nat)
    PROVE  Cat(Two(a, b), x) = Cat(One(a), Cat(One(b), x))
  <1>1. One(a) \in Seq(Nat) /\ One(b) \in Seq(Nat) /\ Len(One(a)) = 1 /\ Len(One(b)) = 1
        /\ One(a)[1] = a /\ One(b)[1] = b
    BY OneIs
  <1>2. PICK c : c = Cat(One(a), One(b))
    OBVIOUS
  <1>3. /\ c \in Seq(Nat) /\ Len(c) = 1 + 1 /\ \A i \in 1 .. 1 : c[i] = One(a)[i]
        /\ \A i \in 1 .. 1 : c[1 + i] = One(b)[i]
    <2>1. /\ Cat(One(a), One(b)) \in Seq(Nat) /\ Len(Cat(One(a), One(b))) = Len(One(a)) + Len(One(b))
          /\ \A i \in 1 .. Len(One(a)) : Cat(One(a), One(b))[i] = One(a)[i]
          /\ \A i \in 1 .. Len(One(b)) : Cat(One(a), One(b))[Len(One(a)) + i] = One(b)[i]
      BY <1>1, CatIs, Zenon
    <2> QED
      BY <1>1, <1>2, <2>1, Zenon
  <1>4. c = Two(a, b)
    <2>1. Len(c) = 2 /\ c[1] = a /\ c[2] = b
      BY <1>1, <1>3
    <2>2. PICK t : t = Two(a, b)
      OBVIOUS
    <2>3. t \in Seq(Nat) /\ Len(t) = 2 /\ t[1] = a /\ t[2] = b
      BY <2>2, TwoIs, Zenon
    <2>4. \A i \in 1 .. 2 : c[i] = t[i]
      BY <2>1, <2>3
    <2>5. c = t
      BY <1>3, <2>1, <2>3, <2>4, SeqEqual
    <2> QED
      BY <2>2, <2>5
  <1>5. Cat(Cat(One(a), One(b)), x) = Cat(One(a), Cat(One(b), x))
    BY <1>1, CatAssoc, Zenon
  <1> QED
    BY <1>2, <1>4, <1>5, Zenon

LEMMA ThreeCat ==
    ASSUME NEW a \in Nat, NEW b \in Nat, NEW c \in Nat, NEW x \in Seq(Nat)
    PROVE  Cat(Three(a, b, c), x) = Cat(One(a), Cat(Two(b, c), x))
  <1>1. /\ One(a) \in Seq(Nat) /\ Len(One(a)) = 1 /\ One(a)[1] = a
        /\ Two(b, c) \in Seq(Nat) /\ Len(Two(b, c)) = 2 /\ Two(b, c)[1] = b /\ Two(b, c)[2] = c
    BY OneIs, TwoIs, Zenon
  <1>2. PICK d : d = Cat(One(a), Two(b, c))
    OBVIOUS
  <1>3. /\ d \in Seq(Nat) /\ Len(d) = 1 + 2 /\ \A i \in 1 .. 1 : d[i] = One(a)[i]
        /\ \A i \in 1 .. 2 : d[1 + i] = Two(b, c)[i]
    <2>1. /\ Cat(One(a), Two(b, c)) \in Seq(Nat)
          /\ Len(Cat(One(a), Two(b, c))) = Len(One(a)) + Len(Two(b, c))
          /\ \A i \in 1 .. Len(One(a)) : Cat(One(a), Two(b, c))[i] = One(a)[i]
          /\ \A i \in 1 .. Len(Two(b, c)) : Cat(One(a), Two(b, c))[Len(One(a)) + i] = Two(b, c)[i]
      BY <1>1, CatIs, Zenon
    <2> QED
      BY <1>1, <1>2, <2>1, Zenon
  <1>4. d = Three(a, b, c)
    <2>1. Len(d) = 3 /\ d[1] = a /\ d[2] = b /\ d[3] = c
      BY <1>1, <1>3
    <2>2. PICK t : t = Three(a, b, c)
      OBVIOUS
    <2>3. t \in Seq(Nat) /\ Len(t) = 3 /\ t[1] = a /\ t[2] = b /\ t[3] = c
      BY <2>2 DEF Three
    <2>4. \A i \in 1 .. 3 : d[i] = t[i]
      BY <2>1, <2>3
    <2>5. d = t
      BY <1>3, <2>1, <2>3, <2>4, SeqEqual
    <2> QED
      BY <2>2, <2>5
  <1>5. Cat(Cat(One(a), Two(b, c)), x) = Cat(One(a), Cat(Two(b, c), x))
    BY <1>1, CatAssoc, Zenon
  <1> QED
    BY <1>2, <1>4, <1>5, Zenon

\* A cut leaves nothing, or the first octet and a part of the others.
LEMMA ChopOne ==
    ASSUME NEW a \in Nat, NEW s \in Seq(Nat), NEW k \in 1 .. Len(s) + 1
    PROVE  \/ k = Len(s) + 1 /\ Chop(Cat(One(a), s), k) = <<>>
           \/ k \in 1 .. Len(s) /\ Chop(Cat(One(a), s), k) = Cat(One(a), Chop(s, k))
  <1>1. One(a) \in Seq(Nat) /\ Len(One(a)) = 1
    BY OneIs
  <1>2. CASE k = Len(s) + 1
    <2>1. PICK c : c = Cat(One(a), s)
      OBVIOUS
    <2>2. c \in Seq(Nat) /\ Len(c) = 1 + Len(s)
      BY <1>1, <2>1, CatLen, Zenon
    <2>3. k \in 0 .. Len(c) /\ Len(c) - k = 0
      BY <1>2, <2>2
    <2>4. Chop(c, k) \in Seq(Nat) /\ Len(Chop(c, k)) = 0
      BY <2>2, <2>3, ChopIs
    <2>5. Chop(c, k) = <<>>
      BY <2>4, EmptySeq
    <2> QED
      BY <1>2, <2>1, <2>5, Zenon
  <1>3. CASE k # Len(s) + 1
    <2>1. k \in 1 .. Len(s) /\ k \in 0 .. Len(s)
      BY <1>3
    <2>2. Chop(Cat(One(a), s), k) = Cat(One(a), Chop(s, k))
      BY <1>1, <2>1, ChopSecond, Zenon
    <2> QED
      BY <2>1, <2>2
  <1> QED
    BY <1>2, <1>3

LEMMA StringLen ==
    ASSUME NEW s \in Seq(Nat)
    PROVE  Cat(s, One(0)) \in Seq(Nat) /\ Len(Cat(s, One(0))) = Len(s) + 1
  BY Constants, CatLen, Zenon

LEMMA TonNpiAddrBy ==
    ASSUME NEW b, NEW ton, ton = be_u8(b), NEW npi, npi = be_u8(ton.rest),
           NEW addr, addr = parse_c_octet_string(npi.rest)
    PROVE  TonNpiAddr(b) = IF ~ton.ok \/ ~npi.ok \/ ~addr.ok THEN Refused
                           ELSE Parsed(<<ton.val, npi.val, addr.val>>, addr.rest)
  BY Zenon DEF TonNpiAddr

LEMMA TonReads ==
    ASSUME NEW b, NEW a, NEW x, be_u8(b) = Parsed(a, x), NEW n, NEW y, be_u8(x) = Parsed(n, y),
           NEW s, NEW z, parse_c_octet_string(y) = Parsed(s, z)
    PROVE  TonNpiAddr(b) = Parsed(<<a, n, s>>, z)
  <1>1. PICK t : t = be_u8(b)
    OBVIOUS
  <1>2. t.ok /\ t.val = a /\ t.rest = x
    BY <1>1 DEF Parsed
  <1>3. PICK u : u = be_u8(t.rest)
    OBVIOUS
  <1>4. u.ok /\ u.val = n /\ u.rest = y
    BY <1>2, <1>3 DEF Parsed
  <1>5. PICK v : v = parse_c_octet_string(u.rest)
    OBVIOUS
  <1>6. v.ok /\ v.val = s /\ v.rest = z
    BY <1>4, <1>5 DEF Parsed
  <1>7. TonNpiAddr(b) = IF ~t.ok \/ ~u.ok \/ ~v.ok THEN Refused
                        ELSE Parsed(<<t.val, u.val, v.val>>, v.rest)
    BY <1>1, <1>3, <1>5, TonNpiAddrBy
  <1>8. TonNpiAddr(b) = Parsed(<<t.val, u.val, v.val>>, v.rest)
    BY <1>2, <1>4, <1>6, <1>7, Zenon
  <1> QED
    BY <1>2, <1>4, <1>6, <1>8, Zenon

LEMMA TonStops ==
    ASSUME NEW b, NEW a, NEW x, be_u8(b) = Parsed(a, x),
           \/ be_u8(x) = Refused
           \/ \E n, y : be_u8(x) = Parsed(n, y) /\ parse_c_octet_string(y) = Refused
    PROVE  TonNpiAddr(b) = Refused
  <1>1. PICK t : t = be_u8(b)
    OBVIOUS
  <1>2. t.rest = x
    BY <1>1 DEF Parsed
  <1>3. PICK u : u = be_u8(t.rest)
    OBVIOUS
  <1>4. PICK v : v = parse_c_octet_string(u.rest)
    OBVIOUS
  <1>5. ~u.ok \/ ~v.ok
    <2>1. CASE be_u8(x) = Refused
      BY <1>2, <1>3, <2>1, RefusedIs, Zenon
    <2>2. ASSUME NEW n, NEW y, be_u8(x) = Parsed(n, y), parse_c_octet_string(y) = Refused
          PROVE  ~v.ok
      <3>1. u.rest = y
        BY <1>2, <1>3, <2>2 DEF Parsed
      <3> QED
        BY <1>4, <2>2, <3>1, RefusedIs, Zenon
    <2> QED
      BY <2>1, <2>2
  <1>6. TonNpiAddr(b) = IF ~t.ok \/ ~u.ok \/ ~v.ok THEN Refused
                        ELSE Parsed(<<t.val, u.val, v.val>>, v.rest)
    BY <1>1, <1>3, <1>4, TonNpiAddrBy
  <1> QED
    BY <1>5, <1>6, Zenon

LEMMA TonEmpty == TonNpiAddr(<<>>) = Refused
  <1>1. PICK t : t = be_u8(<<>>)
    OBVIOUS
  <1>2. ~t.ok
    BY <1>1, U8Refuses, RefusedIs, Zenon
  <1>3. PICK u : u = be_u8(t.rest)
    OBVIOUS
  <1>4. PICK v : v = parse_c_octet_string(u.rest)
    OBVIOUS
  <1>5. TonNpiAddr(<<>>) = IF ~t.ok \/ ~u.ok \/ ~v.ok THEN Refused
                           ELSE Parsed(<<t.val, u.val, v.val>>, v.rest)
    BY <1>1, <1>3, <1>4, TonNpiAddrBy, Zenon
  <1> QED
    BY <1>2, <1>5, Zenon

LEMMA TonIs ==
    ASSUME NEW ton \in Nat, NEW npi \in Nat, NEW s \in Seq(Nat), ~Contains(s, 0), NEW r \in Seq(Nat)
    PROVE  TonNpiAddr(Cat(Two(ton, npi), Cat(Cat(s, One(0)), r))) = Parsed(<<ton, npi, s>>, r)
  <1>1. PICK x : x = Cat(Cat(s, One(0)), r)
    OBVIOUS
  <1>2. x \in Seq(Nat)
    BY <1>1, StringLen, CatLen, Zenon
  <1>3. Cat(One(npi), x) \in Seq(Nat)
    BY <1>2, OneIs, CatLen, Zenon
  <1>4. Cat(Two(ton, npi), x) = Cat(One(ton), Cat(One(npi), x))
    BY <1>2, TwoCat, Zenon
  <1>5. be_u8(Cat(Two(ton, npi), x)) = Parsed(ton, Cat(One(npi), x))
    BY <1>3, <1>4, U8Is, Zenon
  <1>6. be_u8(Cat(One(npi), x)) = Parsed(npi, x)
    BY <1>2, U8Is, Zenon
  <1>7. parse_c_octet_string(x) = Parsed(s, r)
    BY <1>1, CStringIs, Zenon
  <1> QED
    BY <1>1, <1>5, <1>6, <1>7, TonReads

LEMMA TonRefuses ==
    ASSUME NEW ton \in Nat, NEW npi \in Nat, NEW s \in Seq(Nat), ~Contains(s, 0),
           NEW k \in 1 .. Len(s) + 3
    PROVE  TonNpiAddr(Chop(Cat(Two(ton, npi), Cat(s, One(0))), k)) = Refused
  <1>1. PICK x : x = Cat(s, One(0))
    OBVIOUS
  <1>2. x \in Seq(Nat) /\ Len(x) = Len(s) + 1
    BY <1>1, StringLen, Zenon
  <1>3. PICK y : y = Cat(One(npi), x)
    OBVIOUS
  <1>4. y \in Seq(Nat) /\ Len(y) = 1 + Len(x)
    <2>1. One(npi) \in Seq(Nat) /\ Len(One(npi)) = 1
      BY OneIs
    <2> QED
      BY <1>2, <1>3, <2>1, CatLen, Zenon
  <1>5. Cat(Two(ton, npi), x) = Cat(One(ton), y)
    BY <1>2, <1>3, TwoCat, Zenon
  <1>6. k \in 1 .. Len(y) + 1
    BY <1>2, <1>4
  <1>7. CASE k = Len(y) + 1 /\ Chop(Cat(One(ton), y), k) = <<>>
    BY <1>1, <1>5, <1>7, TonEmpty, Zenon
  <1>8. CASE k \in 1 .. Len(y) /\ Chop(Cat(One(ton), y), k) = Cat(One(ton), Chop(y, k))
    <2>1. k \in 1 .. Len(x) + 1 /\ k \in 0 .. Len(y)
      BY <1>2, <1>4, <1>8
    <2>2. Chop(y, k) \in Seq(Nat)
      BY <1>4, <2>1, ChopIs, Zenon
    <2>3. be_u8(Cat(One(ton), Chop(y, k))) = Parsed(ton, Chop(y, k))
      BY <2>2, U8Is, Zenon
    <2>4. CASE k = Len(x) + 1 /\ Chop(y, k) = <<>>
      <3>1. be_u8(Chop(y, k)) = Refused
        BY <2>4, U8Refuses, Zenon
      <3> QED
        BY <1>1, <1>5, <1>8, <2>3, <3>1, TonStops, Zenon
    <2>5. CASE k \in 1 .. Len(x) /\ Chop(y, k) = Cat(One(npi), Chop(x, k))
      <3>1. k \in 1 .. Len(s) + 1 /\ k \in 0 .. Len(x)
        BY <1>2, <2>5
      <3>2. Chop(x, k) \in Seq(Nat)
        BY <1>2, <3>1, ChopIs, Zenon
      <3>3. be_u8(Chop(y, k)) = Parsed(npi, Chop(x, k))
        BY <2>5, <3>2, U8Is, Zenon
      <3>4. parse_c_octet_string(Chop(x, k)) = Refused
        BY <1>1, <3>1, CStringRefuses, Zenon
      <3> QED
        BY <1>1, <1>5, <1>8, <2>3, <3>3, <3>4, TonStops, Zenon
    <2> QED
      BY <1>2, <1>3, <2>1, <2>4, <2>5, ChopOne, Zenon
  <1> QED
    BY <1>4, <1>6, <1>7, <1>8, ChopOne, Zenon
LEMMA DestBy ==
    ASSUME NEW b, NEW a, NEW x, be_u8(b) = Parsed(a, x),
           NEW name, name = parse_c_octet_string(x), NEW sme, sme = TonNpiAddr(x)
    PROVE  parse_dest_address(b)
             = IF a = 2
                 THEN IF ~name.ok THEN Refused
                      ELSE Parsed([dl |-> TRUE, ton |-> 0, npi |-> 0, addr |-> name.val], name.rest)
                 ELSE IF ~sme.ok THEN Refused
                      ELSE Parsed([dl |-> FALSE, ton |-> sme.val[1], npi |-> sme.val[2],
                                   addr |-> sme.val[3]], sme.rest)
  <1>1. PICK flag : flag = be_u8(b)
    OBVIOUS
  <1>2. flag.ok /\ flag.val = a /\ flag.rest = x
    BY <1>1 DEF Parsed
  <1>3. parse_dest_address(b)
          = IF ~flag.ok THEN Refused
            ELSE IF flag.val = 2
              THEN IF ~name.ok THEN Refused
                   ELSE Parsed([dl |-> TRUE, ton |-> 0, npi |-> 0, addr |-> name.val], name.rest)
              ELSE IF ~sme.ok THEN Refused
                   ELSE Parsed([dl |-> FALSE, ton |-> sme.val[1], npi |-> sme.val[2],
                                addr |-> sme.val[3]], sme.rest)
    <2>1. name = parse_c_octet_string(flag.rest) /\ sme = TonNpiAddr(flag.rest)
      BY <1>2, Zenon
    <2> HIDE <1>2
    <2> QED
      BY <1>1, <2>1, Zenon DEF parse_dest_address
  <1> QED
    BY <1>2, <1>3, Zenon

\* The entry of a list, and its address.
LEMMA DestTyped ==
    ASSUME NEW d \in Destinations
    PROVE  /\ d.dl \in BOOLEAN
           /\ d.dl => d = [dl |-> TRUE, ton |-> 0, npi |-> 0, addr |-> d.addr]
           /\ ~d.dl => d = [dl |-> FALSE, ton |-> d.ton, npi |-> d.npi, addr |-> d.addr]
  BY DEF Destinations

LEMMA DestIs ==
    ASSUME NEW d \in Destinations, ~Contains(d.addr, 0), NEW r \in Seq(Nat)
    PROVE  parse_dest_address(Cat(DestOctets(d), r)) = Parsed(d, r)
  <1>1. PICK s : s = d.addr
    OBVIOUS
  <1>2. /\ DestOctets(d) = Cat(IF d.dl THEN One(2) ELSE Three(1, d.ton, d.npi), Cat(s, One(0)))
        /\ s \in Seq(Nat) /\ d.ton \in Nat /\ d.npi \in Nat /\ ~Contains(s, 0)
    BY <1>1, DestOctetsLen, Zenon
  <1>3. PICK x : x = Cat(s, One(0))
    OBVIOUS
  <1>4. x \in Seq(Nat)
    BY <1>2, <1>3, StringLen, Zenon
  <1>5. PICK y : y = Cat(x, r)
    OBVIOUS
  <1>6. y \in Seq(Nat)
    BY <1>4, <1>5, CatLen, Zenon
  <1>7. PICK b : b = Cat(DestOctets(d), r)
    OBVIOUS
  <1>8. CASE d.dl
    <2>1. b = Cat(Cat(One(2), x), r)
      BY <1>2, <1>3, <1>7, <1>8, Zenon
    <2>2. b = Cat(One(2), y)
      BY <1>4, <1>5, <2>1, Constants, CatAssoc, Zenon
    <2>3. be_u8(b) = Parsed(2, y)
      BY <1>6, <2>2, Constants, U8Is, Zenon
    <2>4. PICK name : name = parse_c_octet_string(y)
      OBVIOUS
    <2>5. PICK sme : sme = TonNpiAddr(y)
      OBVIOUS
    <2>6. name = Parsed(s, r)
      BY <1>2, <1>3, <1>5, <2>4, CStringIs, Zenon
    <2>7. name.ok /\ name.val = s /\ name.rest = r
      BY <2>6 DEF Parsed
    <2>8. parse_dest_address(b)
            = IF 2 = 2
                THEN IF ~name.ok THEN Refused
                     ELSE Parsed([dl |-> TRUE, ton |-> 0, npi |-> 0, addr |-> name.val], name.rest)
                ELSE IF ~sme.ok THEN Refused
                     ELSE Parsed([dl |-> FALSE, ton |-> sme.val[1], npi |-> sme.val[2],
                                  addr |-> sme.val[3]], sme.rest)
      BY <2>3, <2>4, <2>5, DestBy
    <2>9. parse_dest_address(b) = Parsed([dl |-> TRUE, ton |-> 0, npi |-> 0, addr |-> name.val], name.rest)
      BY <2>7, <2>8, Zenon
    <2>10. d = [dl |-> TRUE, ton |-> 0, npi |-> 0, addr |-> s]
      BY <1>1, <1>8, DestTyped, Zenon
    <2> QED
      BY <1>7, <2>7, <2>9, <2>10, Zenon
  <1>9. CASE ~d.dl
    <2>1. b = Cat(Cat(Three(1, d.ton, d.npi), x), r)
      BY <1>2, <1>3, <1>7, <1>9, Zenon
    <2>2. Three(1, d.ton, d.npi) \in Seq(Nat) /\ Two(d.ton, d.npi) \in Seq(Nat) /\ 1 \in Nat
      BY <1>2 DEF Three, Two
    <2>3. b = Cat(Three(1, d.ton, d.npi), y)
      BY <1>4, <1>5, <2>1, <2>2, CatAssoc, Zenon
    <2>4. b = Cat(One(1), Cat(Two(d.ton, d.npi), y))
      BY <1>2, <1>6, <2>2, <2>3, ThreeCat, ZenonT(40)
    <2>5. PICK z : z = Cat(Two(d.ton, d.npi), y)
      OBVIOUS
    <2>6. z \in Seq(Nat)
      BY <1>6, <2>2, <2>5, CatLen, Zenon
    <2>0. PICK a \in Nat : a = 1 /\ a # 2
      OBVIOUS
    <2>7. be_u8(b) = Parsed(a, z)
      BY <2>0, <2>2, <2>4, <2>5, <2>6, U8Is, Zenon
    <2>8. PICK name : name = parse_c_octet_string(z)
      OBVIOUS
    <2>9. PICK sme : sme = TonNpiAddr(z)
      OBVIOUS
    <2>10. sme = Parsed(<<d.ton, d.npi, s>>, r)
      BY <1>2, <1>3, <1>5, <2>5, <2>9, TonIs, Zenon
    <2>11. sme.ok /\ sme.val[1] = d.ton /\ sme.val[2] = d.npi /\ sme.val[3] = s /\ sme.rest = r
      BY <2>10 DEF Parsed
    <2>12. parse_dest_address(b)
             = IF a = 2
                 THEN IF ~name.ok THEN Refused
                      ELSE Parsed([dl |-> TRUE, ton |-> 0, npi |-> 0, addr |-> name.val], name.rest)
                 ELSE IF ~sme.ok THEN Refused
                      ELSE Parsed([dl |-> FALSE, ton |-> sme.val[1], npi |-> sme.val[2],
                                   addr |-> sme.val[3]], sme.rest)
      BY <2>7, <2>8, <2>9, DestBy
    <2>14. parse_dest_address(b) = Parsed([dl |-> FALSE, ton |-> sme.val[1], npi |-> sme.val[2],
                                           addr |-> sme.val[3]], sme.rest)
      BY <2>0, <2>11, <2>12, Zenon
    <2>15. d = [dl |-> FALSE, ton |-> d.ton, npi |-> d.npi, addr |-> s]
      BY <1>1, <1>9, DestTyped, Zenon
    <2>16. parse_dest_address(b) = Parsed([dl |-> FALSE, ton |-> d.ton, npi |-> d.npi, addr |-> s], r)
      BY <2>11, <2>14
    <2> QED
      BY <1>7, <2>15, <2>16, Zenon
  <1> QED
    BY <1>8, <1>9

LEMMA DestRefuses ==
    ASSUME NEW d \in Destinations, ~Contains(d.addr, 0), NEW k \in 1 .. Len(DestOctets(d))
    PROVE  parse_dest_address(Chop(DestOctets(d), k)) = Refused
  <1>1. PICK s : s = d.addr
    OBVIOUS
  <1>2. /\ DestOctets(d) = Cat(IF d.dl THEN One(2) ELSE Three(1, d.ton, d.npi), Cat(s, One(0)))
        /\ s \in Seq(Nat) /\ d.ton \in Nat /\ d.npi \in Nat /\ ~Contains(s, 0)
    BY <1>1, DestOctetsLen, Zenon
  <1>3. PICK x : x = Cat(s, One(0))
    OBVIOUS
  <1>4. x \in Seq(Nat) /\ Len(x) = Len(s) + 1
    BY <1>2, <1>3, StringLen, Zenon
  <1>5. parse_dest_address(<<>>) = Refused
    <2>1. PICK flag : flag = be_u8(<<>>)
      OBVIOUS
    <2>2. ~flag.ok
      BY <2>1, U8Refuses, RefusedIs, Zenon
    <2> QED
      BY <2>1, <2>2, Zenon DEF parse_dest_address
  <1>6. ASSUME NEW a \in Nat, NEW y \in Seq(Nat), DestOctets(d) = Cat(One(a), y),
               \A c : c = parse_c_octet_string(Chop(y, k)) /\ k \in 1 .. Len(y) /\ a = 2 => ~c.ok,
               \A c : c = TonNpiAddr(Chop(y, k)) /\ k \in 1 .. Len(y) /\ a # 2 => ~c.ok
        PROVE  parse_dest_address(Chop(DestOctets(d), k)) = Refused
    <2>1. One(a) \in Seq(Nat) /\ Len(One(a)) = 1
      BY OneIs
    <2>2. Len(DestOctets(d)) = 1 + Len(y)
      BY <1>6, <2>1, CatLen, Zenon
    <2>3. k \in 1 .. Len(y) + 1
      BY <2>2
    <2>4. CASE k = Len(y) + 1 /\ Chop(Cat(One(a), y), k) = <<>>
      BY <1>5, <1>6, <2>4, Zenon
    <2>5. CASE k \in 1 .. Len(y) /\ Chop(Cat(One(a), y), k) = Cat(One(a), Chop(y, k))
      <3>1. k \in 0 .. Len(y)
        BY <2>5
      <3>2. PICK z : z = Chop(y, k)
        OBVIOUS
      <3>3. z \in Seq(Nat)
        BY <3>1, <3>2, ChopIs, Zenon
      <3>4. PICK b : b = Cat(One(a), z)
        OBVIOUS
      <3>5. be_u8(b) = Parsed(a, z)
        BY <3>3, <3>4, U8Is, Zenon
      <3>6. PICK name : name = parse_c_octet_string(z)
        OBVIOUS
      <3>7. PICK sme : sme = TonNpiAddr(z)
        OBVIOUS
      <3>8. (a = 2 => ~name.ok) /\ (a # 2 => ~sme.ok)
        BY <1>6, <2>5, <3>2, <3>6, <3>7, Zenon
      <3>9. parse_dest_address(b) = Refused
        <4>1. parse_dest_address(b)
                = IF a = 2
                    THEN IF ~name.ok THEN Refused
                         ELSE Parsed([dl |-> TRUE, ton |-> 0, npi |-> 0, addr |-> name.val], name.rest)
                    ELSE IF ~sme.ok THEN Refused
                         ELSE Parsed([dl |-> FALSE, ton |-> sme.val[1], npi |-> sme.val[2],
                                      addr |-> sme.val[3]], sme.rest)
          BY <3>5, <3>6, <3>7, DestBy
        <4> QED
          BY <3>8, <4>1, Zenon
      <3> QED
        BY <1>6, <2>5, <3>2, <3>4, <3>9, Zenon
    <2> QED
      BY <2>3, <2>4, <2>5, ChopOne, Zenon
  <1>7. CASE d.dl
    <2>1. DestOctets(d) = Cat(One(2), x) /\ 2 \in Nat
      BY <1>2, <1>3, <1>7, Constants, Zenon
    <2>2. ASSUME k \in 1 .. Len(x), NEW c, c = parse_c_octet_string(Chop(x, k)) PROVE ~c.ok
      <3>1. k \in 1 .. Len(s) + 1
        BY <1>4, <2>2
      <3>2. c = Refused
        BY <1>2, <1>3, <2>2, <3>1, CStringRefuses, Zenon
      <3> QED
        BY <3>2, RefusedIs, Zenon
    <2> QED
      BY <1>4, <1>6, <2>1, <2>2, Zenon
  <1>8. CASE ~d.dl
    <2>1. DestOctets(d) = Cat(Three(1, d.ton, d.npi), x) /\ 1 \in Nat
      <3>1. DestOctets(d) = Cat(Three(1, d.ton, d.npi), x)
        BY <1>2, <1>3, <1>8, Zenon
      <3> QED
        BY <3>1, Constants, Zenon
    <2>2. PICK y : y = Cat(Two(d.ton, d.npi), x)
      OBVIOUS
    <2>3. DestOctets(d) = Cat(One(1), y)
      BY <1>2, <1>4, <2>1, <2>2, ThreeCat, Zenon
    <2>4. y \in Seq(Nat) /\ Len(y) = 2 + Len(x)
      <3>1. Two(d.ton, d.npi) \in Seq(Nat) /\ Len(Two(d.ton, d.npi)) = 2
        BY <1>2, TwoIs, Zenon
      <3> QED
        BY <1>4, <2>2, <3>1, CatLen, Zenon
    <2>5. ASSUME k \in 1 .. Len(y), NEW c, c = TonNpiAddr(Chop(y, k)) PROVE ~c.ok
      <3>1. k \in 1 .. Len(s) + 3
        BY <1>4, <2>4, <2>5
      <3>2. c = Refused
        BY <1>2, <1>3, <2>2, <2>5, <3>1, TonRefuses, Zenon
      <3> QED
        BY <3>2, RefusedIs, Zenon
    <2>6. 1 # 2
      OBVIOUS
    <2> QED
      BY <1>6, <2>1, <2>3, <2>4, <2>5, <2>6, Zenon
  <1> QED
    BY <1>7, <1>8
LEMMA UnsuccessBy ==
    ASSUME NEW b, NEW sme, sme = TonNpiAddr(b), NEW err, err = take(sme.rest, 4)
    PROVE  parse_unsuccess_sme(b)
             = IF ~sme.ok \/ ~err.ok THEN Refused
               ELSE Parsed([ton |-> sme.val[1], npi |-> sme.val[2], addr |-> sme.val[3],
                            error |-> be_u32(err.val)], err.rest)
  BY Zenon DEF parse_unsuccess_sme

\* The octets of an entry: its address, then its four octets of error status.
LEMMA UnsuccessParts ==
    ASSUME NEW u \in Unsuccessful
    PROVE  /\ UnsuccessOctets(u)
                = Cat(Cat(Two(u.ton, u.npi), Cat(u.addr, One(0))), to_be_bytes(u.error))
           /\ Cat(Two(u.ton, u.npi), Cat(u.addr, One(0))) \in Seq(Nat)
           /\ Len(Cat(Two(u.ton, u.npi), Cat(u.addr, One(0)))) = Len(u.addr) + 3
           /\ u.ton \in Nat /\ u.npi \in Nat /\ u.addr \in Seq(Nat) /\ u.error \in Nat
           /\ u = [ton |-> u.ton, npi |-> u.npi, addr |-> u.addr, error |-> u.error]
  <1>1. /\ UnsuccessOctets(u)
             = Cat(Two(u.ton, u.npi), Cat(u.addr, Cat(One(0), to_be_bytes(u.error))))
        /\ u.addr \in Seq(Nat) /\ u.ton \in Nat /\ u.npi \in Nat /\ u.error \in Nat
    BY UnsuccessOctetsLen, Zenon
  <1>2. PICK s, e, t : s = u.addr /\ e = to_be_bytes(u.error) /\ t = Two(u.ton, u.npi)
    OBVIOUS
  <1>3. s \in Seq(Nat) /\ e \in Seq(Nat) /\ t \in Seq(Nat) /\ Len(t) = 2
    <2>1. e \in Seq(Nat)
      BY <1>1, <1>2, ToBytes
    <2>2. t \in Seq(Nat) /\ Len(t) = 2
      BY <1>1, <1>2, TwoIs
    <2> QED
      BY <1>1, <1>2, <2>1, <2>2
  <1>4. Cat(s, One(0)) \in Seq(Nat) /\ Len(Cat(s, One(0))) = Len(s) + 1
    BY <1>3, StringLen, Zenon
  <1>5. Cat(Cat(s, One(0)), e) = Cat(s, Cat(One(0), e))
    BY <1>3, Constants, CatAssoc, ZenonT(40)
  <1>6. Cat(Cat(t, Cat(s, One(0))), e) = Cat(t, Cat(Cat(s, One(0)), e))
    BY <1>3, <1>4, CatAssoc, Zenon
  <1>7. Cat(t, Cat(s, One(0))) \in Seq(Nat) /\ Len(Cat(t, Cat(s, One(0)))) = 2 + (Len(s) + 1)
    BY <1>3, <1>4, CatLen, ZenonT(40)
  <1>8. 2 + (Len(s) + 1) = Len(s) + 3
    BY <1>3
  <1>9. UnsuccessOctets(u) = Cat(Cat(t, Cat(s, One(0))), e)
    BY <1>1, <1>2, <1>5, <1>6, Zenon
  <1>10. u = [ton |-> u.ton, npi |-> u.npi, addr |-> u.addr, error |-> u.error]
    BY DEF Unsuccessful
  <1> QED
    BY <1>1, <1>2, <1>7, <1>8, <1>9, <1>10, Zenon

LEMMA UnsuccessIs ==
    ASSUME NEW u \in Unsuccessful, ~Contains(u.addr, 0), NEW r \in Seq(Nat)
    PROVE  parse_unsuccess_sme(Cat(UnsuccessOctets(u), r)) = Parsed(u, r)
  <1>1. PICK s, e, t : s = u.addr /\ e = to_be_bytes(u.error) /\ t = Two(u.ton, u.npi)
    OBVIOUS
  <1>2. PICK x : x = Cat(s, One(0))
    OBVIOUS
  <1>3. /\ UnsuccessOctets(u) = Cat(Cat(t, x), e) /\ Cat(t, x) \in Seq(Nat)
        /\ u.ton \in Nat /\ u.npi \in Nat /\ s \in Seq(Nat) /\ u.error \in Nat
    BY <1>1, <1>2, UnsuccessParts, Zenon
  <1>4. /\ e \in Seq(Nat) /\ Len(e) = 4
        /\ e[1] = O1(u.error) /\ e[2] = O2(u.error) /\ e[3] = O3(u.error) /\ e[4] = O4(u.error)
    <2>1. PICK q \in Nat : q = u.error
      BY <1>3
    <2>2. /\ to_be_bytes(q) \in Seq(Nat) /\ Len(to_be_bytes(q)) = 4
          /\ to_be_bytes(q)[1] = O1(q) /\ to_be_bytes(q)[2] = O2(q)
          /\ to_be_bytes(q)[3] = O3(q) /\ to_be_bytes(q)[4] = O4(q)
      BY ToBytes, ZenonT(40)
    <2>3. e = to_be_bytes(q)
      BY <1>1, <2>1, Zenon
    <2> QED
      BY <2>1, <2>2, <2>3, Zenon
  <1>5. x \in Seq(Nat) /\ t \in Seq(Nat)
    <2>1. t \in Seq(Nat)
      BY <1>1, <1>3, TwoIs
    <2> QED
      BY <1>2, <1>3, <2>1, StringLen, Zenon
  <1>6. PICK y : y = Cat(e, r)
    OBVIOUS
  <1>7. y \in Seq(Nat)
    BY <1>4, <1>6, CatLen, Zenon
  <1>8. PICK b : b = Cat(UnsuccessOctets(u), r)
    OBVIOUS
  <1>9. b = Cat(t, Cat(x, y))
    <2>0. PICK h \in Seq(Nat) : h = Cat(t, x)
      BY <1>3, Zenon
    <2>1. b = Cat(h, y)
      <3>1. Cat(Cat(h, e), r) = Cat(h, Cat(e, r))
        BY <1>4, CatAssoc, Zenon
      <3> QED
        BY <1>3, <1>6, <1>8, <2>0, <3>1, Zenon
    <2> QED
      BY <1>5, <1>7, <2>0, <2>1, CatAssoc, ZenonT(40)
  <1>10. PICK sme : sme = TonNpiAddr(b)
    OBVIOUS
  <1>11. sme = Parsed(<<u.ton, u.npi, s>>, y)
    <2>1. ~Contains(s, 0)
      BY <1>1, Zenon
    <2>2. TonNpiAddr(Cat(Two(u.ton, u.npi), Cat(Cat(s, One(0)), y))) = Parsed(<<u.ton, u.npi, s>>, y)
      BY <1>3, <1>7, <2>1, TonIs
    <2> QED
      BY <1>1, <1>2, <1>9, <1>10, <2>2, Zenon
  <1>12. sme.ok /\ sme.val[1] = u.ton /\ sme.val[2] = u.npi /\ sme.val[3] = s /\ sme.rest = y
    BY <1>11 DEF Parsed
  <1>13. PICK err : err = take(sme.rest, 4)
    OBVIOUS
  <1>14. err = Parsed(e, r)
    BY <1>4, <1>6, <1>12, <1>13, TakeIs, Zenon
  <1>15. err.ok /\ err.val = e /\ err.rest = r
    BY <1>14 DEF Parsed
  <1>16. be_u32(err.val) = u.error
    <2>1. PICK n \in Nat : n = u.error
      BY <1>3
    <2>2. be_u32(e) = ((O1(n) * 256 + O2(n)) * 256 + O3(n)) * 256 + O4(n)
      BY <1>4, <2>1, Zenon DEF be_u32
    <2>3. be_u32(e) = n
      BY <2>2, FourOctets
    <2> QED
      BY <1>15, <2>1, <2>3, Zenon
  <1>17. parse_unsuccess_sme(b)
           = IF ~sme.ok \/ ~err.ok THEN Refused
             ELSE Parsed([ton |-> sme.val[1], npi |-> sme.val[2], addr |-> sme.val[3],
                          error |-> be_u32(err.val)], err.rest)
    BY <1>10, <1>13, UnsuccessBy
  <1>18. parse_unsuccess_sme(b)
           = Parsed([ton |-> sme.val[1], npi |-> sme.val[2], addr |-> sme.val[3],
                     error |-> be_u32(err.val)], err.rest)
    BY <1>12, <1>15, <1>17, Zenon
  <1>19. parse_unsuccess_sme(b) = Parsed([ton |-> u.ton, npi |-> u.npi, addr |-> s, error |-> u.error], r)
    BY <1>12, <1>15, <1>16, <1>18, Zenon
  <1> QED
    BY <1>1, <1>8, <1>19, UnsuccessParts, Zenon

LEMMA UnsuccessRefuses ==
    ASSUME NEW u \in Unsuccessful, ~Contains(u.addr, 0), NEW k \in 1 .. Len(UnsuccessOctets(u))
    PROVE  parse_unsuccess_sme(Chop(UnsuccessOctets(u), k)) = Refused
  <1>1. PICK s, e, t : s = u.addr /\ e = to_be_bytes(u.error) /\ t = Two(u.ton, u.npi)
    OBVIOUS
  <1>2. PICK x : x = Cat(s, One(0))
    OBVIOUS
  <1>3. PICK h : h = Cat(t, x)
    OBVIOUS
  <1>4. /\ UnsuccessOctets(u) = Cat(h, e) /\ h \in Seq(Nat) /\ Len(h) = Len(s) + 3
        /\ u.ton \in Nat /\ u.npi \in Nat /\ s \in Seq(Nat) /\ u.error \in Nat
    BY <1>1, <1>2, <1>3, UnsuccessParts, Zenon
  <1>5. e \in Seq(Nat) /\ Len(e) = 4
    BY <1>1, <1>4, ToBytes
  <1>6. x \in Seq(Nat) /\ t \in Seq(Nat)
    <2>1. t \in Seq(Nat)
      BY <1>1, <1>4, TwoIs
    <2> QED
      BY <1>2, <1>4, <2>1, StringLen, Zenon
  <1>7. Len(Cat(h, e)) = Len(h) + 4
    BY <1>4, <1>5, CatLen, ZenonT(40)
  <1>8. PICK b : b = Chop(UnsuccessOctets(u), k)
    OBVIOUS
  <1>9. PICK sme : sme = TonNpiAddr(b)
    OBVIOUS
  <1>10. PICK err : err = take(sme.rest, 4)
    OBVIOUS
  <1>11. ~sme.ok \/ ~err.ok
    <2>1. CASE k <= 4
      <3>1. k \in 0 .. Len(e)
        BY <1>5, <2>1
      <3>2. PICK z : z = Chop(e, k)
        OBVIOUS
      <3>3. z \in Seq(Nat) /\ Len(z) = Len(e) - k
        BY <1>5, <3>1, <3>2, ChopIs, Zenon
      <3>4. b = Cat(h, z)
        BY <1>4, <1>5, <1>8, <3>1, <3>2, ChopSecond, ZenonT(40)
      <3>5. b = Cat(t, Cat(x, z))
        BY <1>3, <1>6, <3>3, <3>4, CatAssoc, Zenon
      <3>6. sme = Parsed(<<u.ton, u.npi, s>>, z)
        BY <1>1, <1>2, <1>4, <1>9, <3>3, <3>5, TonIs, ZenonT(40)
      <3>7. sme.rest = z
        BY <3>6 DEF Parsed
      <3>8. Len(z) < 4
        BY <1>5, <3>3
      <3>9. err = Refused
        BY <1>10, <3>7, <3>8, TakeShort, Zenon
      <3> QED
        BY <3>9, RefusedIs, Zenon
    <2>2. CASE ~(k <= 4)
      <3>1. k \in Nat /\ Len(e) <= k /\ k <= Len(h) + Len(e)
        BY <1>4, <1>5, <1>7, <2>2
      <3>2. k - Len(e) \in 0 .. Len(h) /\ Chop(Cat(h, e), k) = Chop(h, k - Len(e))
        BY <1>4, <1>5, <3>1, ChopFirst, Zenon
      <3>3. PICK l \in 1 .. Len(s) + 3 : l = k - Len(e)
        BY <1>4, <1>5, <2>2, <3>1, <3>2
      <3>4. b = Chop(h, l)
        BY <1>4, <1>8, <3>2, <3>3, Zenon
      <3>5. sme = Refused
        BY <1>1, <1>2, <1>3, <1>4, <1>9, <3>4, TonRefuses, ZenonT(40)
      <3> QED
        BY <3>5, RefusedIs, Zenon
    <2> QED
      BY <2>1, <2>2
  <1>12. parse_unsuccess_sme(b)
           = IF ~sme.ok \/ ~err.ok THEN Refused
             ELSE Parsed([ton |-> sme.val[1], npi |-> sme.val[2], addr |-> sme.val[3],
                          error |-> be_u32(err.val)], err.rest)
    BY <1>9, <1>10, UnsuccessBy
  <1> QED
    BY <1>8, <1>11, <1>12, Zenon

LEMMA TlvBy ==
    ASSUME NEW b, NEW head, head = take(b, 4),
           NEW body, body = take(head.rest, be_u16(SubSeq(head.val, 3, 4)))
    PROVE  parse_single_tlv(b)
             = IF ~head.ok \/ ~body.ok THEN Refused
               ELSE Parsed([tag |-> be_u16(head.val), value |-> body.val], body.rest)
  BY Zenon DEF parse_single_tlv

\* The head of a TLV says its tag and its length.
LEMMA TlvHeadIs ==
    ASSUME NEW t \in Tlvs, Len(t.value) < U16Mod
    PROVE  /\ be_u16(TlvHead(t)) = t.tag
           /\ be_u16(SubSeq(TlvHead(t), 3, 4)) = Len(t.value)
  <1>1. t.value \in Seq(Nat) /\ t.tag \in Nat
    BY TlvEncodeLen, Zenon
  <1>2. PICK n \in Nat : n = Len(t.value)
    BY <1>1
  <1>3. n % U16Mod = n
    BY <1>2, Moduli
  <1>4. PICK a, b, c, d \in Nat : a = t.tag \div 256 /\ b = t.tag % 256 /\ c = n \div 256 /\ d = n % 256
    BY <1>1, HighLow
  <1>5. PICK h : h = TlvHead(t)
    OBVIOUS
  <1>6. h = Four(a, b, c, d)
    BY <1>2, <1>3, <1>4, <1>5, ZenonT(40) DEF TlvHead
  <1>7. h \in Seq(Nat) /\ Len(h) = 4 /\ h[1] = a /\ h[2] = b /\ h[3] = c /\ h[4] = d
    BY <1>6 DEF Four
  <1>8. be_u16(h) = t.tag
    <2>1. be_u16(h) = a * 256 + b
      BY <1>7, Zenon DEF be_u16
    <2>2. (t.tag \div 256) * 256 + (t.tag % 256) = t.tag
      BY <1>1, HighLow, Zenon
    <2> QED
      BY <1>4, <2>1, <2>2, Zenon
  <1>9. be_u16(SubSeq(h, 3, 4)) = n
    <2>1. 3 \in 1 .. Len(h) /\ 4 \in 1 .. Len(h) /\ 4 = 3 + 1
      BY <1>7
    <2>2. h \in Seq(Nat) /\ h[3] = n \div 256 /\ h[4] = n % 256
      BY <1>4, <1>7, Zenon
    <2> QED
      BY <2>1, <2>2, WordAt
  <1> QED
    BY <1>2, <1>5, <1>8, <1>9, Zenon

LEMMA TlvIs ==
    ASSUME NEW t \in Tlvs, Len(t.value) < U16Mod, NEW r \in Seq(Nat)
    PROVE  parse_single_tlv(Cat(TlvEncode(t), r)) = Parsed(t, r)
  <1>1. PICK h, v : h = TlvHead(t) /\ v = t.value
    OBVIOUS
  <1>2. /\ TlvEncode(t) = Cat(h, v) /\ v \in Seq(Nat) /\ h \in Seq(Nat) /\ Len(h) = 4
    BY <1>1, TlvEncodeLen, Zenon
  <1>3. be_u16(h) = t.tag /\ be_u16(SubSeq(h, 3, 4)) = Len(v)
    BY <1>1, TlvHeadIs, Zenon
  <1>4. PICK y : y = Cat(v, r)
    OBVIOUS
  <1>5. y \in Seq(Nat)
    BY <1>2, <1>4, CatLen, Zenon
  <1>6. PICK b : b = Cat(TlvEncode(t), r)
    OBVIOUS
  <1>7. b = Cat(h, y)
    <2>1. Cat(Cat(h, v), r) = Cat(h, Cat(v, r))
      BY <1>2, CatAssoc, Zenon
    <2> QED
      BY <1>2, <1>4, <1>6, <2>1, Zenon
  <1>8. PICK head : head = take(b, 4)
    OBVIOUS
  <1>9. head = Parsed(h, y)
    BY <1>2, <1>5, <1>7, <1>8, TakeIs, Zenon
  <1>10. head.ok /\ head.val = h /\ head.rest = y
    BY <1>9 DEF Parsed
  <1>11. PICK body : body = take(head.rest, be_u16(SubSeq(head.val, 3, 4)))
    OBVIOUS
  <1>12. body = Parsed(v, r)
    BY <1>2, <1>3, <1>4, <1>10, <1>11, TakeIs, Zenon
  <1>13. body.ok /\ body.val = v /\ body.rest = r
    BY <1>12 DEF Parsed
  <1>14. parse_single_tlv(b)
           = IF ~head.ok \/ ~body.ok THEN Refused
             ELSE Parsed([tag |-> be_u16(head.val), value |-> body.val], body.rest)
    BY <1>8, <1>11, TlvBy, Zenon
  <1>15. parse_single_tlv(b) = Parsed([tag |-> t.tag, value |-> v], r)
    BY <1>3, <1>10, <1>13, <1>14, Zenon
  <1>16. t = [tag |-> t.tag, value |-> t.value]
    BY DEF Tlvs
  <1> QED
    BY <1>1, <1>6, <1>15, <1>16, Zenon

LEMMA TlvShort ==
    ASSUME NEW b, Len(b) < 4
    PROVE  parse_single_tlv(b) = Refused
  <1>1. PICK head : head = take(b, 4)
    OBVIOUS
  <1>2. ~head.ok
    BY <1>1, TakeShort, RefusedIs, Zenon
  <1>3. PICK body : body = take(head.rest, be_u16(SubSeq(head.val, 3, 4)))
    OBVIOUS
  <1>4. parse_single_tlv(b)
          = IF ~head.ok \/ ~body.ok THEN Refused
            ELSE Parsed([tag |-> be_u16(head.val), value |-> body.val], body.rest)
    BY <1>1, <1>3, TlvBy, Zenon
  <1> QED
    BY <1>2, <1>4, Zenon

LEMMA TlvRefuses ==
    ASSUME NEW t \in Tlvs, Len(t.value) < U16Mod, NEW k \in 1 .. Len(TlvEncode(t))
    PROVE  parse_single_tlv(Chop(TlvEncode(t), k)) = Refused
  <1>1. PICK h, v : h = TlvHead(t) /\ v = t.value
    OBVIOUS
  <1>2. /\ TlvEncode(t) = Cat(h, v) /\ v \in Seq(Nat) /\ h \in Seq(Nat) /\ Len(h) = 4
    BY <1>1, TlvEncodeLen, Zenon
  <1>3. be_u16(SubSeq(h, 3, 4)) = Len(v)
    BY <1>1, TlvHeadIs, Zenon
  <1>4. Len(Cat(h, v)) = 4 + Len(v)
    BY <1>2, CatLen, Zenon
  <1>5. PICK b : b = Chop(TlvEncode(t), k)
    OBVIOUS
  <1>6. CASE k <= Len(v)
    <2>1. k \in 0 .. Len(v)
      BY <1>2, <1>6
    <2>2. PICK z : z = Chop(v, k)
      OBVIOUS
    <2>3. z \in Seq(Nat) /\ Len(z) = Len(v) - k
      BY <1>2, <2>1, <2>2, ChopIs, Zenon
    <2>4. b = Cat(h, z)
      BY <1>2, <1>5, <2>1, <2>2, ChopSecond, Zenon
    <2>5. PICK head : head = take(b, 4)
      OBVIOUS
    <2>6. head = Parsed(h, z)
      BY <1>2, <2>3, <2>4, <2>5, TakeIs, Zenon
    <2>7. head.val = h /\ head.rest = z
      BY <2>6 DEF Parsed
    <2>8. PICK body : body = take(head.rest, be_u16(SubSeq(head.val, 3, 4)))
      OBVIOUS
    <2>9. Len(z) < Len(v)
      BY <1>2, <2>3
    <2>10. body = Refused
      BY <1>3, <2>7, <2>8, <2>9, TakeShort, Zenon
    <2>11. parse_single_tlv(b)
             = IF ~head.ok \/ ~body.ok THEN Refused
               ELSE Parsed([tag |-> be_u16(head.val), value |-> body.val], body.rest)
      BY <2>5, <2>8, TlvBy, Zenon
    <2> QED
      BY <1>5, <2>10, <2>11, RefusedIs, Zenon
  <1>7. CASE ~(k <= Len(v))
    <2>1. k \in Nat /\ Len(v) <= k /\ k <= Len(h) + Len(v)
      BY <1>2, <1>4, <1>7
    <2>2. k - Len(v) \in 0 .. Len(h) /\ Chop(Cat(h, v), k) = Chop(h, k - Len(v))
      BY <1>2, <2>1, ChopFirst, Zenon
    <2>3. PICK l \in 0 .. Len(h) : l = k - Len(v) /\ l > 0
      BY <1>2, <1>7, <2>1, <2>2
    <2>4. b = Chop(h, l)
      BY <1>2, <1>5, <2>2, <2>3, Zenon
    <2>5. Len(b) = Len(h) - l
      BY <1>2, <2>4, ChopIs, Zenon
    <2>6. Len(b) < 4
      BY <1>2, <2>3, <2>5
    <2> QED
      BY <1>5, <2>6, TlvShort, Zenon
  <1> QED
    BY <1>6, <1>7
-----------------------------------------------------------------------------
(* Parsing in turn *)

LEMMA PrefixStep ==
    ASSUME NEW X, NEW v \in Seq(X), NEW k \in Nat, k < Len(v)
    PROVE  Append(SubSeq(v, 1, k), v[k + 1]) = SubSeq(v, 1, k + 1)
  <1>1. PICK s : s = SubSeq(v, 1, k)
    OBVIOUS
  <1>2. PICK t : t = SubSeq(v, 1, k + 1)
    OBVIOUS
  <1>3. s \in Seq(X) /\ Len(s) = k /\ \A i \in 1 .. k : s[i] = v[i]
    BY <1>1
  <1>4. t \in Seq(X) /\ Len(t) = k + 1 /\ \A i \in 1 .. k + 1 : t[i] = v[i]
    BY <1>2
  <1>5. v[k + 1] \in X
    OBVIOUS
  <1>6. PICK u : u = Append(s, v[k + 1])
    OBVIOUS
  <1>7. u \in Seq(X) /\ Len(u) = k + 1 /\ u[k + 1] = v[k + 1] /\ \A i \in 1 .. k : u[i] = s[i]
    BY <1>3, <1>5, <1>6
  <1>8. \A i \in 1 .. k + 1 : u[i] = t[i]
    BY <1>3, <1>4, <1>7, SMTT(40)
  <1>9. u = t
    BY <1>4, <1>7, <1>8, SeqEqual
  <1> QED
    BY <1>1, <1>2, <1>6, <1>9, Zenon

LEMMA PrefixEnds ==
    ASSUME NEW X, NEW v \in Seq(X)
    PROVE  SubSeq(v, 1, 0) = <<>> /\ SubSeq(v, 1, Len(v)) = v
  <1>1. SubSeq(v, 1, 0) \in Seq(X) /\ Len(SubSeq(v, 1, 0)) = 0
    OBVIOUS
  <1>2. SubSeq(v, 1, 0) = <<>>
    BY <1>1, EmptySeq
  <1>3. PICK t : t = SubSeq(v, 1, Len(v))
    OBVIOUS
  <1>4. t \in Seq(X) /\ Len(t) = Len(v) /\ \A i \in 1 .. Len(v) : t[i] = v[i]
    BY <1>3
  <1>5. t = v
    BY <1>4, SeqEqual
  <1> QED
    BY <1>2, <1>3, <1>5

\* One round of InTurn.
After(was, one) ==
    IF ~was.ok \/ ~one.ok THEN Refused ELSE Parsed(Append(was.val, one.val), one.rest)

\* The rounds of InTurn: v[i] is parsed and c[i] left after the i-th, up to the
\* j-th, which is refused.
Rounds(v, c, j, n) ==
    [i \in 0 .. n |-> IF i < j THEN Parsed(SubSeq(v, 1, i), c[i]) ELSE Refused]

\* one are the results of these rounds.
Rounded(v, c, j, n, one) ==
    (\A i \in 1 .. j - 1 : one[i] = Parsed(v[i], c[i])) /\ (j <= n => ~one[j].ok)

\* W are rounds of InTurn, from b on, with these results.
Held(W, b, n, one) ==
    W[0] = Parsed(<<>>, b) /\ \A i \in 1 .. n : W[i] = After(W[i - 1], one[i])

LEMMA RoundsHold ==
    ASSUME NEW n \in Nat, NEW X, NEW v \in Seq(X), NEW c, NEW j \in 1 .. n + 1, j <= Len(v) + 1,
           NEW one, Rounded(v, c, j, n, one)
    PROVE  Held(Rounds(v, c, j, n), c[0], n, one)
  <1>1. PICK W : W = Rounds(v, c, j, n)
    OBVIOUS
  <1>2. /\ \A i \in 0 .. n : i < j => W[i] = Parsed(SubSeq(v, 1, i), c[i])
        /\ \A i \in 0 .. n : ~(i < j) => W[i] = Refused
    BY <1>1 DEF Rounds
  <1>3. W[0] = Parsed(<<>>, c[0])
    <2>1. W[0] = Parsed(SubSeq(v, 1, 0), c[0])
      BY <1>2
    <2> QED
      BY <2>1, PrefixEnds, Zenon
  <1>4. ASSUME NEW i \in 1 .. n PROVE W[i] = After(W[i - 1], one[i])
    <2>0. i - 1 \in 0 .. n /\ i \in 0 .. n
      OBVIOUS
    <2>1. CASE i < j
      <3>1. PICK k \in Nat : k = i - 1 /\ k + 1 = i /\ k < j /\ k < Len(v) /\ i \in 1 .. j - 1
        BY <2>1
      <3>2. W[i - 1] = Parsed(SubSeq(v, 1, k), c[k]) /\ W[i] = Parsed(SubSeq(v, 1, k + 1), c[i])
        BY <1>2, <2>0, <2>1, <3>1
      <3>3. one[i] = Parsed(v[k + 1], c[i])
        BY <3>1 DEF Rounded
      <3>4. Append(SubSeq(v, 1, k), v[k + 1]) = SubSeq(v, 1, k + 1)
        BY <3>1, PrefixStep
      <3>5. PICK a, b : a = SubSeq(v, 1, k) /\ b = v[k + 1]
        OBVIOUS
      <3>6. After(W[i - 1], one[i]) = Parsed(Append(a, b), c[i])
        <4>1. W[i - 1].ok /\ one[i].ok /\ W[i - 1].val = a /\ one[i].val = b /\ one[i].rest = c[i]
          BY <3>2, <3>3, <3>5 DEF Parsed
        <4> QED
          BY <4>1, Zenon DEF After
      <3> QED
        BY <3>2, <3>4, <3>5, <3>6, Zenon
    <2>2. CASE i = j
      <3>1. ~one[i].ok /\ W[i] = Refused
        BY <1>2, <2>0, <2>2 DEF Rounded
      <3> QED
        BY <3>1, Zenon DEF After
    <2>3. CASE i > j
      <3>1. ~(i - 1 < j) /\ ~(i < j)
        BY <2>3
      <3>2. W[i - 1] = Refused /\ W[i] = Refused
        BY <1>2, <2>0, <3>1
      <3> QED
        BY <3>2, RefusedIs, Zenon DEF After
    <2> QED
      BY <2>1, <2>2, <2>3
  <1>5. Held(W, c[0], n, one)
    BY <1>3, <1>4, Zenon DEF Held
  <1> QED
    BY <1>1, <1>5, Zenon

\* What InTurn leaves, and what it returns.
LEMMA RoundsEnd ==
    ASSUME NEW n \in Nat, NEW X, NEW v \in Seq(X), NEW c, NEW j \in 1 .. n + 1, j <= Len(v) + 1
    PROVE  /\ \A i \in 1 .. n : i <= j => Rounds(v, c, j, n)[i - 1].rest = c[i - 1]
           /\ j <= n => Rounds(v, c, j, n)[n] = Refused
           /\ j > n /\ Len(v) = n => Rounds(v, c, j, n)[n] = Parsed(v, c[n])
  <1>1. PICK W : W = Rounds(v, c, j, n)
    OBVIOUS
  <1>2. /\ \A i \in 0 .. n : i < j => W[i] = Parsed(SubSeq(v, 1, i), c[i])
        /\ \A i \in 0 .. n : ~(i < j) => W[i] = Refused
    BY <1>1 DEF Rounds
  <1>3. ASSUME NEW i \in 1 .. n, i <= j PROVE W[i - 1].rest = c[i - 1]
    <2>1. i - 1 \in 0 .. n /\ i - 1 < j
      BY <1>3
    <2>2. W[i - 1] = Parsed(SubSeq(v, 1, i - 1), c[i - 1])
      BY <1>2, <2>1
    <2> QED
      BY <2>2 DEF Parsed
  <1>4. ASSUME j <= n PROVE W[n] = Refused
    <2>1. n \in 0 .. n /\ ~(n < j)
      BY <1>4
    <2> QED
      BY <1>2, <2>1
  <1>5. ASSUME j > n, Len(v) = n PROVE W[n] = Parsed(v, c[n])
    <2>1. n \in 0 .. n /\ n < j
      BY <1>5
    <2>2. W[n] = Parsed(SubSeq(v, 1, n), c[n])
      BY <1>2, <2>1
    <2> QED
      BY <1>5, <2>2, PrefixEnds, Zenon
  <1> QED
    BY <1>1, <1>3, <1>4, <1>5, Zenon

FieldsEq(w, b, f) ==
    f = [i \in 0 .. Len(w) |-> IF i = 0 THEN Parsed(<<>>, b)
                               ELSE After(f[i - 1], ParseField(w[i], f[i - 1].rest))]

LEMMA FieldsBy ==
    ASSUME NEW w, NEW b
    PROVE  Fields(w, b) = (CHOOSE f : FieldsEq(w, b, f))[Len(w)]
  BY Zenon DEF Fields, InTurn, FieldsEq, After

\* The fields of a body, parsed in turn, up to the j-th.
FieldsGo(w, v, c, j, n) ==
    /\ \A i \in 1 .. j - 1 : ParseField(w[i], c[i - 1]) = Parsed(v[i], c[i])
    /\ j <= n => ~ParseField(w[j], c[j - 1]).ok

LEMMA FieldsRun ==
    ASSUME NEW w, NEW n \in Nat, Len(w) = n, NEW X, NEW v \in Seq(X), NEW c, NEW j \in 1 .. n + 1,
           j <= Len(v) + 1, FieldsGo(w, v, c, j, n)
    PROVE  /\ j <= n => Fields(w, c[0]) = Refused
           /\ j > n /\ Len(v) = n => Fields(w, c[0]) = Parsed(v, c[n])
  <1>1. PICK W : W = Rounds(v, c, j, n)
    OBVIOUS
  <1>2. PICK one : one = [i \in 1 .. n |-> ParseField(w[i], W[i - 1].rest)]
    OBVIOUS
  <1>3. \A i \in 1 .. n : one[i] = ParseField(w[i], W[i - 1].rest)
    BY <1>2
  <1>4. \A i \in 1 .. n : i <= j => one[i] = ParseField(w[i], c[i - 1])
    BY <1>1, <1>3, RoundsEnd
  <1>5. \A i \in 1 .. j - 1 : one[i] = Parsed(v[i], c[i])
    <2> SUFFICES ASSUME NEW i \in 1 .. j - 1 PROVE one[i] = Parsed(v[i], c[i])
      OBVIOUS
    <2>1. i \in 1 .. n /\ i <= j
      OBVIOUS
    <2> QED
      BY <1>4, <2>1 DEF FieldsGo
  <1>6. j <= n => ~one[j].ok
    <2> SUFFICES ASSUME j <= n PROVE ~one[j].ok
      OBVIOUS
    <2>1. j \in 1 .. n /\ j <= j
      OBVIOUS
    <2> QED
      BY <1>4, <2>1 DEF FieldsGo
  <1>7. W[0] = Parsed(<<>>, c[0]) /\ \A i \in 1 .. n : W[i] = After(W[i - 1], one[i])
    <2>1. Rounded(v, c, j, n, one)
      BY <1>5, <1>6, Zenon DEF Rounded
    <2>2. n \in Nat /\ v \in Seq(X) /\ j \in 1 .. n + 1 /\ j <= Len(v) + 1
      OBVIOUS
    <2>3. Held(Rounds(v, c, j, n), c[0], n, one)
      BY <2>1, <2>2, RoundsHold, Zenon
    <2> QED
      BY <1>1, <2>3, Zenon DEF Held
  <1>8. W = [i \in 0 .. n |-> W[i]]
    BY <1>1 DEF Rounds
  <1>9. \A i \in 0 .. n : W[i] = IF i = 0 THEN Parsed(<<>>, c[0])
                                 ELSE After(W[i - 1], ParseField(w[i], W[i - 1].rest))
    <2> SUFFICES ASSUME NEW i \in 0 .. n
                 PROVE  W[i] = IF i = 0 THEN Parsed(<<>>, c[0])
                               ELSE After(W[i - 1], ParseField(w[i], W[i - 1].rest))
      OBVIOUS
    <2>1. CASE i = 0
      BY <1>7, <2>1
    <2>2. CASE i # 0
      <3>1. i \in 1 .. n
        BY <2>2
      <3> QED
        BY <1>3, <1>7, <2>2, <3>1, Zenon
    <2> QED
      BY <2>1, <2>2
  <1>10. FieldsEq(w, c[0], W)
    BY <1>8, <1>9 DEF FieldsEq
  <1>11. PICK f : f = CHOOSE h : FieldsEq(w, c[0], h)
    OBVIOUS
  <1>12. FieldsEq(w, c[0], f)
    BY <1>10, <1>11, Zenon
  <1>13. \A i \in 0 .. n : f[i] = IF i = 0 THEN Parsed(<<>>, c[0])
                                  ELSE After(f[i - 1], ParseField(w[i], f[i - 1].rest))
    <2>1. f = [i \in 0 .. n |-> IF i = 0 THEN Parsed(<<>>, c[0])
                                ELSE After(f[i - 1], ParseField(w[i], f[i - 1].rest))]
      BY <1>12, Zenon DEF FieldsEq
    <2> QED
      BY <2>1, Zenon
  <1> DEFINE K == {k \in Nat : f[k] = W[k]}
  <1>14. 0 \in K
    BY <1>9, <1>13
  <1>15. \A k \in 0 .. n - 1 : k \in K => k + 1 \in K
    <2> SUFFICES ASSUME NEW k \in 0 .. n - 1, f[k] = W[k] PROVE f[k + 1] = W[k + 1]
      OBVIOUS
    <2>1. k + 1 \in 0 .. n /\ (k + 1) - 1 = k /\ k + 1 # 0
      OBVIOUS
    <2>2. f[k + 1] = After(f[k], ParseField(w[k + 1], f[k].rest))
      BY <1>13, <2>1
    <2>3. W[k + 1] = After(W[k], ParseField(w[k + 1], W[k].rest))
      BY <1>9, <2>1
    <2> QED
      BY <2>2, <2>3
  <1>16. f[n] = W[n]
    <2>1. \A k \in 0 .. n : k \in K
      <3> HIDE DEF K
      <3> QED
        BY <1>14, <1>15, UpTo
    <2> QED
      BY <2>1
  <1>17. Fields(w, c[0]) = W[n]
    BY <1>11, <1>16, FieldsBy, Zenon
  <1> QED
    BY <1>1, <1>17, RoundsEnd

EntryParse(list, c) ==
    IF list = "dest_addresses" THEN parse_dest_address(c) ELSE parse_unsuccess_sme(c)

EntriesEq(list, n, b, f) ==
    f = [i \in 0 .. n |-> IF i = 0 THEN Parsed(<<>>, b)
                          ELSE After(f[i - 1], EntryParse(list, f[i - 1].rest))]

\* The loop of InTurn over the entries of a list.
EntryLoop(list, s, b) == InTurn(LAMBDA i, c : EntryParse(list, c), s, b)

LEMMA EntryLoopBy ==
    ASSUME NEW list, NEW n, NEW s, Len(s) = n, NEW b
    PROVE  EntryLoop(list, s, b) = (CHOOSE f : EntriesEq(list, n, b, f))[n]
  BY Zenon DEF EntryLoop, InTurn, EntriesEq, After

LEMMA EntriesBy ==
    ASSUME NEW list, NEW b, NEW n \in Nat, NEW x, be_u8(b) = Parsed(n, x)
    PROVE  CountedList(list, b) = (CHOOSE f : EntriesEq(list, n, x, f))[n]
  <1>1. PICK q : q = be_u8(b)
    OBVIOUS
  <1>2. q.ok /\ q.val = n /\ q.rest = x
    BY <1>1 DEF Parsed
  <1>3. CountedList(list, b) = EntryLoop(list, [i \in 1 .. q.val |-> i], q.rest)
    <2>1. CountedList(list, b) = IF ~be_u8(b).ok THEN Refused
                                 ELSE EntryLoop(list, [i \in 1 .. be_u8(b).val |-> i], be_u8(b).rest)
      BY DEF CountedList, EntryLoop, EntryParse
    <2> QED
      BY <1>1, <1>2, <2>1, Zenon
  <1>4. CountedList(list, b) = EntryLoop(list, [i \in 1 .. n |-> i], x)
    BY <1>2, <1>3, Zenon
  <1>5. PICK s : s = [i \in 1 .. n |-> i]
    OBVIOUS
  <1>6. Len(s) = n
    BY <1>5
  <1>7. CountedList(list, b) = EntryLoop(list, s, x)
    BY <1>4, <1>5, Zenon
  <1> QED
    BY <1>6, <1>7, EntryLoopBy, ZenonT(40)

\* The entries of a list, parsed in turn, up to the j-th.
EntriesGo(list, v, c, j, n) ==
    /\ \A i \in 1 .. j - 1 : EntryParse(list, c[i - 1]) = Parsed(v[i], c[i])
    /\ j <= n => ~EntryParse(list, c[j - 1]).ok

LEMMA EntriesRun ==
    ASSUME NEW list, NEW b, NEW n \in Nat, NEW X, NEW v \in Seq(X), NEW c, NEW j \in 1 .. n + 1,
           j <= Len(v) + 1, be_u8(b) = Parsed(n, c[0]),
           EntriesGo(list, v, c, j, n)
    PROVE  /\ j <= n => CountedList(list, b) = Refused
           /\ j > n /\ Len(v) = n => CountedList(list, b) = Parsed(v, c[n])
  <1>1. PICK W : W = Rounds(v, c, j, n)
    OBVIOUS
  <1>2. PICK one : one = [i \in 1 .. n |-> EntryParse(list, W[i - 1].rest)]
    OBVIOUS
  <1>3. \A i \in 1 .. n : one[i] = EntryParse(list, W[i - 1].rest)
    BY <1>2
  <1>4. \A i \in 1 .. n : i <= j => one[i] = EntryParse(list, c[i - 1])
    BY <1>1, <1>3, RoundsEnd
  <1>5. \A i \in 1 .. j - 1 : one[i] = Parsed(v[i], c[i])
    <2> SUFFICES ASSUME NEW i \in 1 .. j - 1 PROVE one[i] = Parsed(v[i], c[i])
      OBVIOUS
    <2>1. i \in 1 .. n /\ i <= j
      OBVIOUS
    <2> QED
      BY <1>4, <2>1 DEF EntriesGo
  <1>6. j <= n => ~one[j].ok
    <2> SUFFICES ASSUME j <= n PROVE ~one[j].ok
      OBVIOUS
    <2>1. j \in 1 .. n /\ j <= j
      OBVIOUS
    <2> QED
      BY <1>4, <2>1 DEF EntriesGo
  <1>7. W[0] = Parsed(<<>>, c[0]) /\ \A i \in 1 .. n : W[i] = After(W[i - 1], one[i])
    <2>1. Rounded(v, c, j, n, one)
      BY <1>5, <1>6, Zenon DEF Rounded
    <2>2. n \in Nat /\ v \in Seq(X) /\ j \in 1 .. n + 1 /\ j <= Len(v) + 1
      OBVIOUS
    <2>3. Held(Rounds(v, c, j, n), c[0], n, one)
      BY <2>1, <2>2, RoundsHold, Zenon
    <2> QED
      BY <1>1, <2>3, Zenon DEF Held
  <1>8. W = [i \in 0 .. n |-> W[i]]
    BY <1>1 DEF Rounds
  <1>9. \A i \in 0 .. n : W[i] = IF i = 0 THEN Parsed(<<>>, c[0])
                                 ELSE After(W[i - 1], EntryParse(list, W[i - 1].rest))
    <2> SUFFICES ASSUME NEW i \in 0 .. n
                 PROVE  W[i] = IF i = 0 THEN Parsed(<<>>, c[0])
                               ELSE After(W[i - 1], EntryParse(list, W[i - 1].rest))
      OBVIOUS
    <2>1. CASE i = 0
      BY <1>7, <2>1
    <2>2. CASE i # 0
      <3>1. i \in 1 .. n
        BY <2>2
      <3> QED
        BY <1>3, <1>7, <2>2, <3>1, Zenon
    <2> QED
      BY <2>1, <2>2
  <1>10. EntriesEq(list, n, c[0], W)
    BY <1>8, <1>9 DEF EntriesEq
  <1>11. PICK f : f = CHOOSE h : EntriesEq(list, n, c[0], h)
    OBVIOUS
  <1>12. EntriesEq(list, n, c[0], f)
    BY <1>10, <1>11, Zenon
  <1>13. \A i \in 0 .. n : f[i] = IF i = 0 THEN Parsed(<<>>, c[0])
                                  ELSE After(f[i - 1], EntryParse(list, f[i - 1].rest))
    <2>1. f = [i \in 0 .. n |-> IF i = 0 THEN Parsed(<<>>, c[0])
                                ELSE After(f[i - 1], EntryParse(list, f[i - 1].rest))]
      BY <1>12, Zenon DEF EntriesEq
    <2> QED
      BY <2>1, Zenon
  <1> DEFINE K == {k \in Nat : f[k] = W[k]}
  <1>14. 0 \in K
    BY <1>9, <1>13
  <1>15. \A k \in 0 .. n - 1 : k \in K => k + 1 \in K
    <2> SUFFICES ASSUME NEW k \in 0 .. n - 1, f[k] = W[k] PROVE f[k + 1] = W[k + 1]
      OBVIOUS
    <2>1. k + 1 \in 0 .. n /\ (k + 1) - 1 = k /\ k + 1 # 0
      OBVIOUS
    <2>2. f[k + 1] = After(f[k], EntryParse(list, f[k].rest))
      BY <1>13, <2>1
    <2>3. W[k + 1] = After(W[k], EntryParse(list, W[k].rest))
      BY <1>9, <2>1
    <2> QED
      BY <2>2, <2>3
  <1>16. f[n] = W[n]
    <2>1. \A k \in 0 .. n : k \in K
      <3> HIDE DEF K
      <3> QED
        BY <1>14, <1>15, UpTo
    <2> QED
      BY <2>1
  <1>17. CountedList(list, b) = W[n]
    BY <1>11, <1>16, EntriesBy, Zenon
  <1> QED
    BY <1>1, <1>17, RoundsEnd

\* One round of the loop of decode_tlvs.
TlvStep(was) ==
    IF ~parse_single_tlv(was.rest).ok THEN was
    ELSE Parsed(Append(was.val, parse_single_tlv(was.rest).val), parse_single_tlv(was.rest).rest)

\* The rounds decode_tlvs may need.
Most(b) == Len(b) \div 4

TlvsEq(b, f) ==
    f = [i \in 0 .. Most(b) |-> IF i = 0 THEN Parsed(<<>>, b) ELSE TlvStep(f[i - 1])]

LEMMA TlvsBy ==
    ASSUME NEW b
    PROVE  decode_tlvs(b) = (CHOOSE f : TlvsEq(b, f))[Most(b)].val
  BY Zenon DEF decode_tlvs, TlvsEq, TlvStep, Most

LEMMA TlvStepOn ==
    ASSUME NEW a, NEW x, NEW y, NEW z, parse_single_tlv(x) = Parsed(y, z)
    PROVE  TlvStep(Parsed(a, x)) = Parsed(Append(a, y), z)
  <1>1. PICK q, u : q = parse_single_tlv(x) /\ u = Parsed(a, x)
    OBVIOUS
  <1>2. q.ok /\ q.val = y /\ q.rest = z /\ u.val = a /\ u.rest = x
    BY <1>1 DEF Parsed
  <1>3. TlvStep(u) = Parsed(Append(a, y), z)
    BY <1>1, <1>2, Zenon DEF TlvStep
  <1> QED
    BY <1>1, <1>3, Zenon

LEMMA TlvStepStays ==
    ASSUME NEW a, NEW x, ~parse_single_tlv(x).ok
    PROVE  TlvStep(Parsed(a, x)) = Parsed(a, x)
  <1>1. PICK u : u = Parsed(a, x)
    OBVIOUS
  <1>2. u.rest = x
    BY <1>1 DEF Parsed
  <1>3. TlvStep(u) = u
    BY <1>2, Zenon DEF TlvStep
  <1> QED
    BY <1>1, <1>3, Zenon

\* The TLVs of a body, up to the first that does not parse.
LEMMA TlvsRun ==
    ASSUME NEW X, NEW v \in Seq(X), NEW c, NEW m \in Nat, m <= Len(v), NEW n \in Nat,
           n = Most(c[0]), m <= n,
           \A i \in 1 .. m : parse_single_tlv(c[i - 1]) = Parsed(v[i], c[i]),
           ~parse_single_tlv(c[m]).ok
    PROVE  decode_tlvs(c[0]) = SubSeq(v, 1, m)
  <1>1. PICK W : W = [i \in 0 .. n |-> IF i <= m THEN Parsed(SubSeq(v, 1, i), c[i])
                                       ELSE Parsed(SubSeq(v, 1, m), c[m])]
    OBVIOUS
  <1>2. /\ \A i \in 0 .. n : i <= m => W[i] = Parsed(SubSeq(v, 1, i), c[i])
        /\ \A i \in 0 .. n : ~(i <= m) => W[i] = Parsed(SubSeq(v, 1, m), c[m])
    BY <1>1
  <1>3. W[0] = Parsed(<<>>, c[0])
    <2>1. W[0] = Parsed(SubSeq(v, 1, 0), c[0])
      BY <1>2
    <2> QED
      BY <2>1, PrefixEnds, Zenon
  <1>4. ASSUME NEW i \in 1 .. n PROVE W[i] = TlvStep(W[i - 1])
    <2>0. i - 1 \in 0 .. n /\ i \in 0 .. n
      OBVIOUS
    <2>1. CASE i <= m
      <3>1. PICK k \in Nat : k = i - 1 /\ k + 1 = i /\ k <= m /\ k < Len(v) /\ i \in 1 .. m
        BY <2>1
      <3>2. W[i - 1] = Parsed(SubSeq(v, 1, k), c[k]) /\ W[i] = Parsed(SubSeq(v, 1, k + 1), c[i])
        BY <1>2, <2>0, <2>1, <3>1
      <3>3. parse_single_tlv(c[k]) = Parsed(v[k + 1], c[i])
        BY <3>1
      <3>4. Append(SubSeq(v, 1, k), v[k + 1]) = SubSeq(v, 1, k + 1)
        BY <3>1, PrefixStep
      <3>5. TlvStep(W[i - 1]) = Parsed(Append(SubSeq(v, 1, k), v[k + 1]), c[i])
        <4>1. PICK a, x, y, z : a = SubSeq(v, 1, k) /\ x = c[k] /\ y = v[k + 1] /\ z = c[i]
          OBVIOUS
        <4>2. parse_single_tlv(x) = Parsed(y, z)
          BY <3>3, <4>1
        <4>3. W[i - 1] = Parsed(a, x)
          BY <3>2, <4>1
        <4>4. TlvStep(Parsed(a, x)) = Parsed(Append(a, y), z)
          BY <4>2, TlvStepOn
        <4> QED
          BY <4>1, <4>3, <4>4
      <3>6. TlvStep(W[i - 1]) = Parsed(SubSeq(v, 1, k + 1), c[i])
        BY <3>4, <3>5
      <3> QED
        BY <3>2, <3>6
    <2>2. CASE ~(i <= m)
      <3>1. W[i] = Parsed(SubSeq(v, 1, m), c[m])
        BY <1>2, <2>0, <2>2
      <3>2. W[i - 1] = Parsed(SubSeq(v, 1, m), c[m])
        <4>1. CASE i - 1 <= m
          <5>1. i - 1 = m
            BY <2>2, <4>1
          <5> QED
            BY <1>2, <2>0, <4>1, <5>1
        <4>2. CASE ~(i - 1 <= m)
          BY <1>2, <2>0, <4>2
        <4> QED
          BY <4>1, <4>2
      <3> QED
        BY <3>1, <3>2, TlvStepStays, Zenon
    <2> QED
      BY <2>1, <2>2
  <1>5. W[n] = Parsed(SubSeq(v, 1, m), c[m])
    <2>1. n \in 0 .. n /\ (n <= m => n = m)
      OBVIOUS
    <2> QED
      BY <1>2, <2>1
  <1>6. W = [i \in 0 .. n |-> W[i]]
    BY <1>1
  <1>7. \A i \in 0 .. n : W[i] = IF i = 0 THEN Parsed(<<>>, c[0]) ELSE TlvStep(W[i - 1])
    <2> SUFFICES ASSUME NEW i \in 0 .. n
                 PROVE  W[i] = IF i = 0 THEN Parsed(<<>>, c[0]) ELSE TlvStep(W[i - 1])
      OBVIOUS
    <2>1. CASE i = 0
      BY <1>3, <2>1
    <2>2. CASE i # 0
      <3>1. i \in 1 .. n
        BY <2>2
      <3> QED
        BY <1>4, <2>2, <3>1, Zenon
    <2> QED
      BY <2>1, <2>2
  <1>8. TlvsEq(c[0], W)
    BY <1>6, <1>7 DEF TlvsEq
  <1>9. PICK f : f = CHOOSE h : TlvsEq(c[0], h)
    OBVIOUS
  <1>10. TlvsEq(c[0], f)
    BY <1>8, <1>9, Zenon
  <1>11. \A i \in 0 .. n : f[i] = IF i = 0 THEN Parsed(<<>>, c[0]) ELSE TlvStep(f[i - 1])
    <2>1. f = [i \in 0 .. n |-> IF i = 0 THEN Parsed(<<>>, c[0]) ELSE TlvStep(f[i - 1])]
      BY <1>10, Zenon DEF TlvsEq
    <2> QED
      BY <2>1, Zenon
  <1> DEFINE K == {k \in Nat : f[k] = W[k]}
  <1>12. 0 \in K
    BY <1>7, <1>11
  <1>13. \A k \in 0 .. n - 1 : k \in K => k + 1 \in K
    <2> SUFFICES ASSUME NEW k \in 0 .. n - 1, f[k] = W[k] PROVE f[k + 1] = W[k + 1]
      OBVIOUS
    <2>1. k + 1 \in 0 .. n /\ (k + 1) - 1 = k /\ k + 1 # 0
      OBVIOUS
    <2>2. f[k + 1] = TlvStep(f[k]) /\ W[k + 1] = TlvStep(W[k])
      BY <1>7, <1>11, <2>1
    <2> QED
      BY <2>2
  <1>14. f[n] = W[n]
    <2>1. \A k \in 0 .. n : k \in K
      <3> HIDE DEF K
      <3> QED
        BY <1>12, <1>13, UpTo
    <2> QED
      BY <2>1
  <1>15. decode_tlvs(c[0]) = W[n].val
    BY <1>9, <1>14, TlvsBy, Zenon
  <1>16. W[n].val = SubSeq(v, 1, m)
    BY <1>5 DEF Parsed
  <1> QED
    BY <1>15, <1>16, Zenon

-----------------------------------------------------------------------------
(* Where a parser stands after each part of what was written.               *)

\* C[i] is what is left after the i-th part, up to the m-th.
Chain(ss, C, m) == \A i \in 1 .. m : C[i - 1] = Cat(ss[i], C[i]) /\ C[i] \in Seq(Nat)

LEMMA WholeChain ==
    ASSUME NEW ss \in Seq(Seq(Nat)), NEW r \in Seq(Nat)
    PROVE  \E C : C[0] = Cat(FlattenSeq(ss), r) /\ C[Len(ss)] = r /\ Chain(ss, C, Len(ss))
  <1>1. PICK n \in Nat : n = Len(ss)
    OBVIOUS
  <1>2. PICK R : Tails(ss, R) /\ R[0] = FlattenSeq(ss)
    BY TailsExist
  <1>3. PICK C : C = [i \in 0 .. n |-> Cat(R[i], r)]
    OBVIOUS
  <1>4. \A i \in 0 .. n : R[i] \in Seq(Nat) /\ C[i] = Cat(R[i], r)
    BY <1>1, <1>2, <1>3 DEF Tails
  <1>5. C[0] = Cat(FlattenSeq(ss), r)
    BY <1>2, <1>4
  <1>6. C[n] = r
    <2>1. C[n] = Cat(R[n], r)
      BY <1>4
    <2>2. R[n] = <<>>
      BY <1>1, <1>2, Zenon DEF Tails
    <2> QED
      BY <2>1, <2>2, CatEmpty, Zenon
  <1>7. ASSUME NEW i \in 1 .. n PROVE C[i - 1] = Cat(ss[i], C[i]) /\ C[i] \in Seq(Nat)
    <2>1. i \in 0 .. n /\ i - 1 \in 0 .. n
      OBVIOUS
    <2>2. /\ C[i - 1] = Cat(R[i - 1], r) /\ C[i] = Cat(R[i], r)
          /\ R[i] \in Seq(Nat) /\ ss[i] \in Seq(Nat)
      BY <1>1, <1>4, <2>1
    <2>3. R[i - 1] = Cat(ss[i], R[i])
      BY <1>1, <1>2, Zenon DEF Tails
    <2>4. Cat(Cat(ss[i], R[i]), r) = Cat(ss[i], Cat(R[i], r))
      BY <2>2, CatAssoc, Zenon
    <2> QED
      BY <2>2, <2>3, <2>4, CatLen, Zenon
  <1>8. Chain(ss, C, n)
    BY <1>7, Zenon DEF Chain
  <1> QED
    BY <1>1, <1>5, <1>6, <1>8, Zenon

\* A cut of k octets falls in the j-th part, of which it takes l.
CutAt(ss, k, j, l, C) ==
    /\ j \in 1 .. Len(ss) /\ l \in 1 .. Len(ss[j])
    /\ C[0] = Chop(FlattenSeq(ss), k) /\ Chain(ss, C, j - 1)
    /\ C[j - 1] = Chop(ss[j], l) /\ (j = Len(ss) => l = k)

LEMMA CutChain ==
    ASSUME NEW ss \in Seq(Seq(Nat)), NEW k \in 1 .. Len(FlattenSeq(ss))
    PROVE  \E j, l, C : CutAt(ss, k, j, l, C)
  <1>1. PICK n \in Nat : n = Len(ss)
    OBVIOUS
  <1>2. PICK R : Tails(ss, R) /\ R[0] = FlattenSeq(ss)
    BY TailsExist
  <1>3. PICK j \in 1 .. n : Len(R[j]) < k /\ \A i \in 0 .. j - 1 : k <= Len(R[i])
    <2>1. k \in 1 .. Len(R[0])
      BY <1>2
    <2> QED
      BY <1>1, <1>2, <2>1, CutFalls
  <1>4. PICK C : C = [i \in 0 .. n |-> Chop(R[i], k)]
    OBVIOUS
  <1>5. \A i \in 0 .. n : R[i] \in Seq(Nat) /\ Len(R[i]) \in Nat /\ C[i] = Chop(R[i], k)
    <2> SUFFICES ASSUME NEW i \in 0 .. n
                 PROVE  R[i] \in Seq(Nat) /\ Len(R[i]) \in Nat /\ C[i] = Chop(R[i], k)
      OBVIOUS
    <2>1. R[i] \in Seq(Nat)
      BY <1>1, <1>2 DEF Tails
    <2>2. C[i] = Chop(R[i], k)
      BY <1>4, Zenon
    <2> QED
      BY <2>1, <2>2
  <1>6. \A i \in 1 .. n : R[i - 1] = Cat(ss[i], R[i]) /\ ss[i] \in Seq(Nat) /\ Len(ss[i]) \in Nat
    <2> SUFFICES ASSUME NEW i \in 1 .. n
                 PROVE  R[i - 1] = Cat(ss[i], R[i]) /\ ss[i] \in Seq(Nat) /\ Len(ss[i]) \in Nat
      OBVIOUS
    <2>1. R[i - 1] = Cat(ss[i], R[i])
      BY <1>1, <1>2, Zenon DEF Tails
    <2>2. ss[i] \in Seq(Nat)
      BY <1>1
    <2> QED
      BY <2>1, <2>2
  <1>7. C[0] = Chop(FlattenSeq(ss), k)
    BY <1>2, <1>5
  <1>8. ASSUME NEW i \in 1 .. j - 1 PROVE C[i - 1] = Cat(ss[i], C[i]) /\ C[i] \in Seq(Nat)
    <2>1. i \in 0 .. n /\ i - 1 \in 0 .. n /\ i \in 1 .. n /\ i \in 0 .. j - 1
      OBVIOUS
    <2>2. R[i] \in Seq(Nat) /\ ss[i] \in Seq(Nat) /\ k \in 0 .. Len(R[i])
      BY <1>3, <1>5, <1>6, <2>1
    <2>3. C[i - 1] = Chop(Cat(ss[i], R[i]), k) /\ C[i] = Chop(R[i], k)
      BY <1>5, <1>6, <2>1
    <2>4. Chop(Cat(ss[i], R[i]), k) = Cat(ss[i], Chop(R[i], k))
      BY <2>2, ChopSecond, Zenon
    <2> QED
      BY <2>2, <2>3, <2>4, ChopIs, Zenon
  <1>9. Chain(ss, C, j - 1)
    BY <1>8, Zenon DEF Chain
  <1>10. R[j] \in Seq(Nat) /\ ss[j] \in Seq(Nat) /\ C[j - 1] = Chop(Cat(ss[j], R[j]), k)
    <2>1. j \in 0 .. n /\ j - 1 \in 0 .. n /\ j \in 1 .. n
      OBVIOUS
    <2> QED
      BY <1>5, <1>6, <2>1
  <1>11. Len(R[j]) \in Nat /\ Len(ss[j]) \in Nat /\ Len(R[j]) <= k /\ k <= Len(ss[j]) + Len(R[j])
    <2>1. Len(R[j]) \in Nat /\ Len(ss[j]) \in Nat
      BY <1>10
    <2>2. k <= Len(R[j - 1])
      BY <1>3
    <2>3. Len(Cat(ss[j], R[j])) = Len(ss[j]) + Len(R[j])
      BY <1>10, CatLen, Zenon
    <2>4. R[j - 1] = Cat(ss[j], R[j])
      BY <1>6
    <2>5. PICK a \in Nat, b \in Nat : a = Len(R[j]) /\ b = Len(ss[j])
      BY <2>1
    <2>6. k <= b + a
      BY <2>2, <2>3, <2>4, <2>5
    <2>7. a < k
      BY <1>3, <2>5
    <2>8. a <= k
      BY <2>7
    <2> QED
      BY <2>1, <2>5, <2>6, <2>8, Zenon
  <1>12. PICK l \in 1 .. Len(ss[j]) : l = k - Len(R[j])
    <2>1. PICK a \in Nat, b \in Nat : a = Len(R[j]) /\ b = Len(ss[j])
      BY <1>11
    <2>2. a < k /\ k <= b + a
      BY <1>3, <1>11, <2>1
    <2>3. k - a \in 1 .. b
      BY <2>2
    <2> QED
      BY <2>1, <2>3
  <1>13. C[j - 1] = Chop(ss[j], l)
    <2>1. k \in Nat
      OBVIOUS
    <2>2. Chop(Cat(ss[j], R[j]), k) = Chop(ss[j], k - Len(R[j]))
      BY <1>10, <1>11, <2>1, ChopFirst, Zenon
    <2> QED
      BY <1>10, <1>12, <2>2, Zenon
  <1>14. j = n => l = k
    <2>1. R[n] = <<>>
      BY <1>1, <1>2, Zenon DEF Tails
    <2>2. PICK a : a = Len(R[j])
      OBVIOUS
    <2>3. j = n => a = Len(<<>>)
      BY <2>1, <2>2, Zenon
    <2>4. l = k - a
      BY <1>12, <2>2, Zenon
    <2>5. Len(<<>>) = 0
      OBVIOUS
    <2>6. j = n => a = 0
      BY <2>3, <2>5, Zenon
    <2>7. k \in Nat
      OBVIOUS
    <2> QED
      BY ONLY <2>4, <2>6, <2>7
  <1>15. CutAt(ss, k, j, l, C)
    BY <1>1, <1>7, <1>9, <1>12, <1>13, <1>14, Zenon DEF CutAt
  <1> QED
    BY <1>15, Zenon

-----------------------------------------------------------------------------
(* The TLVs.                                                                *)

\* Parts of at least 4 octets each: no more of them than rounds of the loop.
LEMMA ChainLong ==
    ASSUME NEW ss \in Seq(Seq(Nat)), NEW m \in Nat, m <= Len(ss),
           \A i \in 1 .. m : 4 <= Len(ss[i]), NEW C, Chain(ss, C, m), C[0] \in Seq(Nat)
    PROVE  Most(C[0]) \in Nat /\ m <= Most(C[0])
  <1>1. \A i \in 0 .. m : C[i] \in Seq(Nat)
    <2> SUFFICES ASSUME NEW i \in 0 .. m PROVE C[i] \in Seq(Nat)
      OBVIOUS
    <2>1. CASE i = 0
      BY <2>1
    <2>2. CASE i # 0
      <3>1. i \in 1 .. m
        BY <2>2
      <3> QED
        BY <3>1, Zenon DEF Chain
    <2> QED
      BY <2>1, <2>2
  <1>2. PICK L : L = [i \in 0 .. m |-> Len(C[i])]
    OBVIOUS
  <1>3. \A i \in 0 .. m : L[i] \in Nat /\ L[i] = Len(C[i])
    BY <1>1, <1>2
  <1>4. ASSUME NEW k \in 0 .. m - 1 PROVE L[k + 1] + 4 <= L[k]
    <2>1. k + 1 \in 1 .. m /\ (k + 1) - 1 = k /\ k + 1 \in 0 .. m /\ k \in 0 .. m
      OBVIOUS
    <2>2. C[k] = Cat(ss[k + 1], C[k + 1])
      <3>1. C[(k + 1) - 1] = Cat(ss[k + 1], C[k + 1])
        BY <2>1, Zenon DEF Chain
      <3> QED
        BY <2>1, <3>1
    <2>3. ss[k + 1] \in Seq(Nat) /\ C[k + 1] \in Seq(Nat) /\ 4 <= Len(ss[k + 1])
      BY <1>1, <2>1
    <2>4. Len(C[k]) = Len(ss[k + 1]) + Len(C[k + 1])
      BY <2>2, <2>3, CatLen, Zenon
    <2>5. PICK a \in Nat : a = Len(ss[k + 1]) /\ 4 <= a
      BY <2>3
    <2>6. L[k] = a + L[k + 1] /\ L[k + 1] \in Nat
      BY <1>3, <2>1, <2>4, <2>5
    <2> QED
      BY <2>5, <2>6
  <1> DEFINE K == {k \in 0 .. m : 4 * k + L[k] <= L[0]}
  <1>5. 0 \in K
    BY <1>3
  <1>6. ASSUME NEW k \in 0 .. m - 1, k \in K PROVE k + 1 \in K
    <2>1. L[k + 1] + 4 <= L[k] /\ 4 * k + L[k] <= L[0]
      BY <1>4, <1>6
    <2>2. k + 1 \in 0 .. m /\ L[k + 1] \in Nat /\ L[k] \in Nat /\ L[0] \in Nat
      BY <1>3
    <2>3. 4 * (k + 1) + L[k + 1] <= L[0]
      BY <2>1, <2>2, SMTT(40)
    <2> QED
      BY <2>2, <2>3
  <1>7. \A k \in 0 .. m : k \in K
    <2> HIDE DEF K
    <2> QED
      BY <1>5, <1>6, UpTo
  <1>8. PICK a \in Nat, d \in Nat : a = L[m] /\ d = L[0] /\ d = Len(C[0])
    BY <1>3
  <1>9. 4 * m + a <= d
    <2>1. m \in K
      BY <1>7
    <2> QED
      BY <1>8, <2>1
  <1>10. d \div 4 \in Nat /\ m <= d \div 4
    BY <1>9
  <1> QED
    BY <1>8, <1>10 DEF Most

GoodTlvs(v) == \A i \in 1 .. Len(v) : Len(v[i].value) < U16Mod

\* The TLVs that lie on a chain are decoded, up to where the chain ends.
LEMMA TlvChain ==
    ASSUME NEW v \in Seq(Tlvs), GoodTlvs(v), NEW ss, ss = Map(TlvEncode, v),
           NEW m \in Nat, m <= Len(v), NEW C, Chain(ss, C, m), C[0] \in Seq(Nat),
           ~parse_single_tlv(C[m]).ok
    PROVE  decode_tlvs(C[0]) = SubSeq(v, 1, m)
  <1>1. ss \in Seq(Seq(Nat)) /\ Len(ss) = Len(v) /\ \A i \in 1 .. Len(v) : ss[i] = TlvEncode(v[i])
    BY TlvsLen, Zenon
  <1>2. ASSUME NEW i \in 1 .. m
        PROVE  /\ v[i] \in Tlvs /\ Len(v[i].value) < U16Mod /\ ss[i] = TlvEncode(v[i])
               /\ 4 <= Len(ss[i])
    <2>1. i \in 1 .. Len(v)
      OBVIOUS
    <2>2. v[i] \in Tlvs /\ Len(v[i].value) < U16Mod /\ ss[i] = TlvEncode(v[i])
      <3>1. v[i] \in Tlvs
        BY <2>1
      <3> QED
        BY <1>1, <2>1, <3>1, Zenon DEF GoodTlvs
    <2>3. Len(TlvEncode(v[i])) = encoded_len(v[i]) /\ v[i].value \in Seq(Nat)
      BY <2>2, TlvEncodeLen, Zenon
    <2>4. 4 <= encoded_len(v[i])
      BY <2>3 DEF encoded_len
    <2> QED
      BY <2>2, <2>3, <2>4
  <1>3. PICK n \in Nat : n = Most(C[0]) /\ m <= n
    <2>1. \A i \in 1 .. m : 4 <= Len(ss[i])
      BY <1>2
    <2>2. m <= Len(ss)
      BY <1>1
    <2>3. Most(C[0]) \in Nat /\ m <= Most(C[0])
      BY <1>1, <2>1, <2>2, ChainLong
    <2> QED
      BY <2>3
  <1>4. ASSUME NEW i \in 1 .. m PROVE parse_single_tlv(C[i - 1]) = Parsed(v[i], C[i])
    <2>1. C[i - 1] = Cat(ss[i], C[i]) /\ C[i] \in Seq(Nat)
      BY Zenon DEF Chain
    <2>2. parse_single_tlv(Cat(TlvEncode(v[i]), C[i])) = Parsed(v[i], C[i])
      BY <1>2, <2>1, TlvIs, Zenon
    <2> QED
      BY <1>2, <2>1, <2>2, Zenon
  <1> QED
    BY <1>3, <1>4, TlvsRun

LEMMA TlvsRead ==
    ASSUME NEW v \in Seq(Tlvs), GoodTlvs(v)
    PROVE  decode_tlvs(FlattenSeq(Map(TlvEncode, v))) = v
  <1>1. PICK ss, m : ss = Map(TlvEncode, v) /\ m = Len(v)
    OBVIOUS
  <1>2. ss \in Seq(Seq(Nat)) /\ Len(ss) = m /\ FlattenSeq(ss) \in Seq(Nat) /\ <<>> \in Seq(Nat)
    <2>1. <<>> \in Seq(Nat)
      OBVIOUS
    <2> QED
      BY <1>1, <2>1, TlvsLen, Zenon
  <1>3. PICK C : C[0] = Cat(FlattenSeq(ss), <<>>) /\ C[m] = <<>> /\ Chain(ss, C, m)
    BY <1>2, WholeChain, Zenon
  <1>4. C[0] = FlattenSeq(ss) /\ C[0] \in Seq(Nat)
    BY <1>2, <1>3, CatEmpty, Zenon
  <1>5. ~parse_single_tlv(C[m]).ok
    <2>1. Len(C[m]) < 4
      BY <1>3
    <2> QED
      BY <2>1, TlvShort, RefusedIs, Zenon
  <1>6. m \in Nat /\ m <= Len(v)
    BY <1>1
  <1>7. decode_tlvs(C[0]) = SubSeq(v, 1, m)
    BY <1>1, <1>3, <1>4, <1>5, <1>6, TlvChain, Zenon
  <1>8. SubSeq(v, 1, m) = v
    BY <1>1, PrefixEnds, Zenon
  <1> QED
    BY <1>1, <1>4, <1>7, <1>8, Zenon

LEMMA TlvsCut ==
    ASSUME NEW v \in Seq(Tlvs), GoodTlvs(v), NEW k \in 1 .. Len(FlattenSeq(Map(TlvEncode, v)))
    PROVE  \E m \in Nat : m < Len(v) /\ decode_tlvs(Chop(FlattenSeq(Map(TlvEncode, v)), k)) = SubSeq(v, 1, m)
  <1>1. PICK ss : ss = Map(TlvEncode, v)
    OBVIOUS
  <1>2. /\ ss \in Seq(Seq(Nat)) /\ Len(ss) = Len(v) /\ FlattenSeq(ss) \in Seq(Nat)
        /\ \A i \in 1 .. Len(v) : ss[i] = TlvEncode(v[i])
    BY <1>1, TlvsLen, Zenon
  <1>3. k \in 1 .. Len(FlattenSeq(ss)) /\ k \in 0 .. Len(FlattenSeq(ss))
    BY <1>1, <1>2
  <1>4. PICK j, l, C : CutAt(ss, k, j, l, C)
    BY <1>2, <1>3, CutChain, Zenon
  <1>5. j \in 1 .. Len(ss) /\ l \in 1 .. Len(ss[j])
    BY <1>4, Zenon DEF CutAt
  <1>6. C[0] = Chop(FlattenSeq(ss), k) /\ Chain(ss, C, j - 1) /\ C[j - 1] = Chop(ss[j], l)
    BY <1>4, Zenon DEF CutAt
  <1>7. PICK m \in Nat : m = j - 1 /\ m < Len(v) /\ j \in 1 .. Len(v)
    BY <1>2, <1>5
  <1>8. C[0] \in Seq(Nat)
    BY <1>2, <1>3, <1>6, ChopIs, Zenon
  <1>9. ~parse_single_tlv(C[m]).ok
    <2>1. v[j] \in Tlvs /\ Len(v[j].value) < U16Mod /\ ss[j] = TlvEncode(v[j])
      BY <1>2, <1>7 DEF GoodTlvs
    <2>2. parse_single_tlv(Chop(TlvEncode(v[j]), l)) = Refused
      BY <1>5, <2>1, TlvRefuses, Zenon
    <2> QED
      BY <1>6, <1>7, <2>1, <2>2, RefusedIs, Zenon
  <1>10. m <= Len(v) /\ Chain(ss, C, m)
    BY <1>6, <1>7
  <1>11. decode_tlvs(C[0]) = SubSeq(v, 1, m)
    BY <1>1, <1>8, <1>9, <1>10, TlvChain, Zenon
  <1> QED
    BY <1>1, <1>6, <1>7, <1>11, Zenon

LEMMA NoTlv ==
    ASSUME NEW b \in Seq(Nat), ~parse_single_tlv(b).ok
    PROVE  decode_tlvs(b) = <<>>
  <1>1. PICK c : c = [i \in 0 .. 0 |-> b]
    OBVIOUS
  <1>2. c[0] = b
    BY <1>1
  <1>3. PICK v \in Seq(Nat) : v = <<>>
    <2>1. <<>> \in Seq(Nat)
      OBVIOUS
    <2> QED
      BY <2>1, Zenon
  <1>4. PICK l \in Nat : l = Len(b)
    OBVIOUS
  <1>5. l \div 4 \in Nat /\ 0 <= l \div 4
    OBVIOUS
  <1>6. PICK n \in Nat : n = Most(c[0]) /\ 0 <= n
    BY <1>2, <1>4, <1>5 DEF Most
  <1>7. 0 <= Len(v) /\ 0 \in Nat
    BY <1>3
  <1>8. \A i \in 1 .. 0 : parse_single_tlv(c[i - 1]) = Parsed(v[i], c[i])
    OBVIOUS
  <1>9. ~parse_single_tlv(c[0]).ok
    BY <1>2, Zenon
  <1>10. decode_tlvs(c[0]) = SubSeq(v, 1, 0)
    BY <1>6, <1>7, <1>8, <1>9, TlvsRun
  <1>11. SubSeq(v, 1, 0) = <<>>
    BY PrefixEnds, Zenon
  <1> QED
    BY <1>2, <1>10, <1>11, Zenon

\* A body of one TLV.
LEMMA SingleTlv ==
    ASSUME NEW t \in Tlvs, Len(t.value) < U16Mod
    PROVE  /\ decode_tlvs(TlvEncode(t)) = <<t>>
           /\ \A l \in 1 .. Len(TlvEncode(t)) : decode_tlvs(Chop(TlvEncode(t), l)) = <<>>
  <1>1. TlvEncode(t) \in Seq(Nat) /\ Len(TlvEncode(t)) = encoded_len(t) /\ t.value \in Seq(Nat)
    BY TlvEncodeLen, Zenon
  <1>2. ASSUME NEW l \in 1 .. Len(TlvEncode(t)) PROVE decode_tlvs(Chop(TlvEncode(t), l)) = <<>>
    <2>1. l \in 0 .. Len(TlvEncode(t))
      BY <1>1
    <2>2. Chop(TlvEncode(t), l) \in Seq(Nat)
      BY <1>1, <2>1, ChopIs, Zenon
    <2>3. parse_single_tlv(Chop(TlvEncode(t), l)) = Refused
      BY TlvRefuses, Zenon
    <2> QED
      BY <2>2, <2>3, NoTlv, RefusedIs, Zenon
  <1>3. decode_tlvs(TlvEncode(t)) = <<t>>
    <2>1. PICK c : c = [i \in 0 .. 1 |-> IF i = 0 THEN TlvEncode(t) ELSE <<>>]
      OBVIOUS
    <2>2. c[0] = TlvEncode(t) /\ c[1] = <<>>
      BY <2>1
    <2>3. PICK v \in Seq(Tlvs) : v = <<t>> /\ Len(v) = 1 /\ v[1] = t
      <3>1. <<t>> \in Seq(Tlvs)
        OBVIOUS
      <3>2. Len(<<t>>) = 1 /\ <<t>>[1] = t
        OBVIOUS
      <3> QED
        BY <3>1, <3>2, Zenon
    <2>4. PICK l \in Nat : l = Len(TlvEncode(t)) /\ 4 <= l
      BY <1>1 DEF encoded_len
    <2>5. l \div 4 \in Nat /\ 1 <= l \div 4
      BY <2>4
    <2>6. PICK n \in Nat : n = Most(c[0]) /\ 1 <= n
      BY <2>2, <2>4, <2>5 DEF Most
    <2>7. parse_single_tlv(TlvEncode(t)) = Parsed(t, <<>>)
      <3>1. <<>> \in Seq(Nat)
        OBVIOUS
      <3>2. parse_single_tlv(Cat(TlvEncode(t), <<>>)) = Parsed(t, <<>>)
        BY <3>1, TlvIs, Zenon
      <3> QED
        BY <1>1, <3>2, CatEmpty, Zenon
    <2>8. parse_single_tlv(c[0]) = Parsed(v[1], c[1])
      BY <2>2, <2>3, <2>7, Zenon
    <2>9. \A i \in 1 .. 1 : parse_single_tlv(c[i - 1]) = Parsed(v[i], c[i])
      <3> SUFFICES ASSUME NEW i \in 1 .. 1 PROVE parse_single_tlv(c[i - 1]) = Parsed(v[i], c[i])
        OBVIOUS
      <3>1. i = 1 /\ i - 1 = 0
        OBVIOUS
      <3> QED
        BY <2>8, <3>1
    <2>10. ~parse_single_tlv(c[1]).ok
      <3>1. Len(c[1]) < 4
        BY <2>2
      <3> QED
        BY <3>1, TlvShort, RefusedIs, Zenon
    <2>11. 1 \in Nat /\ 1 <= Len(v)
      BY <2>3
    <2>12. decode_tlvs(c[0]) = SubSeq(v, 1, 1)
      BY <2>6, <2>9, <2>10, <2>11, TlvsRun
    <2>13. SubSeq(v, 1, 1) = v
      BY <2>3, PrefixEnds
    <2> QED
      BY <2>2, <2>3, <2>12, <2>13, Zenon
  <1> QED
    BY <1>2, <1>3

TaggedAt(s, tag) == SelectInSeq(s, LAMBDA t : t.tag = tag)

LEMMA OptionalBy ==
    ASSUME NEW s, NEW tag, NEW k, k = TaggedAt(s, tag)
    PROVE  OptionalOf(s, tag) = IF k # 0 /\ Len(s[k].value) = 1 THEN s[k].value ELSE <<>>
  BY Zenon DEF OptionalOf, TaggedAt

LEMMA OptionalNone ==
    ASSUME NEW tag
    PROVE  OptionalOf(<<>>, tag) = <<>>
  <1>1. PICK s : s = <<>>
    OBVIOUS
  <1>2. Len(s) = 0
    BY <1>1
  <1>3. PICK I : I = {i \in 1 .. Len(s) : s[i].tag = tag}
    OBVIOUS
  <1>4. I = {}
    BY <1>2, <1>3
  <1>5. TaggedAt(s, tag) = IF I # {} THEN Min(I) ELSE 0
    BY <1>3, Zenon DEF TaggedAt, SelectInSeq
  <1>6. PICK k : k = TaggedAt(s, tag) /\ k = 0
    BY <1>4, <1>5
  <1>7. OptionalOf(s, tag) = <<>>
    BY <1>6, OptionalBy, Zenon
  <1> QED
    BY <1>1, <1>7, Zenon

LEMMA OptionalOne ==
    ASSUME NEW t, NEW tag, t.tag = tag, Len(t.value) = 1
    PROVE  OptionalOf(<<t>>, tag) = t.value
  <1>1. PICK s : s = <<t>>
    OBVIOUS
  <1>2. Len(s) = 1 /\ s[1] = t
    BY <1>1
  <1>3. PICK I : I = {i \in 1 .. Len(s) : s[i].tag = tag}
    OBVIOUS
  <1>4. I = {1}
    <2>1. \A i \in 1 .. Len(s) : i = 1
      BY <1>2
    <2>2. 1 \in 1 .. Len(s)
      BY <1>2
    <2>3. s[1].tag = tag
      BY <1>2, Zenon
    <2> QED
      BY <1>3, <2>1, <2>2, <2>3
  <1>5. TaggedAt(s, tag) = IF I # {} THEN Min(I) ELSE 0
    BY <1>3, Zenon DEF TaggedAt, SelectInSeq
  <1>6. Min({1}) = 1
    BY DEF Min
  <1>7. PICK k : k = TaggedAt(s, tag) /\ k = 1 /\ k # 0
    BY <1>4, <1>5, <1>6
  <1>8. s[k].value = t.value
    BY <1>2, <1>7
  <1>9. OptionalOf(s, tag) = t.value
    BY <1>7, <1>8, OptionalBy, Zenon
  <1> QED
    BY <1>1, <1>9, Zenon

-----------------------------------------------------------------------------
(* The lists of entries.                                                    *)

\* s is parsed as x, whatever follows it; no part of s is parsed.
EntryReads(list, s, x) == \A r \in Seq(Nat) : EntryParse(list, Cat(s, r)) = Parsed(x, r)
EntryStops(list, s) == \A l \in 1 .. Len(s) : ~EntryParse(list, Chop(s, l)).ok

AllRead(list, ss, v, m) ==
    \A i \in 1 .. m : EntryReads(list, ss[i], v[i]) /\ EntryStops(list, ss[i])

LEMMA CountedEmpty ==
    ASSUME NEW list
    PROVE  CountedList(list, <<>>) = Refused
  <1>1. CountedList(list, <<>>)
          = IF ~be_u8(<<>>).ok THEN Refused
            ELSE EntryLoop(list, [i \in 1 .. be_u8(<<>>).val |-> i], be_u8(<<>>).rest)
    BY DEF CountedList, EntryLoop, EntryParse
  <1>2. ~be_u8(<<>>).ok
    BY U8Refuses, RefusedIs, Zenon
  <1> QED
    BY <1>1, <1>2, Zenon

LEMMA ListReads ==
    ASSUME NEW list, NEW X, NEW v \in Seq(X), NEW ss \in Seq(Seq(Nat)), NEW m \in Nat, Len(v) = m,
           Len(ss) = m, AllRead(list, ss, v, m),
           FlattenSeq(ss) \in Seq(Nat), NEW r \in Seq(Nat)
    PROVE  CountedList(list, Cat(Cat(One(m), FlattenSeq(ss)), r)) = Parsed(v, r)
  <1>1. PICK c : c[0] = Cat(FlattenSeq(ss), r) /\ c[m] = r /\ Chain(ss, c, m)
    <2>1. \E C : C[0] = Cat(FlattenSeq(ss), r) /\ C[Len(ss)] = r /\ Chain(ss, C, Len(ss))
      BY WholeChain
    <2> QED
      BY <2>1
  <1>2. PICK b : b = Cat(Cat(One(m), FlattenSeq(ss)), r)
    OBVIOUS
  <1>3. be_u8(b) = Parsed(m, c[0])
    <2>1. One(m) \in Seq(Nat) /\ Cat(FlattenSeq(ss), r) \in Seq(Nat)
      BY OneIs, CatLen, Zenon
    <2>2. b = Cat(One(m), Cat(FlattenSeq(ss), r))
      BY <1>2, <2>1, CatAssoc, Zenon
    <2> QED
      BY <1>1, <2>1, <2>2, U8Is, Zenon
  <1>4. PICK j \in 1 .. m + 1 : j = m + 1 /\ j <= Len(v) + 1 /\ j > m /\ ~(j <= m)
    OBVIOUS
  <1>5. ASSUME NEW i \in 1 .. m PROVE EntryParse(list, c[i - 1]) = Parsed(v[i], c[i])
    <2>1. c[i - 1] = Cat(ss[i], c[i]) /\ c[i] \in Seq(Nat)
      BY <1>1, Zenon DEF Chain
    <2>2. EntryReads(list, ss[i], v[i])
      BY Zenon DEF AllRead
    <2>3. EntryParse(list, Cat(ss[i], c[i])) = Parsed(v[i], c[i])
      BY <2>1, <2>2, Zenon DEF EntryReads
    <2> QED
      BY <2>1, <2>3, Zenon
  <1>6. \A i \in 1 .. j - 1 : EntryParse(list, c[i - 1]) = Parsed(v[i], c[i])
    <2> SUFFICES ASSUME NEW i \in 1 .. j - 1 PROVE EntryParse(list, c[i - 1]) = Parsed(v[i], c[i])
      OBVIOUS
    <2>1. i \in 1 .. m
      BY <1>4
    <2> QED
      BY <1>5, <2>1, Zenon
  <1>7. j <= m => ~EntryParse(list, c[j - 1]).ok
    BY <1>4
  <1>8. CountedList(list, b) = Parsed(v, c[m])
    <2>1. j <= Len(v) + 1 /\ v \in Seq(X) /\ m \in Nat /\ j \in 1 .. m + 1 /\ j > m /\ Len(v) = m
      BY <1>4
    <2>2. EntriesGo(list, v, c, j, m)
      BY <1>6, <1>7, Zenon DEF EntriesGo
    <2>3. j > m /\ Len(v) = m => CountedList(list, b) = Parsed(v, c[m])
      BY <1>3, <2>1, <2>2, EntriesRun
    <2> QED
      BY <2>1, <2>3
  <1> QED
    BY <1>1, <1>2, <1>8, Zenon

LEMMA ListStops ==
    ASSUME NEW list, NEW X, NEW v \in Seq(X), NEW ss \in Seq(Seq(Nat)), NEW m \in Nat, Len(v) = m,
           Len(ss) = m, AllRead(list, ss, v, m),
           FlattenSeq(ss) \in Seq(Nat), NEW k \in 1 .. Len(FlattenSeq(ss)) + 1
    PROVE  CountedList(list, Chop(Cat(One(m), FlattenSeq(ss)), k)) = Refused
  <1>1. PICK F \in Seq(Nat) : F = FlattenSeq(ss)
    OBVIOUS
  <1>2. PICK b : b = Chop(Cat(One(m), F), k)
    OBVIOUS
  <1>3. k \in 1 .. Len(F) + 1
    BY <1>1
  <1>4. CASE b = <<>>
    BY <1>1, <1>2, <1>4, CountedEmpty, Zenon
  <1>5. CASE b # <<>>
    <2>1. k \in 1 .. Len(F) /\ b = Cat(One(m), Chop(F, k))
      <3>1. \/ k = Len(F) + 1 /\ Chop(Cat(One(m), F), k) = <<>>
            \/ k \in 1 .. Len(F) /\ Chop(Cat(One(m), F), k) = Cat(One(m), Chop(F, k))
        BY <1>3, ChopOne
      <3> QED
        BY <1>2, <1>5, <3>1
    <2>2. k \in 1 .. Len(FlattenSeq(ss)) /\ k \in 0 .. Len(F)
      BY <1>1, <2>1
    <2>3. PICK j, l, c : CutAt(ss, k, j, l, c)
      BY <2>2, CutChain, Zenon
    <2>4. j \in 1 .. Len(ss) /\ l \in 1 .. Len(ss[j])
      BY <2>3, Zenon DEF CutAt
    <2>5. c[0] = Chop(FlattenSeq(ss), k) /\ Chain(ss, c, j - 1) /\ c[j - 1] = Chop(ss[j], l)
      BY <2>3, Zenon DEF CutAt
    <2>6. j \in 1 .. m + 1 /\ j <= m /\ j <= Len(v) + 1 /\ j \in 1 .. m
      BY <2>4
    <2>7. be_u8(b) = Parsed(m, c[0])
      <3>1. Chop(F, k) \in Seq(Nat)
        BY <2>2, ChopIs, Zenon
      <3> QED
        BY <1>1, <2>1, <2>5, <3>1, U8Is, Zenon
    <2>8. \A i \in 1 .. j - 1 : EntryParse(list, c[i - 1]) = Parsed(v[i], c[i])
      <3> SUFFICES ASSUME NEW i \in 1 .. j - 1 PROVE EntryParse(list, c[i - 1]) = Parsed(v[i], c[i])
        OBVIOUS
      <3>1. c[i - 1] = Cat(ss[i], c[i]) /\ c[i] \in Seq(Nat)
        BY <2>5, Zenon DEF Chain
      <3>2. i \in 1 .. m
        BY <2>6
      <3>3. EntryReads(list, ss[i], v[i])
        BY <3>2, Zenon DEF AllRead
      <3>4. EntryParse(list, Cat(ss[i], c[i])) = Parsed(v[i], c[i])
        BY <3>1, <3>3, Zenon DEF EntryReads
      <3> QED
        BY <3>1, <3>4, Zenon
    <2>9. ~EntryParse(list, c[j - 1]).ok
      <3>1. EntryStops(list, ss[j])
        BY <2>6, Zenon DEF AllRead
      <3>2. ~EntryParse(list, Chop(ss[j], l)).ok
        BY <2>4, <3>1, Zenon DEF EntryStops
      <3> QED
        BY <2>5, <3>2, Zenon
    <2>10. CountedList(list, b) = Refused
      <3>1. EntriesGo(list, v, c, j, m)
        BY <2>8, <2>9, Zenon DEF EntriesGo
      <3> QED
        BY <2>6, <2>7, <3>1, EntriesRun, Zenon
    <2> QED
      BY <1>1, <1>2, <2>10, Zenon
  <1> QED
    BY <1>4, <1>5

-----------------------------------------------------------------------------
(* The fields.                                                              *)

\* The values a field may carry: no NUL in a string, no more octets or entries
\* than the count before them can say.
Good(n, v) ==
    /\ n \in CStrings => ~Contains(v, 0)
    /\ n = "short_message" => Len(v) < U8Mod
    /\ n \in {"dest_addresses", "unsuccess_sme"} =>
         Len(v) < U8Mod /\ \A i \in 1 .. Len(v) : ~Contains(v[i].addr, 0)
    /\ n = "tlvs" => GoodTlvs(v)

\* s is parsed as the value v, whatever follows it; no part of s is parsed.
Reads(n, s, v) == \A r \in Seq(Nat) : ParseField(n, Cat(s, r)) = Parsed(v, r)
Stops(n, s) == \A l \in 1 .. Len(s) : ~ParseField(n, Chop(s, l)).ok

LEMMA StringField ==
    ASSUME NEW n \in CStrings, NEW v \in FieldValues(n), Good(n, v)
    PROVE  Reads(n, FieldOctets(n, v), v) /\ Stops(n, FieldOctets(n, v))
  <1>1. v \in Seq(Octets)
    BY DEF FieldValues, CStrings, Optionals
  <1>2. v \in Seq(Nat) /\ ~Contains(v, 0)
    BY <1>1, OctetsAreNats DEF Good
  <1>3. PICK s : s = FieldOctets(n, v) /\ s = Cat(v, One(0))
    BY DEF FieldOctets, Cat, One, CStrings, Optionals
  <1>4. \A b : ParseField(n, b) = parse_c_octet_string(b)
    BY DEF ParseField, CStrings
  <1>5. ASSUME NEW r \in Seq(Nat) PROVE ParseField(n, Cat(s, r)) = Parsed(v, r)
    BY <1>2, <1>3, <1>4, CStringIs, Zenon
  <1>6. ASSUME NEW l \in 1 .. Len(s) PROVE ~ParseField(n, Chop(s, l)).ok
    <2>1. Len(s) = Len(v) + 1
      BY <1>2, <1>3, StringLen, Zenon
    <2>2. l \in 1 .. Len(v) + 1
      BY <2>1
    <2> QED
      BY <1>2, <1>3, <1>4, <2>2, CStringRefuses, RefusedIs, Zenon
  <1> QED
    BY <1>3, <1>5, <1>6, Zenon DEF Reads, Stops

LEMMA OctetField ==
    ASSUME NEW n, n \notin CStrings, n \notin Optionals,
           n \notin {"short_message", "dest_addresses", "unsuccess_sme", "tlvs"},
           NEW v \in FieldValues(n)
    PROVE  Reads(n, FieldOctets(n, v), v) /\ Stops(n, FieldOctets(n, v))
  <1>1. v \in Octets
    BY DEF FieldValues
  <1>2. v \in Nat
    BY <1>1 DEF Octets
  <1>3. PICK s : s = FieldOctets(n, v) /\ s = One(v)
    BY DEF FieldOctets, One
  <1>4. \A b : ParseField(n, b) = be_u8(b)
    BY DEF ParseField, Optionals
  <1>5. ASSUME NEW r \in Seq(Nat) PROVE ParseField(n, Cat(s, r)) = Parsed(v, r)
    BY <1>2, <1>3, <1>4, U8Is, Zenon
  <1>6. ASSUME NEW l \in 1 .. Len(s) PROVE ~ParseField(n, Chop(s, l)).ok
    <2>1. s \in Seq(Nat) /\ Len(s) = 1
      BY <1>2, <1>3, OneIs, Zenon
    <2>2. l = 1
      BY <2>1
    <2>3. Chop(s, l) = <<>>
      <3>1. l \in 0 .. Len(s)
        BY <2>1, <2>2
      <3>2. Chop(s, l) \in Seq(Nat) /\ Len(Chop(s, l)) = Len(s) - l
        BY <2>1, <3>1, ChopIs, Zenon
      <3>3. Len(Chop(s, l)) = 0
        BY <2>1, <2>2, <3>2
      <3> QED
        BY <3>2, <3>3, EmptySeq
    <2> QED
      BY <1>4, <2>3, U8Refuses, RefusedIs, Zenon
  <1> QED
    BY <1>3, <1>5, <1>6, Zenon DEF Reads, Stops

LEMMA MessageBy ==
    ASSUME NEW b, NEW m, NEW x, be_u8(b) = Parsed(m, x)
    PROVE  short_message_parse(b) = take(x, m)
  <1>1. PICK q : q = be_u8(b)
    OBVIOUS
  <1>2. q.ok /\ q.val = m /\ q.rest = x
    BY <1>1 DEF Parsed
  <1>3. short_message_parse(b) = IF ~q.ok THEN Refused ELSE take(q.rest, q.val)
    BY <1>1, Zenon DEF short_message_parse
  <1> QED
    BY <1>2, <1>3, Zenon

LEMMA MessageEmpty == short_message_parse(<<>>) = Refused
  <1>1. PICK q : q = be_u8(<<>>)
    OBVIOUS
  <1>2. ~q.ok
    BY <1>1, U8Refuses, RefusedIs, Zenon
  <1>3. short_message_parse(<<>>) = IF ~q.ok THEN Refused ELSE take(q.rest, q.val)
    BY <1>1, Zenon DEF short_message_parse
  <1> QED
    BY <1>2, <1>3, Zenon

LEMMA MessageField ==
    ASSUME NEW v \in Seq(Octets), Len(v) < U8Mod, NEW n, n = "short_message"
    PROVE  Reads(n, FieldOctets(n, v), v) /\ Stops(n, FieldOctets(n, v))
  <1>1. v \in Seq(Nat) /\ Len(v) \in Nat
    BY OctetsAreNats
  <1>2. PICK m \in Nat : m = Len(v)
    BY <1>1
  <1>3. PICK s : s = FieldOctets(n, v) /\ s = Cat(One(m), v)
    <2>1. FieldOctets(n, v) = Cat(One(Len(v) % U8Mod), v)
      BY DEF FieldOctets, Cat, One, CStrings, Optionals
    <2>2. Len(v) % U8Mod = m
      BY <1>1, <1>2, Moduli
    <2> QED
      BY <2>1, <2>2, Zenon
  <1>4. \A b : ParseField(n, b) = short_message_parse(b)
    BY DEF ParseField, CStrings
  <1>5. One(m) \in Seq(Nat) /\ Len(One(m)) = 1
    BY OneIs, Zenon
  <1>6. ASSUME NEW r \in Seq(Nat) PROVE ParseField(n, Cat(s, r)) = Parsed(v, r)
    <2>1. Cat(v, r) \in Seq(Nat)
      BY <1>1, CatLen, Zenon
    <2>2. Cat(s, r) = Cat(One(m), Cat(v, r))
      <3>1. Cat(Cat(One(m), v), r) = Cat(One(m), Cat(v, r))
        BY <1>1, <1>5, CatAssoc, Zenon
      <3> QED
        BY <1>3, <3>1, Zenon
    <2>3. be_u8(Cat(s, r)) = Parsed(m, Cat(v, r))
      BY <2>1, <2>2, U8Is, Zenon
    <2>4. short_message_parse(Cat(s, r)) = take(Cat(v, r), m)
      BY <2>3, MessageBy, Zenon
    <2>5. take(Cat(v, r), Len(v)) = Parsed(v, r)
      BY <1>1, TakeIs, Zenon
    <2> QED
      BY <1>2, <1>4, <2>4, <2>5, Zenon
  <1>7. ASSUME NEW l \in 1 .. Len(s) PROVE ~ParseField(n, Chop(s, l)).ok
    <2>1. Len(s) = 1 + m
      BY <1>1, <1>2, <1>3, <1>5, CatLen, Zenon
    <2>2. l \in 1 .. Len(v) + 1
      BY <1>2, <2>1
    <2>3. \/ l = Len(v) + 1 /\ Chop(s, l) = <<>>
          \/ l \in 1 .. Len(v) /\ Chop(s, l) = Cat(One(m), Chop(v, l))
      BY <1>1, <1>3, <2>2, ChopOne
    <2>4. CASE Chop(s, l) = <<>>
      BY <1>4, <2>4, MessageEmpty, RefusedIs, Zenon
    <2>5. CASE Chop(s, l) # <<>>
      <3>1. l \in 1 .. Len(v) /\ Chop(s, l) = Cat(One(m), Chop(v, l)) /\ l \in 0 .. Len(v)
        BY <1>1, <2>3, <2>5
      <3>2. Chop(v, l) \in Seq(Nat) /\ Len(Chop(v, l)) = Len(v) - l
        BY <1>1, <3>1, ChopIs, Zenon
      <3>3. be_u8(Chop(s, l)) = Parsed(m, Chop(v, l))
        BY <3>1, <3>2, U8Is, Zenon
      <3>4. Len(Chop(v, l)) < m
        BY <1>2, <3>1, <3>2
      <3>5. short_message_parse(Chop(s, l)) = take(Chop(v, l), m)
        BY <3>3, MessageBy, Zenon
      <3>6. take(Chop(v, l), m) = Refused
        BY <3>4, TakeShort
      <3> QED
        BY <1>4, <3>5, <3>6, RefusedIs, Zenon
    <2> QED
      BY <2>4, <2>5
  <1> QED
    BY <1>3, <1>6, <1>7, Zenon DEF Reads, Stops

LEMMA DestField ==
    ASSUME NEW v \in Seq(Destinations), Len(v) < U8Mod, \A i \in 1 .. Len(v) : ~Contains(v[i].addr, 0),
           NEW n, n = "dest_addresses"
    PROVE  Reads(n, FieldOctets(n, v), v) /\ Stops(n, FieldOctets(n, v))
  <1>1. PICK ss, F, m : ss = Map(DestOctets, v) /\ F = FlattenSeq(ss) /\ m = Len(v)
    OBVIOUS
  <1>2. m \in Nat
    BY <1>1
  <1>3. /\ ss \in Seq(Seq(Nat)) /\ Len(ss) = m /\ F \in Seq(Nat)
        /\ \A i \in 1 .. m : ss[i] = DestOctets(v[i])
    BY <1>1, DestinationsLen, Zenon
  <1>4. PICK s : s = FieldOctets(n, v) /\ s = Cat(One(m), F)
    <2>1. FieldOctets(n, v) = Cat(One(Len(v) % U8Mod), FlattenSeq(Map(DestOctets, v)))
      BY DEF FieldOctets, Cat, One, CStrings, Optionals
    <2>2. Len(v) % U8Mod = m
      BY <1>1, <1>2, Moduli
    <2> QED
      BY <1>1, <2>1, <2>2, Zenon
  <1>5. \A b : ParseField(n, b) = CountedList(n, b)
    BY DEF ParseField, CStrings
  <1>6. \A b : EntryParse(n, b) = parse_dest_address(b)
    BY DEF EntryParse
  <1>7. ASSUME NEW i \in 1 .. m PROVE EntryReads(n, ss[i], v[i]) /\ EntryStops(n, ss[i])
    <2>1. v[i] \in Destinations /\ ~Contains(v[i].addr, 0) /\ ss[i] = DestOctets(v[i])
      <3>1. i \in 1 .. Len(v)
        BY <1>1
      <3>2. v[i] \in Destinations
        BY <3>1
      <3> QED
        BY <1>3, <3>1, <3>2, Zenon
    <2>2. ASSUME NEW r \in Seq(Nat) PROVE EntryParse(n, Cat(ss[i], r)) = Parsed(v[i], r)
      BY <1>6, <2>1, DestIs, Zenon
    <2>3. ASSUME NEW l \in 1 .. Len(ss[i]) PROVE ~EntryParse(n, Chop(ss[i], l)).ok
      BY <1>6, <2>1, DestRefuses, RefusedIs, Zenon
    <2> QED
      BY <2>2, <2>3, Zenon DEF EntryReads, EntryStops
  <1>8. AllRead(n, ss, v, m)
    BY <1>7, Zenon DEF AllRead
  <1>9. ASSUME NEW r \in Seq(Nat) PROVE ParseField(n, Cat(s, r)) = Parsed(v, r)
    <2>1. CountedList(n, Cat(Cat(One(m), F), r)) = Parsed(v, r)
      <3>1. FlattenSeq(ss) \in Seq(Nat) /\ Len(v) = m
        BY <1>1, <1>3, Zenon
      <3>2. CountedList(n, Cat(Cat(One(m), FlattenSeq(ss)), r)) = Parsed(v, r)
        BY <1>2, <1>3, <1>8, <3>1, ListReads
      <3> QED
        BY <1>1, <3>2, Zenon
    <2> QED
      BY <1>4, <1>5, <2>1, Zenon
  <1>10. ASSUME NEW l \in 1 .. Len(s) PROVE ~ParseField(n, Chop(s, l)).ok
    <2>1. One(m) \in Seq(Nat) /\ Len(One(m)) = 1
      BY <1>2, OneIs, Zenon
    <2>2. Len(s) = 1 + Len(F)
      BY <1>3, <1>4, <2>1, CatLen, Zenon
    <2>3. l \in 1 .. Len(F) + 1
      BY <1>3, <2>2
    <2>4. CountedList(n, Chop(Cat(One(m), F), l)) = Refused
      <3>1. FlattenSeq(ss) \in Seq(Nat) /\ Len(v) = m /\ l \in 1 .. Len(FlattenSeq(ss)) + 1
        BY <1>1, <1>3, <2>3, Zenon
      <3>2. CountedList(n, Chop(Cat(One(m), FlattenSeq(ss)), l)) = Refused
        BY <1>2, <1>3, <1>8, <3>1, ListStops
      <3> QED
        BY <1>1, <3>2, Zenon
    <2> QED
      BY <1>4, <1>5, <2>4, RefusedIs, Zenon
  <1> QED
    BY <1>4, <1>9, <1>10, Zenon DEF Reads, Stops

LEMMA UnsuccessField ==
    ASSUME NEW v \in Seq(Unsuccessful), Len(v) < U8Mod, \A i \in 1 .. Len(v) : ~Contains(v[i].addr, 0),
           NEW n, n = "unsuccess_sme"
    PROVE  Reads(n, FieldOctets(n, v), v) /\ Stops(n, FieldOctets(n, v))
  <1>1. PICK ss, F, m : ss = Map(UnsuccessOctets, v) /\ F = FlattenSeq(ss) /\ m = Len(v)
    OBVIOUS
  <1>2. m \in Nat
    BY <1>1
  <1>3. /\ ss \in Seq(Seq(Nat)) /\ Len(ss) = m /\ F \in Seq(Nat)
        /\ \A i \in 1 .. m : ss[i] = UnsuccessOctets(v[i])
    BY <1>1, UnsuccessfulLen, Zenon
  <1>4. PICK s : s = FieldOctets(n, v) /\ s = Cat(One(m), F)
    <2>1. FieldOctets(n, v) = Cat(One(Len(v) % U8Mod), FlattenSeq(Map(UnsuccessOctets, v)))
      BY DEF FieldOctets, Cat, One, CStrings, Optionals
    <2>2. Len(v) % U8Mod = m
      BY <1>1, <1>2, Moduli
    <2> QED
      BY <1>1, <2>1, <2>2, Zenon
  <1>5. \A b : ParseField(n, b) = CountedList(n, b)
    BY DEF ParseField, CStrings
  <1>6. \A b : EntryParse(n, b) = parse_unsuccess_sme(b)
    BY DEF EntryParse
  <1>7. ASSUME NEW i \in 1 .. m PROVE EntryReads(n, ss[i], v[i]) /\ EntryStops(n, ss[i])
    <2>1. v[i] \in Unsuccessful /\ ~Contains(v[i].addr, 0) /\ ss[i] = UnsuccessOctets(v[i])
      <3>1. i \in 1 .. Len(v)
        BY <1>1
      <3>2. v[i] \in Unsuccessful
        BY <3>1
      <3> QED
        BY <1>3, <3>1, <3>2, Zenon
    <2>2. ASSUME NEW r \in Seq(Nat) PROVE EntryParse(n, Cat(ss[i], r)) = Parsed(v[i], r)
      BY <1>6, <2>1, UnsuccessIs, Zenon
    <2>3. ASSUME NEW l \in 1 .. Len(ss[i]) PROVE ~EntryParse(n, Chop(ss[i], l)).ok
      BY <1>6, <2>1, UnsuccessRefuses, RefusedIs, Zenon
    <2> QED
      BY <2>2, <2>3, Zenon DEF EntryReads, EntryStops
  <1>8. AllRead(n, ss, v, m)
    BY <1>7, Zenon DEF AllRead
  <1>9. ASSUME NEW r \in Seq(Nat) PROVE ParseField(n, Cat(s, r)) = Parsed(v, r)
    <2>1. CountedList(n, Cat(Cat(One(m), F), r)) = Parsed(v, r)
      <3>1. FlattenSeq(ss) \in Seq(Nat) /\ Len(v) = m
        BY <1>1, <1>3, Zenon
      <3>2. CountedList(n, Cat(Cat(One(m), FlattenSeq(ss)), r)) = Parsed(v, r)
        BY <1>2, <1>3, <1>8, <3>1, ListReads
      <3> QED
        BY <1>1, <3>2, Zenon
    <2> QED
      BY <1>4, <1>5, <2>1, Zenon
  <1>10. ASSUME NEW l \in 1 .. Len(s) PROVE ~ParseField(n, Chop(s, l)).ok
    <2>1. One(m) \in Seq(Nat) /\ Len(One(m)) = 1
      BY <1>2, OneIs, Zenon
    <2>2. Len(s) = 1 + Len(F)
      BY <1>3, <1>4, <2>1, CatLen, Zenon
    <2>3. l \in 1 .. Len(F) + 1
      BY <1>3, <2>2
    <2>4. CountedList(n, Chop(Cat(One(m), F), l)) = Refused
      <3>1. FlattenSeq(ss) \in Seq(Nat) /\ Len(v) = m /\ l \in 1 .. Len(FlattenSeq(ss)) + 1
        BY <1>1, <1>3, <2>3, Zenon
      <3>2. CountedList(n, Chop(Cat(One(m), FlattenSeq(ss)), l)) = Refused
        BY <1>2, <1>3, <1>8, <3>1, ListStops
      <3> QED
        BY <1>1, <3>2, Zenon
    <2> QED
      BY <1>4, <1>5, <2>4, RefusedIs, Zenon
  <1> QED
    BY <1>4, <1>9, <1>10, Zenon DEF Reads, Stops

\* A field that is not the last one is read whole, or not at all.
LEMMA PlainField ==
    ASSUME NEW n \in Plain, NEW v \in FieldValues(n), Good(n, v)
    PROVE  Reads(n, FieldOctets(n, v), v) /\ Stops(n, FieldOctets(n, v))
  <1>1. CASE n \in CStrings
    BY <1>1, StringField, Zenon
  <1>2. CASE n = "short_message"
    <2>1. v \in Seq(Octets) /\ Len(v) < U8Mod
      BY <1>2 DEF FieldValues, CStrings, Optionals, Good
    <2> QED
      BY <1>2, <2>1, MessageField, Zenon
  <1>3. CASE n = "dest_addresses"
    <2>1. v \in Seq(Destinations)
      BY <1>3 DEF FieldValues, CStrings, Optionals
    <2>2. Len(v) < U8Mod /\ \A i \in 1 .. Len(v) : ~Contains(v[i].addr, 0)
      BY <1>3, Zenon DEF Good
    <2> QED
      BY <1>3, <2>1, <2>2, DestField, Zenon
  <1>4. CASE n = "unsuccess_sme"
    <2>1. v \in Seq(Unsuccessful)
      BY <1>4 DEF FieldValues, CStrings, Optionals
    <2>2. Len(v) < U8Mod /\ \A i \in 1 .. Len(v) : ~Contains(v[i].addr, 0)
      BY <1>4, Zenon DEF Good
    <2> QED
      BY <1>4, <2>1, <2>2, UnsuccessField, Zenon
  <1>5. CASE n \notin CStrings /\ n \notin {"short_message", "dest_addresses", "unsuccess_sme"}
    <2>1. n \notin Optionals /\ n \notin {"short_message", "dest_addresses", "unsuccess_sme", "tlvs"}
      BY <1>5 DEF Plain, Optionals
    <2> QED
      BY <1>5, <2>1, OctetField, Zenon
  <1> QED
    BY <1>1, <1>2, <1>3, <1>4, <1>5

\* What may be lost of a last field: TLVs from the end, or the optional parameter.
Trimmed(n, u, v) == (n = "tlvs" /\ IsPrefix(u, v)) \/ (n \in Optionals /\ u = <<>>)

LEMMA PrefixIs ==
    ASSUME NEW X, NEW v \in Seq(X), NEW m \in Nat, m <= Len(v)
    PROVE  IsPrefix(SubSeq(v, 1, m), v)
  <1>1. PICK u : u = SubSeq(v, 1, m)
    OBVIOUS
  <1>2. u \in Seq(X) /\ Len(u) = m
    BY <1>1
  <1>3. SubSeq(u, 1, Len(u)) = u
    BY <1>2, PrefixEnds, Zenon
  <1>4. SubSeq(u, 1, Len(u)) = SubSeq(v, 1, Len(u))
    BY <1>1, <1>2, <1>3, Zenon
  <1>5. Len(u) <= Len(v)
    BY <1>2
  <1> QED
    BY <1>1, <1>4, <1>5, Zenon DEF IsPrefix

LEMMA TlvsField ==
    ASSUME NEW v \in Seq(Tlvs), GoodTlvs(v), NEW n, n = "tlvs"
    PROVE  /\ ParseField(n, FieldOctets(n, v)) = Parsed(v, <<>>)
           /\ \A l \in 1 .. Len(FieldOctets(n, v)) :
                \E u : ParseField(n, Chop(FieldOctets(n, v), l)) = Parsed(u, <<>>) /\ Trimmed(n, u, v)
  <1>1. FieldOctets(n, v) = FlattenSeq(Map(TlvEncode, v))
    BY DEF FieldOctets, CStrings, Optionals
  <1>2. \A b : ParseField(n, b) = Parsed(decode_tlvs(b), <<>>)
    BY DEF ParseField, CStrings
  <1>3. ParseField(n, FieldOctets(n, v)) = Parsed(v, <<>>)
    BY <1>1, <1>2, TlvsRead, Zenon
  <1>4. ASSUME NEW l \in 1 .. Len(FieldOctets(n, v))
        PROVE  \E u : ParseField(n, Chop(FieldOctets(n, v), l)) = Parsed(u, <<>>) /\ Trimmed(n, u, v)
    <2>1. PICK m \in Nat : m < Len(v) /\ decode_tlvs(Chop(FieldOctets(n, v), l)) = SubSeq(v, 1, m)
      BY <1>1, TlvsCut, Zenon
    <2>2. m <= Len(v)
      BY <2>1
    <2>3. IsPrefix(SubSeq(v, 1, m), v)
      BY <2>2, PrefixIs
    <2>4. ParseField(n, Chop(FieldOctets(n, v), l)) = Parsed(SubSeq(v, 1, m), <<>>)
      BY <1>2, <2>1, Zenon
    <2> QED
      BY <2>3, <2>4, Zenon DEF Trimmed
  <1> QED
    BY <1>3, <1>4, Zenon

\* An optional parameter that is there is one TLV, of one octet.
LEMMA OptionalIs ==
    ASSUME NEW n \in Optionals, NEW v \in FieldValues(n), v # <<>>
    PROVE  \E t \in Tlvs : /\ t.tag = TagOf(n) /\ t.value = v /\ Len(t.value) = 1
                           /\ Len(t.value) < U16Mod
                           /\ FieldOctets(n, v) = TlvEncode(t)
                           /\ TlvEncode(t) \in Seq(Nat) /\ Len(TlvEncode(t)) = 5
  <1>1. v = <<>> \/ \E o \in Octets : v = <<o>>
    BY DEF FieldValues, CStrings, Optionals
  <1>2. v \in Seq(Octets) /\ Len(v) = 1
    BY <1>1
  <1>3. PICK t : t = [tag |-> TagOf(n), value |-> v]
    OBVIOUS
  <1>4. t \in Tlvs /\ t.value = v /\ t.tag = TagOf(n)
    BY <1>2, <1>3 DEF Tlvs, TagOf, Words
  <1>5. Len(t.value) = 1
    BY <1>2, <1>4, Zenon
  <1>6. Len(t.value) < U16Mod
    BY <1>5, CodecAssumption
  <1>7. FieldOctets(n, v) = TlvEncode(t)
    <2>1. PICK x : x = IF v = <<>> THEN <<>> ELSE TlvEncode([tag |-> TagOf(n), value |-> v])
      OBVIOUS
    <2>2. FieldOctets(n, v) = x
      BY <2>1 DEF FieldOctets, CStrings, Optionals
    <2>3. x = TlvEncode([tag |-> TagOf(n), value |-> v])
      BY <2>1, Zenon
    <2> QED
      BY <1>3, <2>2, <2>3, Zenon
  <1>8. TlvEncode(t) \in Seq(Nat) /\ Len(TlvEncode(t)) = encoded_len(t)
    BY <1>4, TlvEncodeLen, Zenon
  <1>9. encoded_len(t) = 5
    BY <1>5 DEF encoded_len
  <1> QED
    BY <1>4, <1>5, <1>6, <1>7, <1>8, <1>9, Zenon

\* The optional parameter, as its TLV is decoded.
OptionalIn(n, b) == OptionalOf(decode_tlvs(b), TagOf(n))

LEMMA OptionalReads ==
    ASSUME NEW n \in Optionals, NEW v \in FieldValues(n)
    PROVE  /\ OptionalIn(n, FieldOctets(n, v)) = v
           /\ \A l \in 1 .. Len(FieldOctets(n, v)) : OptionalIn(n, Chop(FieldOctets(n, v), l)) = <<>>
  <1>1. CASE v = <<>>
    <2>1. FieldOctets(n, v) = <<>>
      BY <1>1 DEF FieldOctets, CStrings, Optionals
    <2>2. Len(<<>>) < 4 /\ Len(<<>>) = 0 /\ <<>> \in Seq(Nat)
      OBVIOUS
    <2>3. decode_tlvs(<<>>) = <<>>
      BY <2>2, TlvShort, RefusedIs, NoTlv, Zenon
    <2>4. OptionalIn(n, <<>>) = <<>>
      BY <2>3, OptionalNone, Zenon DEF OptionalIn
    <2>5. \A l \in 1 .. Len(FieldOctets(n, v)) : FALSE
      BY <2>1, <2>2
    <2> QED
      BY <1>1, <2>1, <2>4, <2>5, Zenon
  <1>2. CASE v # <<>>
    <2>1. PICK t \in Tlvs : /\ t.tag = TagOf(n) /\ t.value = v /\ Len(t.value) = 1
                            /\ Len(t.value) < U16Mod
                            /\ FieldOctets(n, v) = TlvEncode(t)
      BY <1>2, OptionalIs, Zenon
    <2>2. /\ decode_tlvs(TlvEncode(t)) = <<t>>
          /\ \A l \in 1 .. Len(TlvEncode(t)) : decode_tlvs(Chop(TlvEncode(t), l)) = <<>>
      BY <2>1, SingleTlv, Zenon
    <2>3. OptionalOf(<<t>>, TagOf(n)) = v
      BY <2>1, OptionalOne, Zenon
    <2>4. OptionalIn(n, FieldOctets(n, v)) = v
      BY <2>1, <2>2, <2>3, Zenon DEF OptionalIn
    <2>5. ASSUME NEW l \in 1 .. Len(FieldOctets(n, v))
          PROVE  OptionalIn(n, Chop(FieldOctets(n, v), l)) = <<>>
      <3>1. decode_tlvs(Chop(FieldOctets(n, v), l)) = <<>>
        BY <2>1, <2>2, Zenon
      <3> QED
        BY <3>1, OptionalNone, Zenon DEF OptionalIn
    <2> QED
      BY <2>4, <2>5, Zenon
  <1> QED
    BY <1>1, <1>2

LEMMA VersionField ==
    ASSUME NEW n, n = "sc_interface_version", NEW v \in FieldValues(n)
    PROVE  /\ ParseField(n, FieldOctets(n, v)) = Parsed(v, <<>>)
           /\ \A l \in 1 .. Len(FieldOctets(n, v)) :
                \E u : ParseField(n, Chop(FieldOctets(n, v), l)) = Parsed(u, <<>>) /\ Trimmed(n, u, v)
  <1>1. n \in Optionals
    BY DEF Optionals
  <1>2. \A b : ParseField(n, b) = Parsed(OptionalIn(n, b), <<>>)
    BY DEF ParseField, CStrings, OptionalIn
  <1>3. /\ OptionalIn(n, FieldOctets(n, v)) = v
        /\ \A l \in 1 .. Len(FieldOctets(n, v)) : OptionalIn(n, Chop(FieldOctets(n, v), l)) = <<>>
    BY <1>1, OptionalReads, Zenon
  <1>4. ParseField(n, FieldOctets(n, v)) = Parsed(v, <<>>)
    BY <1>2, <1>3, Zenon
  <1>5. ASSUME NEW l \in 1 .. Len(FieldOctets(n, v))
        PROVE  ParseField(n, Chop(FieldOctets(n, v), l)) = Parsed(<<>>, <<>>)
    BY <1>2, <1>3, Zenon
  <1>6. Trimmed(n, <<>>, v)
    BY <1>1, Zenon DEF Trimmed
  <1> QED
    BY <1>4, <1>5, <1>6, Zenon

\* One octet is taken for the bare octet of old peers.
LEMMA AvailabilityField ==
    ASSUME NEW n, n = "ms_availability_status", NEW v \in FieldValues(n)
    PROVE  /\ ParseField(n, FieldOctets(n, v)) = Parsed(v, <<>>)
           /\ ParseField(n, v) = Parsed(v, <<>>)
           /\ \A l \in 1 .. Len(FieldOctets(n, v)) : l # 4 =>
                \E u : ParseField(n, Chop(FieldOctets(n, v), l)) = Parsed(u, <<>>) /\ Trimmed(n, u, v)
  <1>1. n \in Optionals
    BY DEF Optionals
  <1>2. /\ \A b : Len(b) <= 1 => ParseField(n, b) = Parsed(b, <<>>)
        /\ \A b : ~(Len(b) <= 1) => ParseField(n, b) = Parsed(OptionalIn(n, b), <<>>)
    <2>1. \A b : ParseField(n, b) = ms_availability_parse(b)
      BY DEF ParseField, CStrings
    <2> QED
      BY <2>1, Zenon DEF ms_availability_parse, OptionalIn
  <1>3. /\ OptionalIn(n, FieldOctets(n, v)) = v
        /\ \A l \in 1 .. Len(FieldOctets(n, v)) : OptionalIn(n, Chop(FieldOctets(n, v), l)) = <<>>
    BY <1>1, OptionalReads, Zenon
  <1>4. Len(v) <= 1
    <2>1. v = <<>> \/ \E o \in Octets : v = <<o>>
      BY <1>1 DEF FieldValues, CStrings, Optionals
    <2>2. CASE v = <<>>
      <3>1. Len(<<>>) <= 1
        OBVIOUS
      <3> QED
        BY <2>2, <3>1, Zenon
    <2>3. CASE v # <<>>
      <3>1. PICK o : v = <<o>>
        BY <2>1, <2>3
      <3>2. Len(<<o>>) <= 1
        OBVIOUS
      <3> QED
        BY <3>1, <3>2, Zenon
    <2> QED
      BY <2>2, <2>3
  <1>5. ParseField(n, v) = Parsed(v, <<>>)
    BY <1>2, <1>4, Zenon
  <1>6. CASE v = <<>>
    <2>1. FieldOctets(n, v) = <<>>
      BY <1>6 DEF FieldOctets, CStrings, Optionals
    <2>2. \A l \in 1 .. Len(FieldOctets(n, v)) : FALSE
      BY <2>1
    <2>3. ParseField(n, FieldOctets(n, v)) = Parsed(v, <<>>)
      BY <1>5, <1>6, <2>1
    <2> QED
      BY <1>5, <2>2, <2>3, Zenon
  <1>7. CASE v # <<>>
    <2>1. FieldOctets(n, v) \in Seq(Nat) /\ Len(FieldOctets(n, v)) = 5
      <3>1. PICK t \in Tlvs : /\ FieldOctets(n, v) = TlvEncode(t)
                              /\ TlvEncode(t) \in Seq(Nat) /\ Len(TlvEncode(t)) = 5
        BY <1>1, <1>7, OptionalIs
      <3> QED
        BY <3>1, Zenon
    <2>2. ParseField(n, FieldOctets(n, v)) = Parsed(v, <<>>)
      <3>1. ~(Len(FieldOctets(n, v)) <= 1)
        BY <2>1
      <3> QED
        BY <1>2, <1>3, <3>1, Zenon
    <2>3. ASSUME NEW l \in 1 .. Len(FieldOctets(n, v)), l # 4
          PROVE  ParseField(n, Chop(FieldOctets(n, v), l)) = Parsed(<<>>, <<>>)
      <3>1. PICK s : s = Chop(FieldOctets(n, v), l)
        OBVIOUS
      <3>2. s \in Seq(Nat) /\ Len(s) = 5 - l
        <4>1. l \in 0 .. Len(FieldOctets(n, v))
          BY <2>1
        <4>2. Chop(FieldOctets(n, v), l) \in Seq(Nat)
              /\ Len(Chop(FieldOctets(n, v), l)) = Len(FieldOctets(n, v)) - l
          BY <2>1, <4>1, ChopIs, Zenon
        <4> QED
          BY <2>1, <3>1, <4>2, Zenon
      <3>3. CASE l = 5
        <4>1. Len(s) = 0 /\ Len(s) <= 1
          BY <3>2, <3>3
        <4>2. s = <<>>
          BY <3>2, <4>1, EmptySeq
        <4> QED
          BY <1>2, <3>1, <4>1, <4>2, Zenon
      <3>4. CASE l # 5
        <4>1. ~(Len(s) <= 1)
          BY <2>1, <2>3, <3>2, <3>4
        <4> QED
          BY <1>2, <1>3, <3>1, <4>1, Zenon
      <3> QED
        BY <3>3, <3>4
    <2>4. Trimmed(n, <<>>, v)
      BY <1>1, Zenon DEF Trimmed
    <2> QED
      BY <1>5, <2>2, <2>3, <2>4, Zenon
  <1> QED
    BY <1>6, <1>7

\* What the last field is read as, whole or cut.
LEMMA LastField ==
    ASSUME NEW n \in LastOnly, NEW v \in FieldValues(n), Good(n, v)
    PROVE  /\ ParseField(n, FieldOctets(n, v)) = Parsed(v, <<>>)
           /\ \A l \in 1 .. Len(FieldOctets(n, v)) :
                ~(n = "ms_availability_status" /\ l = 4) =>
                \E u : ParseField(n, Chop(FieldOctets(n, v), l)) = Parsed(u, <<>>) /\ Trimmed(n, u, v)
  <1>1. CASE n = "tlvs"
    <2>1. v \in Seq(Tlvs)
      BY <1>1 DEF FieldValues, CStrings, Optionals
    <2>2. GoodTlvs(v)
      BY <1>1, Zenon DEF Good
    <2> QED
      BY <1>1, <2>1, <2>2, TlvsField, Zenon
  <1>2. CASE n = "sc_interface_version"
    BY <1>2, VersionField, Zenon
  <1>3. CASE n = "ms_availability_status"
    BY <1>3, AvailabilityField, Zenon
  <1> QED
    BY <1>1, <1>2, <1>3 DEF LastOnly, Optionals

-----------------------------------------------------------------------------
(* The fields of a body, one after the other.                               *)

AllParse(w, v, c, n) == \A i \in 1 .. n : ParseField(w[i], c[i - 1]) = Parsed(v[i], c[i])

LEMMA FieldsVia ==
    ASSUME NEW w, NEW n \in Nat, Len(w) = n, NEW X, NEW v \in Seq(X), Len(v) = n, NEW c,
           AllParse(w, v, c, n)
    PROVE  Fields(w, c[0]) = Parsed(v, c[n])
  <1>1. PICK j \in 1 .. n + 1 : j = n + 1 /\ j <= Len(v) + 1 /\ j > n /\ ~(j <= n)
    OBVIOUS
  <1>2. \A i \in 1 .. j - 1 : ParseField(w[i], c[i - 1]) = Parsed(v[i], c[i])
    BY <1>1 DEF AllParse
  <1>3. FieldsGo(w, v, c, j, n)
    BY <1>1, <1>2, Zenon DEF FieldsGo
  <1>4. j > n /\ Len(v) = n => Fields(w, c[0]) = Parsed(v, c[n])
    <2>1. v \in Seq(X) /\ n \in Nat /\ Len(w) = n /\ j \in 1 .. n + 1 /\ j <= Len(v) + 1
      BY <1>1
    <2> QED
      BY <1>3, <2>1, FieldsRun
  <1> QED
    BY <1>1, <1>4

\* The fields but the last are read whatever follows them, the last one when
\* nothing does.
BodyReads(w, ss, v, n) ==
    /\ \A i \in 1 .. n - 1 : Reads(w[i], ss[i], v[i])
    /\ n > 0 => ParseField(w[n], ss[n]) = Parsed(v[n], <<>>)

LEMMA FieldsWhole ==
    ASSUME NEW w, NEW n \in Nat, Len(w) = n, NEW ss \in Seq(Seq(Nat)), Len(ss) = n,
           NEW X, NEW v \in Seq(X), Len(v) = n, BodyReads(w, ss, v, n)
    PROVE  Fields(w, FlattenSeq(ss)) = Parsed(v, <<>>)
  <1>1. <<>> \in Seq(Nat) /\ FlattenSeq(ss) \in Seq(Nat)
    <2>1. PICK R : Tails(ss, R) /\ R[0] = FlattenSeq(ss)
      BY TailsExist
    <2>2. 0 \in 0 .. Len(ss)
      OBVIOUS
    <2>3. R[0] \in Seq(Nat)
      BY <2>1, <2>2 DEF Tails
    <2>4. <<>> \in Seq(Nat)
      OBVIOUS
    <2> QED
      BY <2>1, <2>3, <2>4, Zenon
  <1>2. PICK c : c[0] = Cat(FlattenSeq(ss), <<>>) /\ c[n] = <<>> /\ Chain(ss, c, n)
    <2>1. \E C : C[0] = Cat(FlattenSeq(ss), <<>>) /\ C[Len(ss)] = <<>> /\ Chain(ss, C, Len(ss))
      BY <1>1, WholeChain, Zenon
    <2> QED
      BY <2>1
  <1>3. c[0] = FlattenSeq(ss)
    BY <1>1, <1>2, CatEmpty, Zenon
  <1>4. ASSUME NEW i \in 1 .. n PROVE ParseField(w[i], c[i - 1]) = Parsed(v[i], c[i])
    <2>1. c[i - 1] = Cat(ss[i], c[i]) /\ c[i] \in Seq(Nat)
      BY <1>2, Zenon DEF Chain
    <2>2. CASE i < n
      <3>1. i \in 1 .. n - 1
        BY <2>2
      <3>2. Reads(w[i], ss[i], v[i])
        BY <3>1, Zenon DEF BodyReads
      <3>3. ParseField(w[i], Cat(ss[i], c[i])) = Parsed(v[i], c[i])
        BY <2>1, <3>2, Zenon DEF Reads
      <3> QED
        BY <2>1, <3>3, Zenon
    <2>3. CASE i = n
      <3>1. ss[i] \in Seq(Nat) /\ n > 0
        BY <2>3
      <3>2. c[i] = <<>>
        BY <1>2, <2>3
      <3>3. c[i - 1] = ss[i]
        BY <2>1, <3>1, <3>2, CatEmpty, Zenon
      <3>4. ParseField(w[n], ss[n]) = Parsed(v[n], <<>>)
        BY <3>1, Zenon DEF BodyReads
      <3>5. ParseField(w[i], ss[i]) = Parsed(v[i], <<>>)
        BY <2>3, <3>4
      <3> QED
        BY <3>2, <3>3, <3>5, Zenon
    <2> QED
      BY <2>2, <2>3
  <1>5. Fields(w, c[0]) = Parsed(v, c[n])
    <2>1. AllParse(w, v, c, n)
      BY <1>4, Zenon DEF AllParse
    <2> QED
      BY <2>1, FieldsVia
  <1> QED
    BY <1>2, <1>3, <1>5, Zenon

\* A cut in a field that is not the last: refused.
LEMMA FieldsRefuse ==
    ASSUME NEW w, NEW n \in Nat, Len(w) = n, NEW ss \in Seq(Seq(Nat)), Len(ss) = n,
           NEW X, NEW v \in Seq(X), Len(v) = n, NEW k, NEW j, NEW l, NEW c, CutAt(ss, k, j, l, c),
           \A i \in 1 .. j - 1 : Reads(w[i], ss[i], v[i]), Stops(w[j], ss[j])
    PROVE  Fields(w, Chop(FlattenSeq(ss), k)) = Refused
  <1>1. /\ j \in 1 .. Len(ss) /\ l \in 1 .. Len(ss[j]) /\ c[0] = Chop(FlattenSeq(ss), k)
        /\ Chain(ss, c, j - 1) /\ c[j - 1] = Chop(ss[j], l)
    BY Zenon DEF CutAt
  <1>2. j \in 1 .. n + 1 /\ j <= Len(v) + 1 /\ j <= n
    BY <1>1
  <1>3. ASSUME NEW i \in 1 .. j - 1 PROVE ParseField(w[i], c[i - 1]) = Parsed(v[i], c[i])
    <2>1. c[i - 1] = Cat(ss[i], c[i]) /\ c[i] \in Seq(Nat)
      BY <1>1, Zenon DEF Chain
    <2>2. Reads(w[i], ss[i], v[i])
      OBVIOUS
    <2>3. ParseField(w[i], Cat(ss[i], c[i])) = Parsed(v[i], c[i])
      BY <2>1, <2>2, Zenon DEF Reads
    <2> QED
      BY <2>1, <2>3, Zenon
  <1>4. ~ParseField(w[j], c[j - 1]).ok
    <2>1. ~ParseField(w[j], Chop(ss[j], l)).ok
      BY <1>1, Zenon DEF Stops
    <2> QED
      BY <1>1, <2>1, Zenon
  <1>5. FieldsGo(w, v, c, j, n)
    BY <1>3, <1>4, Zenon DEF FieldsGo
  <1>6. j <= n => Fields(w, c[0]) = Refused
    BY <1>2, <1>5, FieldsRun
  <1> QED
    BY <1>1, <1>2, <1>6

\* A cut in the last field: the others are what they were.
ReadUpTo(w, ss, v, m) == \A i \in 1 .. m : Reads(w[i], ss[i], v[i])

\* The values v, the last of the n replaced by u.
LastIs(v, n, u) == [i \in 1 .. n |-> IF i = n THEN u ELSE v[i]]

\* Every part but the last of n is read as it was, and what a cut of k octets
\* leaves of the last is read as u.
TrimmedAt(w, n, ss, v, k, c, u, x) ==
    /\ n \in Nat /\ Len(w) = n /\ ss \in Seq(Seq(Nat)) /\ Len(ss) = n
    /\ CutAt(ss, k, n, k, c) /\ ReadUpTo(w, ss, v, n - 1)
    /\ ParseField(w[n], Chop(ss[n], k)) = Parsed(u, <<>>)
    /\ x = LastIs(v, n, u)

LEMMA FieldsTrim ==
    ASSUME NEW w, NEW n, NEW ss, NEW v, NEW k, NEW c, NEW u, NEW x,
           TrimmedAt(w, n, ss, v, k, c, u, x)
    PROVE  Fields(w, Chop(FlattenSeq(ss), k)) = Parsed(x, <<>>)
  <1>0. /\ n \in Nat /\ Len(w) = n /\ ss \in Seq(Seq(Nat)) /\ Len(ss) = n
        /\ CutAt(ss, k, n, k, c) /\ ReadUpTo(w, ss, v, n - 1)
        /\ ParseField(w[n], Chop(ss[n], k)) = Parsed(u, <<>>) /\ x = LastIs(v, n, u)
    BY Zenon DEF TrimmedAt
  <1>1. /\ n \in 1 .. Len(ss) /\ c[0] = Chop(FlattenSeq(ss), k)
        /\ Chain(ss, c, n - 1) /\ c[n - 1] = Chop(ss[n], k)
    BY <1>0, Zenon DEF CutAt
  <1> USE <1>0
  <1>2. PICK d : /\ x = [i \in 1 .. n |-> IF i = n THEN u ELSE v[i]]
                 /\ d = [i \in 0 .. n |-> IF i = n THEN <<>> ELSE c[i]]
    BY DEF LastIs
  <1>3. PICK X : X = {x[i] : i \in 1 .. n}
    OBVIOUS
  <1>4. x \in Seq(X) /\ Len(x) = n
    <2>1. x = [i \in 1 .. n |-> x[i]]
      BY <1>2
    <2>2. \A i \in 1 .. n : x[i] \in X
      BY <1>3
    <2>3. x \in [1 .. n -> X]
      BY <2>1, <2>2, Zenon
    <2> QED
      BY <2>3
  <1>5. /\ d[n] = <<>> /\ x[n] = u
        /\ \A i \in 0 .. n - 1 : d[i] = c[i]
        /\ \A i \in 1 .. n - 1 : x[i] = v[i]
    BY <1>1, <1>2
  <1>6. ASSUME NEW i \in 1 .. n PROVE ParseField(w[i], d[i - 1]) = Parsed(x[i], d[i])
    <2>1. CASE i < n
      <3>1. i \in 1 .. n - 1 /\ i \in 0 .. n - 1 /\ i - 1 \in 0 .. n - 1
        BY <2>1
      <3>2. c[i - 1] = Cat(ss[i], c[i]) /\ c[i] \in Seq(Nat)
        BY <1>1, <3>1, Zenon DEF Chain
      <3>3. Reads(w[i], ss[i], v[i])
        BY <3>1, Zenon DEF ReadUpTo
      <3>4. ParseField(w[i], c[i - 1]) = Parsed(v[i], c[i])
        BY <3>2, <3>3, Zenon DEF Reads
      <3>5. d[i - 1] = c[i - 1] /\ d[i] = c[i] /\ x[i] = v[i]
        BY <1>5, <3>1
      <3> QED
        BY <3>4, <3>5, Zenon
    <2>2. CASE i = n
      <3>1. d[i - 1] = Chop(ss[n], k)
        <4>1. n - 1 \in 0 .. n - 1
          BY <1>1
        <4> QED
          BY <1>1, <1>5, <2>2, <4>1
      <3>2. ParseField(w[i], d[i - 1]) = Parsed(u, <<>>)
        BY <2>2, <3>1
      <3>3. x[i] = u /\ d[i] = <<>>
        BY <1>5, <2>2
      <3> QED
        BY <3>2, <3>3, Zenon
    <2> QED
      BY <2>1, <2>2
  <1>7. Fields(w, d[0]) = Parsed(x, d[n])
    <2>1. AllParse(w, x, d, n)
      BY <1>6, Zenon DEF AllParse
    <2> QED
      BY <1>4, <2>1, FieldsVia
  <1>8. d[0] = c[0]
    <2>1. 0 \in 0 .. n - 1
      BY <1>1
    <2> QED
      BY <1>5, <2>1
  <1> QED
    BY <1>1, <1>2, <1>5, <1>7, <1>8, Zenon

-----------------------------------------------------------------------------
(* The fields of a PDU.                                                     *)

\* The fields of every command but alert_notification.
Others == Names \ {"ms_availability_status"}

LEMMA OthersOf ==
    ASSUME NEW cmd \in Commands, cmd # "alert_notification", NEW ok \in BOOLEAN
    PROVE  Written(cmd, ok) \in Seq(Others)
  <1>1. Src \in Seq(Others) /\ Dst \in Seq(Others) /\ When \in Seq(Others)
    BY DEF Src, Dst, When, Others, Names, Plain, CStrings
  <1>2. How \in Seq(Others) /\ Opts \in Seq(Others)
    BY DEF How, Opts, Others, Names, Plain, CStrings
  <1>3. <<"service_type">> \in Seq(Others) /\ <<"message_id">> \in Seq(Others)
        /\ <<"dest_addresses">> \in Seq(Others) /\ <<"service_type", "message_id">> \in Seq(Others)
    BY DEF Others, Names, Plain, CStrings
  <1>4. <<"registered_delivery", "sm_default_msg_id", "short_message">> \in Seq(Others)
        /\ <<"short_message", "tlvs">> \in Seq(Others)
        /\ <<"esm_class", "registered_delivery", "data_coding", "tlvs">> \in Seq(Others)
    BY DEF Others, Names, Plain, CStrings, LastOnly
  <1>5. encode_bind_request \in Seq(Others) /\ outbind_encode \in Seq(Others)
    BY DEF Others, Names, Plain, CStrings, encode_bind_request, outbind_encode
  <1>6. encode_bind_response \in Seq(Others) /\ query_sm_resp_encode \in Seq(Others) /\ <<>> \in Seq(Others)
    BY DEF Others, Names, Plain, CStrings, LastOnly, Optionals, encode_bind_response, query_sm_resp_encode
  <1>7. submit_sm_resp_encode \in Seq(Others) /\ deliver_sm_resp_encode \in Seq(Others)
        /\ submit_multi_resp_encode \in Seq(Others)
    BY DEF Others, Names, Plain, CStrings, submit_sm_resp_encode, deliver_sm_resp_encode,
           submit_multi_resp_encode
  <1>8. data_sm_resp_encode(TRUE) \in Seq(Others) /\ data_sm_resp_encode(FALSE) \in Seq(Others)
    BY DEF Others, Names, Plain, CStrings, LastOnly, data_sm_resp_encode
  <1>9. \A s, t \in Seq(Others) : s \o t \in Seq(Others)
    BY ConcatProperties, Zenon
  <1>10. submit_sm_encode \in Seq(Others) /\ deliver_sm_encode \in Seq(Others)
    BY <1>1, <1>2, <1>3, <1>4, <1>9, Zenon DEF submit_sm_encode, deliver_sm_encode
  <1>11. submit_multi_encode \in Seq(Others) /\ data_sm_encode \in Seq(Others)
    BY <1>1, <1>2, <1>3, <1>4, <1>9, Zenon DEF submit_multi_encode, data_sm_encode
  <1>12. query_sm_encode \in Seq(Others) /\ replace_sm_encode \in Seq(Others)
         /\ cancel_sm_encode \in Seq(Others)
    BY <1>1, <1>2, <1>3, <1>4, <1>9, Zenon DEF query_sm_encode, replace_sm_encode, cancel_sm_encode
  <1> QED
    BY <1>5, <1>6, <1>7, <1>8, <1>10, <1>11, <1>12
       DEF Written, Commands, CommandId, Resps, Binds, BindResps, HeaderOnly

\* The fields of alert_notification have no count before them.
Countless == Names \ {"short_message", "dest_addresses"}

LEMMA AlertNames ==
    ASSUME NEW ok \in BOOLEAN
    PROVE  Written("alert_notification", ok) \in Seq(Countless)
  <1>1. Src \in Seq(Countless) /\ EsmeAddr \in Seq(Countless)
    BY DEF Src, EsmeAddr, Countless, Names, Plain, CStrings
  <1>2. <<"ms_availability_status">> \in Seq(Countless)
    BY DEF Countless, Names, LastOnly, Optionals
  <1>3. \A s, t \in Seq(Countless) : s \o t \in Seq(Countless)
    BY ConcatProperties, Zenon
  <1>4. alert_notification_encode \in Seq(Countless)
    BY <1>1, <1>2, <1>3, Zenon DEF alert_notification_encode
  <1>5. Written("alert_notification", ok) = alert_notification_encode
    BY DEF Written, Resps, Binds, BindResps, HeaderOnly
  <1> QED
    BY <1>4, <1>5, Zenon

\* An alert_notification is always built.
LEMMA AlertBuilt ==
    ASSUME NEW p, IsPdu(p), p.cmd = "alert_notification"
    PROVE  ~NewPanics(p)
  <1>1. PICK w : w = Written(p.cmd, p.ok)
    OBVIOUS
  <1>2. p.ok \in BOOLEAN /\ DOMAIN p.f \subseteq ToSet(w)
    BY <1>1, Zenon DEF IsPdu
  <1>3. w \in Seq(Countless)
    BY <1>1, <1>2, AlertNames, Zenon
  <1>4. \A x \in ToSet(w) : x \in Countless
    BY <1>3 DEF ToSet
  <1>5. "short_message" \notin DOMAIN p.f /\ "dest_addresses" \notin DOMAIN p.f
    BY <1>2, <1>4 DEF Countless
  <1>6. Val(p, "short_message") = <<>> /\ Val(p, "dest_addresses") = <<>>
    BY <1>5, Zenon DEF Val
  <1>7. ~(Len(<<>>) > U8Mod - 2)
    BY CodecAssumption
  <1> QED
    BY <1>6, <1>7, Zenon DEF NewPanics

LEMMA EmptyString == ~Contains(<<>>, 0)
  BY DEF Contains

\* The values of a PDU that SMPP can express are good ones.
LEMMA GoodFields ==
    ASSUME NEW p, IsPdu(p), Fits(p), ~NewPanics(p), NEW i \in 1 .. Len(Written(p.cmd, p.ok))
    PROVE  Good(Written(p.cmd, p.ok)[i], Val(p, Written(p.cmd, p.ok)[i]))
  <1>1. PICK n, v : n = Written(p.cmd, p.ok)[i] /\ v = Val(p, n)
    OBVIOUS
  <1>2. n \in Names /\ v \in FieldValues(n)
    BY <1>1, ValTyped, Zenon
  <1>3. ASSUME n \in CStrings PROVE ~Contains(v, 0)
    <2>1. CASE n \in DOMAIN p.f
      <3>1. v = p.f[n]
        BY <1>1, <2>1, Zenon DEF Val
      <3>2. v \in Strings(p)
        BY <1>3, <2>1, <3>1 DEF Strings
      <3> QED
        BY <3>2, Zenon DEF Fits
    <2>2. CASE n \notin DOMAIN p.f
      <3>1. v = <<>>
        BY <1>1, <2>2, Zenon DEF Val
      <3> QED
        BY <3>1, EmptyString, Zenon
    <2> QED
      BY <2>1, <2>2
  <1>4. ASSUME n = "short_message" PROVE Len(v) < U8Mod
    <2>1. v \in Seq(Octets)
      BY <1>2, <1>4 DEF FieldValues, CStrings, Optionals
    <2>2. ~(Len(v) > U8Mod - 2)
      BY <1>1, <1>4, Zenon DEF NewPanics
    <2>3. Len(v) \in Nat
      BY <2>1
    <2> QED
      BY <2>2, <2>3, CodecAssumption
  <1>5. ASSUME n = "dest_addresses"
        PROVE  Len(v) < U8Mod /\ \A k \in 1 .. Len(v) : ~Contains(v[k].addr, 0)
    <2>1. v \in Seq(Destinations)
      BY <1>2, <1>5 DEF FieldValues, CStrings, Optionals
    <2>2. ~(Len(v) > U8Mod - 2)
      BY <1>1, <1>5, Zenon DEF NewPanics
    <2>3. Len(v) \in Nat
      BY <2>1
    <2>4. Len(v) < U8Mod
      BY <2>2, <2>3, CodecAssumption
    <2>5. ASSUME NEW k \in 1 .. Len(v) PROVE ~Contains(v[k].addr, 0)
      <3>1. v[k] \in ToSet(v)
        BY <2>1 DEF ToSet
      <3>2. v[k] \in ToSet(Val(p, "dest_addresses"))
        BY <1>1, <1>5, <3>1, Zenon
      <3>3. v[k].addr \in Strings(p)
        BY <3>2, Zenon DEF Strings
      <3> QED
        BY <3>3, Zenon DEF Fits
    <2> QED
      BY <2>4, <2>5
  <1>6. ASSUME n = "unsuccess_sme"
        PROVE  Len(v) < U8Mod /\ \A k \in 1 .. Len(v) : ~Contains(v[k].addr, 0)
    <2>1. v \in Seq(Unsuccessful)
      BY <1>2, <1>6 DEF FieldValues, CStrings, Optionals
    <2>2. Len(v) < U8Mod
      BY <1>1, <1>6, Zenon DEF Fits
    <2>3. ASSUME NEW k \in 1 .. Len(v) PROVE ~Contains(v[k].addr, 0)
      <3>1. v[k] \in ToSet(v)
        BY <2>1 DEF ToSet
      <3>2. v[k] \in ToSet(Val(p, "unsuccess_sme"))
        BY <1>1, <1>6, <3>1, Zenon
      <3>3. v[k].addr \in Strings(p)
        BY <3>2, Zenon DEF Strings
      <3> QED
        BY <3>3, Zenon DEF Fits
    <2> QED
      BY <2>2, <2>3
  <1>7. ASSUME n = "tlvs" PROVE GoodTlvs(v)
    <2>1. v \in Seq(Tlvs)
      BY <1>2, <1>7 DEF FieldValues, CStrings, Optionals
    <2>2. ASSUME NEW k \in 1 .. Len(v) PROVE Len(v[k].value) < U16Mod
      <3>1. v[k] \in ToSet(v)
        BY <2>1 DEF ToSet
      <3>2. v[k] \in ToSet(Val(p, "tlvs"))
        BY <1>1, <1>7, <3>1, Zenon
      <3> QED
        BY <3>2, Zenon DEF Fits
    <2> QED
      BY <2>2, Zenon DEF GoodTlvs
  <1>8. Good(n, v)
    <2>1. ASSUME n \in {"dest_addresses", "unsuccess_sme"}
          PROVE  Len(v) < U8Mod /\ \A k \in 1 .. Len(v) : ~Contains(v[k].addr, 0)
      BY <1>5, <1>6, <2>1, Zenon
    <2> QED
      BY <1>3, <1>4, <1>7, <2>1, Zenon DEF Good
  <1> QED
    BY <1>1, <1>8, Zenon

\* The values of a PDU, in the order encode writes them.
Vals(p) == [i \in 1 .. Len(Written(p.cmd, p.ok)) |-> Val(p, Written(p.cmd, p.ok)[i])]

LEMMA ValsAre ==
    ASSUME NEW p, IsPdu(p), NEW w, w = Written(p.cmd, p.ok), NEW n, n = Len(w), NEW v, v = Vals(p)
    PROVE  /\ n \in Nat /\ Len(v) = n /\ \A i \in 1 .. n : v[i] = Val(p, w[i])
           /\ \E X : v \in Seq(X)
  <1>1. p.cmd \in Commands /\ p.ok \in BOOLEAN
    BY Zenon DEF IsPdu
  <1>2. w \in Seq(Names)
    BY <1>1, WrittenEnds, Zenon DEF Ends
  <1>3. n \in Nat
    BY <1>2
  <1>4. v = [i \in 1 .. n |-> Val(p, w[i])]
    BY Zenon DEF Vals
  <1>5. PICK X : X = {v[i] : i \in 1 .. n}
    OBVIOUS
  <1>6. v \in [1 .. n -> X]
    BY <1>4, <1>5
  <1>7. v \in Seq(X) /\ Len(v) = n
    BY <1>3, <1>6
  <1>8. \A i \in 1 .. n : v[i] = Val(p, w[i])
    BY <1>4, Zenon
  <1> QED
    BY <1>3, <1>7, <1>8, Zenon

\* A last field that was cut is read, and nothing is made up: but for the one
\* octet that is taken for the bare octet of old peers.
CutReads(n, s, v) ==
    \A l \in 1 .. Len(s) : ~(n = "ms_availability_status" /\ l = 4) =>
      \E u : ParseField(n, Chop(s, l)) = Parsed(u, <<>>) /\ Trimmed(n, u, v)

\* Every field of a PDU that SMPP can express is read as it was written.
LEMMA PduFields ==
    ASSUME NEW p, IsPdu(p), Fits(p), ~NewPanics(p), NEW w, w = Written(p.cmd, p.ok),
           NEW ss, ss = Parts(p), NEW v, v = Vals(p), NEW i \in 1 .. Len(w)
    PROVE  /\ w[i] \in Plain => Reads(w[i], ss[i], v[i]) /\ Stops(w[i], ss[i])
           /\ ParseField(w[i], ss[i]) = Parsed(v[i], <<>>)
           /\ w[i] \in LastOnly => CutReads(w[i], ss[i], v[i])
  <1>1. PICK m, x, s : m = w[i] /\ x = v[i] /\ s = ss[i]
    OBVIOUS
  <1>2. x = Val(p, m)
    <2>0. PICK n : n = Len(w)
      OBVIOUS
    <2>1. \A k \in 1 .. n : v[k] = Val(p, w[k])
      BY <2>0, ValsAre
    <2> QED
      BY <1>1, <2>0, <2>1, Zenon
  <1>3. s = FieldOctets(m, x)
    <2>1. Len(ss) = Len(w) /\ \A k \in 1 .. Len(ss) : ss[k] = FieldOctets(w[k], Val(p, w[k]))
      BY BodyLen, Zenon
    <2> QED
      BY <1>1, <1>2, <2>1, Zenon
  <1>4. m \in Names /\ x \in FieldValues(m)
    BY <1>1, <1>2, ValTyped, Zenon
  <1>5. Good(m, x)
    BY <1>1, <1>2, GoodFields, Zenon
  <1>6. ASSUME m \in Plain
        PROVE  Reads(m, s, x) /\ Stops(m, s) /\ ParseField(m, s) = Parsed(x, <<>>)
    <2>1. Reads(m, s, x) /\ Stops(m, s)
      BY <1>3, <1>4, <1>5, <1>6, PlainField, Zenon
    <2>2. s \in Seq(Nat)
      BY <1>3, <1>4, FieldOctetsLen, Zenon
    <2>3. <<>> \in Seq(Nat)
      OBVIOUS
    <2>4. ParseField(m, Cat(s, <<>>)) = Parsed(x, <<>>)
      BY <2>1, <2>3, Zenon DEF Reads
    <2> QED
      BY <2>1, <2>2, <2>4, CatEmpty, Zenon
  <1>7. ASSUME m \in LastOnly
        PROVE  ParseField(m, s) = Parsed(x, <<>>) /\ CutReads(m, s, x)
    <2>1. /\ ParseField(m, FieldOctets(m, x)) = Parsed(x, <<>>)
          /\ \A l \in 1 .. Len(FieldOctets(m, x)) : ~(m = "ms_availability_status" /\ l = 4) =>
               \E u : ParseField(m, Chop(FieldOctets(m, x), l)) = Parsed(u, <<>>) /\ Trimmed(m, u, x)
      BY <1>4, <1>5, <1>7, LastField
    <2> QED
      BY <1>3, <2>1 DEF CutReads
  <1>8. m \in Plain \/ m \in LastOnly
    BY <1>4 DEF Names
  <1> QED
    BY <1>1, <1>6, <1>7, <1>8, Zenon

\* The list of fields, and which of them may be the last.
LEMMA PduNames ==
    ASSUME NEW p, IsPdu(p), NEW w, w = Written(p.cmd, p.ok)
    PROVE  /\ p.cmd \in Commands /\ p.ok \in BOOLEAN
           /\ w \in Seq(Names) /\ Len(w) \in Nat
           /\ \A i \in 1 .. Len(w) - 1 : w[i] \in Plain
  <1>1. p.cmd \in Commands /\ p.ok \in BOOLEAN
    BY Zenon DEF IsPdu
  <1>2. w \in Seq(Names) /\ \A i \in 1 .. Len(w) - 1 : w[i] \in Plain
    BY <1>1, WrittenEnds, Zenon DEF Ends
  <1>3. Len(w) \in Nat
    BY <1>2
  <1> QED
    BY <1>1, <1>2, <1>3

LEMMA WholeFields ==
    ASSUME NEW p, IsPdu(p), Fits(p), ~NewPanics(p), NEW w, w = Written(p.cmd, p.ok)
    PROVE  Fields(w, BodyOctets(p)) = Parsed(Vals(p), <<>>)
  <1>1. PICK n, ss, v : n = Len(w) /\ ss = Parts(p) /\ v = Vals(p)
    OBVIOUS
  <1>2. n \in Nat /\ Len(v) = n
    BY <1>1, ValsAre, Zenon
  <1>3. PICK X : v \in Seq(X)
    BY <1>1, ValsAre, Zenon
  <1>4. ss \in Seq(Seq(Nat)) /\ Len(ss) = n /\ BodyOctets(p) = FlattenSeq(ss)
    BY <1>1, BodyLen, Zenon
  <1>5. ASSUME NEW i \in 1 .. n - 1 PROVE Reads(w[i], ss[i], v[i])
    <2>1. w[i] \in Plain
      BY <1>1, PduNames, Zenon
    <2>2. i \in 1 .. Len(w)
      BY <1>1, <1>2
    <2> QED
      BY <1>1, <2>1, <2>2, PduFields, Zenon
  <1>6. ASSUME n > 0 PROVE ParseField(w[n], ss[n]) = Parsed(v[n], <<>>)
    <2>1. PICK i : i = n /\ i \in 1 .. Len(w)
      BY <1>1, <1>2, <1>6
    <2>2. ParseField(w[i], ss[i]) = Parsed(v[i], <<>>)
      BY <1>1, <2>1, PduFields
    <2> QED
      BY <2>1, <2>2, Zenon
  <1>7. BodyReads(w, ss, v, n)
    BY <1>5, <1>6, Zenon DEF BodyReads
  <1>8. Fields(w, FlattenSeq(ss)) = Parsed(v, <<>>)
    BY <1>1, <1>2, <1>3, <1>4, <1>7, FieldsWhole
  <1> QED
    BY <1>1, <1>4, <1>8, Zenon

\* An alert_notification of smpp34 up to 1.2.1.
LEMMA OldFields ==
    ASSUME NEW p, IsPdu(p), Fits(p), ~NewPanics(p), p.cmd = "alert_notification",
           NEW w, w = Written(p.cmd, p.ok)
    PROVE  Fields(w, OldBody(p)) = Parsed(Vals(p), <<>>)
  <1>1. PICK ss, v : ss = Parts(p) /\ v = Vals(p)
    OBVIOUS
  <1>2. PICK n \in Nat : /\ n > 0 /\ Len(w) = n /\ w[n] = "ms_availability_status"
                         /\ \A i \in 1 .. n - 1 : w[i] \in Plain
    <2>1. p.ok \in BOOLEAN /\ w = Written("alert_notification", p.ok)
      BY Zenon DEF IsPdu
    <2> QED
      BY <2>1, AlertLast
  <1>3. Len(v) = n /\ \A i \in 1 .. n : v[i] = Val(p, w[i])
    BY <1>1, <1>2, ValsAre
  <1>4. PICK X : v \in Seq(X)
    BY <1>1, <1>2, ValsAre
  <1>5. ss \in Seq(Seq(Nat)) /\ Len(ss) = n /\ BodyOctets(p) = FlattenSeq(ss)
    BY <1>1, <1>2, BodyLen, Zenon
  <1>6. PICK o : o = p.f["ms_availability_status"]
    OBVIOUS
  <1>7. /\ o = Val(p, "ms_availability_status") /\ o \in Seq(Nat)
        /\ o \in FieldValues("ms_availability_status")
    BY <1>6, AlertBodies, Zenon
  <1>8. PICK pre \in Seq(Nat) : /\ BodyOctets(p) = Cat(pre, FieldOctets("ms_availability_status", o))
                                /\ OldBody(p) = Cat(pre, o)
    BY <1>6, AlertBodies, Zenon
  <1>9. PICK tt : tt = [i \in 1 .. n |-> IF i = n THEN o ELSE ss[i]]
    OBVIOUS
  <1>10. tt[n] = o /\ \A i \in 1 .. n - 1 : tt[i] = ss[i]
    BY <1>2, <1>9
  <1>11. tt \in Seq(Seq(Nat)) /\ Len(tt) = n
    <2>1. \A i \in 1 .. n : ss[i] \in Seq(Nat)
      BY <1>5
    <2>2. tt \in [1 .. n -> Seq(Nat)]
      BY <1>7, <1>9, <2>1
    <2> QED
      BY <2>2
  <1>12. PICK q \in Seq(Nat) : FlattenSeq(ss) = Cat(q, ss[n]) /\ FlattenSeq(tt) = Cat(q, tt[n])
    <2>1. \A i \in 1 .. n - 1 : ss[i] = tt[i]
      BY <1>10
    <2> QED
      BY <1>2, <1>5, <1>11, <2>1, LastPart
  <1>13. ss[n] = FieldOctets("ms_availability_status", o)
    <2>1. PICK i : i = n /\ i \in 1 .. Len(ss)
      BY <1>2, <1>5
    <2>2. ss[i] = FieldOctets(w[i], Val(p, w[i]))
      BY <1>1, <2>1, BodyLen, Zenon
    <2> QED
      BY <1>2, <1>7, <2>1, <2>2, Zenon
  <1>14. pre = q
    <2>1. PICK y \in Seq(Nat) : y = ss[n]
      BY <1>2, <1>5
    <2>2. Cat(pre, y) = Cat(q, y)
      BY <1>5, <1>8, <1>12, <1>13, <2>1, Zenon
    <2>3. Len(Cat(pre, y)) = Len(pre) + Len(y) /\ Len(Cat(q, y)) = Len(q) + Len(y)
      BY CatLen, Zenon
    <2>4. PICK a \in Nat, b \in Nat, d \in Nat : a = Len(pre) /\ b = Len(q) /\ d = Len(y)
      OBVIOUS
    <2>5. a + d = b + d
      BY <2>2, <2>3, <2>4, Zenon
    <2>6. a = b
      BY <2>5
    <2>7. SubSeq(Cat(pre, y), 1, Len(pre)) = pre /\ SubSeq(Cat(q, y), 1, Len(q)) = q
      BY CatSplit, Zenon
    <2> QED
      BY <2>2, <2>4, <2>6, <2>7, Zenon
  <1>15. OldBody(p) = FlattenSeq(tt)
    BY <1>8, <1>10, <1>12, <1>14, Zenon
  <1>16. ASSUME NEW i \in 1 .. n - 1 PROVE Reads(w[i], tt[i], v[i])
    <2>1. i \in 1 .. Len(w) /\ w[i] \in Plain /\ tt[i] = ss[i]
      BY <1>2, <1>10
    <2>2. Reads(w[i], ss[i], v[i])
      BY <1>1, <2>1, PduFields, Zenon
    <2> QED
      BY <2>1, <2>2, Zenon
  <1>17. ParseField(w[n], tt[n]) = Parsed(v[n], <<>>)
    <2>1. v[n] = o
      <3>1. n \in 1 .. n
        BY <1>2
      <3> QED
        BY <1>2, <1>3, <1>7, <3>1, Zenon
    <2>2. ParseField("ms_availability_status", o) = Parsed(o, <<>>)
      BY <1>7, AvailabilityField, Zenon
    <2> QED
      BY <1>2, <1>10, <2>1, <2>2, Zenon
  <1>18. BodyReads(w, tt, v, n)
    BY <1>16, <1>17, Zenon DEF BodyReads
  <1>19. Fields(w, FlattenSeq(tt)) = Parsed(v, <<>>)
    BY <1>2, <1>3, <1>4, <1>11, <1>18, FieldsWhole
  <1> QED
    BY <1>1, <1>15, <1>19, Zenon

\* A body that lost its end: refused, or only the last field is less than it was.
LEMMA CutFields ==
    ASSUME NEW p, IsPdu(p), Fits(p), ~NewPanics(p), NEW w, w = Written(p.cmd, p.ok),
           NEW k \in 1 .. Len(BodyOctets(p)),
           ~(p.cmd = "alert_notification" /\ Val(p, "ms_availability_status") # <<>> /\ k = 4)
    PROVE  \/ Fields(w, Chop(BodyOctets(p), k)) = Refused
           \/ \E x : /\ Fields(w, Chop(BodyOctets(p), k)) = Parsed(x, <<>>)
                     /\ \A i \in 1 .. Len(w) : x[i] = Val(p, w[i]) \/ Trimmed(w[i], x[i], Val(p, w[i]))
  <1>1. PICK n, ss, v : n = Len(w) /\ ss = Parts(p) /\ v = Vals(p)
    OBVIOUS
  <1>2. n \in Nat /\ Len(v) = n /\ \A i \in 1 .. n : v[i] = Val(p, w[i])
    BY <1>1, ValsAre
  <1>3. PICK X : v \in Seq(X)
    BY <1>1, ValsAre
  <1>4. /\ ss \in Seq(Seq(Nat)) /\ Len(ss) = n /\ BodyOctets(p) = FlattenSeq(ss)
        /\ \A i \in 1 .. n : ss[i] = FieldOctets(w[i], Val(p, w[i]))
    <2>1. /\ ss \in Seq(Seq(Nat)) /\ Len(ss) = n /\ BodyOctets(p) = FlattenSeq(ss)
      BY <1>1, BodyLen, Zenon
    <2>2. \A i \in 1 .. Len(ss) : ss[i] = FieldOctets(w[i], Val(p, w[i]))
      BY <1>1, BodyLen, Zenon
    <2> QED
      BY <2>1, <2>2, Zenon
  <1>5. w \in Seq(Names) /\ \A i \in 1 .. n - 1 : w[i] \in Plain
    BY <1>1, PduNames, Zenon
  <1>6. PICK j, l, c : CutAt(ss, k, j, l, c)
    <2>1. k \in 1 .. Len(FlattenSeq(ss))
      BY <1>4
    <2> QED
      BY <1>4, <2>1, CutChain, Zenon
  <1>7. j \in 1 .. n /\ l \in 1 .. Len(ss[j]) /\ (j = n => l = k)
    BY <1>4, <1>6, Zenon DEF CutAt
  <1>8. \A i \in 1 .. j - 1 : Reads(w[i], ss[i], v[i])
    <2> SUFFICES ASSUME NEW i \in 1 .. j - 1 PROVE Reads(w[i], ss[i], v[i])
      OBVIOUS
    <2>1. i \in 1 .. n - 1 /\ i \in 1 .. Len(w)
      BY <1>1, <1>2, <1>7
    <2>2. w[i] \in Plain
      BY <1>5, <2>1
    <2> QED
      BY <1>1, <2>1, <2>2, PduFields, Zenon
  <1>9. CASE w[j] \in Plain
    <2>1. j \in 1 .. Len(w)
      BY <1>1, <1>7
    <2>2. Stops(w[j], ss[j])
      BY <1>1, <1>9, <2>1, PduFields, Zenon
    <2>3. Fields(w, Chop(FlattenSeq(ss), k)) = Refused
      BY <1>1, <1>2, <1>3, <1>4, <1>6, <1>8, <2>2, FieldsRefuse
    <2> QED
      BY <1>4, <2>3, Zenon
  <1>10. CASE w[j] \notin Plain
    <2>1. j = n /\ l = k
      <3>1. ~(j \in 1 .. n - 1)
        BY <1>5, <1>10, Zenon
      <3>2. j = n
        BY <1>2, <1>7, <3>1
      <3> QED
        BY <1>7, <3>2
    <2>2. j \in 1 .. Len(w) /\ k \in 1 .. Len(ss[j]) /\ w[j] \in LastOnly
      <3>1. j \in 1 .. Len(w)
        BY <1>1, <1>7
      <3>2. w[j] \in Names
        BY <1>5, <3>1
      <3> QED
        BY <1>7, <1>10, <2>1, <3>1, <3>2 DEF Names
    <2>3. ~(w[j] = "ms_availability_status" /\ k = 4)
      <3> SUFFICES ASSUME w[j] = "ms_availability_status", k = 4 PROVE FALSE
        OBVIOUS
      <3>1. p.cmd = "alert_notification"
        <4> SUFFICES ASSUME p.cmd # "alert_notification" PROVE FALSE
          OBVIOUS
        <4>1. p.cmd \in Commands /\ p.ok \in BOOLEAN
          BY Zenon DEF IsPdu
        <4>2. w \in Seq(Others)
          BY <4>1, OthersOf, Zenon
        <4>3. w[j] \in Others
          BY <2>2, <4>2
        <4> QED
          BY <4>3 DEF Others
      <3>2. Val(p, "ms_availability_status") # <<>>
        <4> SUFFICES ASSUME Val(p, "ms_availability_status") = <<>> PROVE FALSE
          OBVIOUS
        <4>1. ss[j] = FieldOctets("ms_availability_status", <<>>)
          BY <1>4, <1>7
        <4>2. FieldOctets("ms_availability_status", <<>>) = <<>>
          BY DEF FieldOctets, CStrings, Optionals
        <4>3. k \in 1 .. Len(<<>>)
          BY <2>2, <4>1, <4>2, Zenon
        <4> QED
          BY <4>3
      <3> QED
        BY <3>1, <3>2
    <2>4. PICK u : ParseField(w[j], Chop(ss[j], k)) = Parsed(u, <<>>) /\ Trimmed(w[j], u, v[j])
      <3>1. CutReads(w[j], ss[j], v[j])
        BY <1>1, <2>2, PduFields, Zenon
      <3> QED
        BY <2>2, <2>3, <3>1, Zenon DEF CutReads
    <2>5. PICK x : x = LastIs(v, n, u) /\ x = [i \in 1 .. n |-> IF i = n THEN u ELSE v[i]]
      BY DEF LastIs
    <2>6. Fields(w, Chop(FlattenSeq(ss), k)) = Parsed(x, <<>>)
      <3>1. CutAt(ss, k, n, k, c)
        BY <1>6, <2>1, Zenon
      <3>2. ReadUpTo(w, ss, v, n - 1)
        BY <1>8, <2>1 DEF ReadUpTo
      <3>3. ParseField(w[n], Chop(ss[n], k)) = Parsed(u, <<>>)
        BY <2>1, <2>4
      <3>4. n \in Nat /\ Len(w) = n /\ ss \in Seq(Seq(Nat)) /\ Len(ss) = n
        BY <1>1, <1>2, <1>4
      <3>5. x = LastIs(v, n, u)
        BY <2>5
      <3>6. TrimmedAt(w, n, ss, v, k, c, u, x)
        BY <3>1, <3>2, <3>3, <3>4, <3>5, Zenon DEF TrimmedAt
      <3> QED
        BY <3>6, FieldsTrim, Zenon
    <2>7. ASSUME NEW i \in 1 .. n PROVE x[i] = Val(p, w[i]) \/ Trimmed(w[i], x[i], Val(p, w[i]))
      <3>1. CASE i = n
        <4>1. x[i] = u /\ i = j /\ v[j] = Val(p, w[j])
          BY <1>2, <2>1, <2>5, <3>1
        <4> QED
          BY <2>4, <4>1, Zenon
      <3>2. CASE i # n
        <4>1. x[i] = v[i]
          BY <2>5, <3>2
        <4> QED
          BY <1>2, <4>1, Zenon
      <3> QED
        BY <3>1, <3>2
    <2> QED
      BY <1>1, <1>4, <2>6, <2>7, Zenon
  <1> QED
    BY <1>9, <1>10
-----------------------------------------------------------------------------
(* From the fields to the PDU *)

\* No string without its NUL.
LEMMA NoString == ~ParseField("message_id", <<>>).ok
  <1>1. PICK b : b = <<>>
    OBVIOUS
  <1>2. Len(b) \in Nat /\ \A i \in 1 .. Len(b) : b[i] # 0
    BY <1>1
  <1>3. FirstOf(b, 0) = 0
    BY <1>2, FirstOfIs
  <1>4. parse_c_octet_string(b) = Refused
    BY <1>3, CStringBy, Zenon
  <1>5. ParseField("message_id", b) = parse_c_octet_string(b)
    BY DEF ParseField, CStrings
  <1> QED
    BY <1>1, <1>4, <1>5, RefusedIs, Zenon

LEMMA NoTlvs == ParseField("tlvs", <<>>) = Parsed(<<>>, <<>>)
  <1>1. PICK b : b = <<>>
    OBVIOUS
  <1>2. b \in Seq(Nat) /\ Len(b) < 4
    BY <1>1
  <1>3. ~parse_single_tlv(b).ok
    BY <1>2, TlvShort, RefusedIs, Zenon
  <1>4. decode_tlvs(b) = <<>>
    BY <1>2, <1>3, NoTlv, Zenon
  <1>5. ParseField("tlvs", b) = Parsed(decode_tlvs(b), <<>>)
    BY DEF ParseField, CStrings
  <1> QED
    BY <1>1, <1>4, <1>5, Zenon

\* A body of no octets holds no message_id.
LEMMA NothingRead ==
    ASSUME NEW w, NEW n \in Nat, Len(w) = n, n >= 1, w[1] = "message_id"
    PROVE  Fields(w, <<>>) = Refused
  <1>1. PICK v, c : v = <<>> /\ c = [i \in 0 .. 0 |-> <<>>]
    OBVIOUS
  <1>2. v \in Seq({}) /\ Len(v) = 0 /\ c[0] = <<>>
    BY <1>1
  <1>3. PICK j : j = 1 /\ j \in 1 .. n + 1 /\ j <= Len(v) + 1 /\ j <= n /\ j - 1 = 0
    BY <1>2
  <1>4. ~ParseField(w[j], c[j - 1]).ok
    BY <1>2, <1>3, NoString
  <1>5. FieldsGo(w, v, c, j, n)
    <2>1. \A i \in 1 .. j - 1 : FALSE
      BY <1>3
    <2> QED
      BY <1>4, <2>1, Zenon DEF FieldsGo
  <1>6. j <= n => Fields(w, c[0]) = Refused
    BY <1>2, <1>3, <1>5, FieldsRun
  <1> QED
    BY <1>2, <1>3, <1>6

LEMMA NoTlvsRead ==
    ASSUME NEW w, Len(w) = 1, w[1] = "tlvs"
    PROVE  \E v : Fields(w, <<>>) = Parsed(v, <<>>) /\ v[1] = <<>>
  <1>1. PICK v, c : v = <<<<>>>> /\ c = [i \in 0 .. 1 |-> <<>>]
    OBVIOUS
  <1>2. v \in Seq({<<>>}) /\ Len(v) = 1 /\ v[1] = <<>> /\ c[0] = <<>> /\ c[1] = <<>>
    BY <1>1
  <1>3. AllParse(w, v, c, 1)
    <2>1. ASSUME NEW i \in 1 .. 1 PROVE ParseField(w[i], c[i - 1]) = Parsed(v[i], c[i])
      <3>1. i = 1 /\ i - 1 = 0
        OBVIOUS
      <3> QED
        BY <1>2, <3>1, NoTlvs
    <2> QED
      BY <2>1, Zenon DEF AllParse
  <1>4. Fields(w, c[0]) = Parsed(v, c[1])
    <2>1. PICK n \in Nat : n = 1 /\ Len(w) = n /\ Len(v) = n /\ AllParse(w, v, c, n)
      BY <1>2, <1>3
    <2>2. PICK X : v \in Seq(X)
      BY <1>2
    <2>3. n \in Nat /\ Len(w) = n /\ v \in Seq(X) /\ Len(v) = n /\ AllParse(w, v, c, n)
      BY <2>1, <2>2
    <2>4. Fields(w, c[0]) = Parsed(v, c[n])
      BY ONLY <2>3, FieldsVia
    <2> QED
      BY <2>1, <2>4
  <1> QED
    BY <1>2, <1>4, Zenon

\* The two answers whose decode takes a body of no octets for no body.
MayBeBare == {"deliver_sm_resp", "data_sm_resp"}

LEMMA BareNames ==
    ASSUME NEW cmd \in MayBeBare, NEW ok \in BOOLEAN, NEW w, w = Written(cmd, ok)
    PROVE  \/ Len(w) = 1 /\ w[1] = "message_id"
           \/ Len(w) = 2 /\ w[1] = "message_id"
           \/ Len(w) = 1 /\ w[1] = "tlvs"
  BY DEF MayBeBare, Written, deliver_sm_resp_encode, data_sm_resp_encode, Resps, BindResps, HeaderOnly, Binds

\* Nothing is lost when there was nothing: a body of no octets is that of a
\* PDU with no TLVs.
LEMMA BareBody ==
    ASSUME NEW p, IsPdu(p), Fits(p), ~NewPanics(p), p.cmd \in MayBeBare, BodyOctets(p) = <<>>,
           NEW w, w = Written(p.cmd, p.ok), NEW i \in 1 .. Len(w)
    PROVE  Val(p, w[i]) = <<>>
  <1>1. p.ok \in BOOLEAN
    BY Zenon DEF IsPdu
  <1>2. PICK v : v = Vals(p)
    OBVIOUS
  <1>3. Fields(w, <<>>) = Parsed(v, <<>>)
    BY <1>2, WholeFields, Zenon
  <1>4. PICK n : n = Len(w)
    OBVIOUS
  <1>5. \A k \in 1 .. n : v[k] = Val(p, w[k])
    BY <1>2, <1>4, ValsAre
  <1>6. ~(n \in {1, 2} /\ w[1] = "message_id")
    <2> SUFFICES ASSUME n \in {1, 2}, w[1] = "message_id" PROVE FALSE
      OBVIOUS
    <2>1. n \in Nat /\ n >= 1
      OBVIOUS
    <2>2. n \in Nat /\ Len(w) = n /\ n >= 1 /\ w[1] = "message_id"
      BY <1>4, <2>1
    <2>3. Fields(w, <<>>) = Refused
      BY <2>2, NothingRead, Zenon
    <2>4. Parsed(v, <<>>) # Refused
      BY DEF Parsed, Refused
    <2> QED
      BY <1>3, <2>3, <2>4, Zenon
  <1>7. n = 1 /\ w[1] = "tlvs"
    BY <1>1, <1>4, <1>6, BareNames
  <1>8. PICK u : Fields(w, <<>>) = Parsed(u, <<>>) /\ u[1] = <<>>
    BY <1>4, <1>7, NoTlvsRead, Zenon
  <1>9. u = v
    <2>1. Parsed(u, <<>>).val = u /\ Parsed(v, <<>>).val = v
      BY ParsedIs, Zenon
    <2> QED
      BY <1>3, <1>8, <2>1, Zenon
  <1>10. i = 1 /\ i \in 1 .. n
    BY <1>4, <1>7
  <1> QED
    BY <1>5, <1>8, <1>9, <1>10

\* A PDU that is only a header has a body of no octets.
LEMMA HeaderAlone ==
    ASSUME NEW p, IsPdu(p), p.cmd \in StrictlyHeader
    PROVE  BodyOctets(p) = <<>>
  <1>1. Written(p.cmd, p.ok) = <<>>
    BY DEF StrictlyHeader, Written, HeaderOnly, Resps, Binds, BindResps
  <1>2. PICK ss : ss = Parts(p)
    OBVIOUS
  <1>3. ss \in Seq(Seq(Nat)) /\ Len(ss) = 0 /\ BodyOctets(p) = FlattenSeq(ss)
    BY <1>1, <1>2, BodyLen
  <1>4. PICK R : Tails(ss, R) /\ R[0] = FlattenSeq(ss)
    BY <1>3, TailsExist
  <1>5. R[Len(ss)] = <<>>
    BY <1>4, Zenon DEF Tails
  <1> QED
    BY <1>3, <1>4, <1>5, Zenon

LEMMA FieldAt ==
    ASSUME NEW w, Len(w) \in Nat, NEW n \in ToSet(w)
    PROVE  FirstOf(w, n) \in 1 .. Len(w) /\ w[FirstOf(w, n)] = n
  <1>1. PICK k \in 1 .. Len(w) : w[k] = n
    BY DEF ToSet
  <1> QED
    BY <1>1, FirstOfIs

\* The values x under the names w.
Named(w, x) == [n \in ToSet(w) |-> x[FirstOf(w, n)]]

\* The body is read as the values x of the fields names.
ReadAs(p, body, names, x) ==
    /\ p.cmd \in StrictlyHeader => body = <<>>
    /\ names = BodyFields(p.cmd, p.ok, body)
    /\ \E r : Fields(names, body) = Parsed(x, r)

LEMMA MadeFine ==
    ASSUME NEW p, NEW body, NEW names, NEW x, ReadAs(p, body, names, x),
           NEW m, m = Made(p.cmd, p.ok, p.seq, body)
    PROVE  m.fine = TRUE /\ m.f = Named(names, x)
  <1>0. PICK r : /\ p.cmd \in StrictlyHeader => body = <<>>
                 /\ names = BodyFields(p.cmd, p.ok, body)
                 /\ Fields(names, body) = Parsed(x, r)
    BY Zenon DEF ReadAs
  <1> USE <1>0
  <1>1. PICK parsed : parsed = Fields(names, body)
    OBVIOUS
  <1>2. parsed.ok = TRUE /\ parsed.val = x
    BY <1>1 DEF Parsed
  <1>3. PICK fine : fine = (parsed.ok /\ (p.cmd \in StrictlyHeader => body = <<>>))
    OBVIOUS
  <1>4. fine = TRUE
    BY <1>2, <1>3
  <1>5. m = [cmd |-> p.cmd, ok |-> p.ok, seq |-> p.seq, fine |-> fine,
             f |-> IF ~fine THEN <<>> ELSE Named(names, parsed.val)]
    BY <1>1, <1>3, Zenon DEF Made, Named, FirstOf
  <1> QED
    BY <1>2, <1>4, <1>5

LEMMA MadeRefused ==
    ASSUME NEW p, NEW body, NEW names, names = BodyFields(p.cmd, p.ok, body),
           Fields(names, body) = Refused, NEW m, m = Made(p.cmd, p.ok, p.seq, body)
    PROVE  ~m.fine
  <1>1. PICK parsed : parsed = Fields(names, body)
    OBVIOUS
  <1>2. parsed.ok = FALSE
    BY <1>1 DEF Refused
  <1>3. PICK fine : fine = (parsed.ok /\ (p.cmd \in StrictlyHeader => body = <<>>))
    OBVIOUS
  <1>4. fine = FALSE
    BY <1>2, <1>3
  <1>5. m = [cmd |-> p.cmd, ok |-> p.ok, seq |-> p.seq, fine |-> fine,
             f |-> IF ~fine THEN <<>> ELSE Named(names, parsed.val)]
    BY <1>1, <1>3, Zenon DEF Made, Named, FirstOf
  <1> QED
    BY <1>4, <1>5

LEMMA NamedIs ==
    ASSUME NEW w, Len(w) \in Nat, NEW x
    PROVE  /\ DOMAIN Named(w, x) = ToSet(w)
           /\ \A n \in ToSet(w) : \E k \in 1 .. Len(w) : w[k] = n /\ Named(w, x)[n] = x[k]
  <1>1. DOMAIN Named(w, x) = ToSet(w)
    BY DEF Named
  <1>2. ASSUME NEW n \in ToSet(w)
        PROVE  \E k \in 1 .. Len(w) : w[k] = n /\ Named(w, x)[n] = x[k]
    <2>1. FirstOf(w, n) \in 1 .. Len(w) /\ w[FirstOf(w, n)] = n
      BY <1>2, FieldAt, Zenon
    <2>2. Named(w, x)[n] = x[FirstOf(w, n)]
      BY <1>2 DEF Named
    <2> QED
      BY <2>1, <2>2, Zenon
  <1> QED
    BY <1>1, <1>2, Zenon

\* The fields decode reads when the body is all there.
LEMMA NamesOf ==
    ASSUME NEW p, p.cmd \in Commands, p.ok \in BOOLEAN, NEW body,
           NEW names, names = BodyFields(p.cmd, p.ok, body)
    PROVE  \/ p.cmd \in MayBeBare /\ body = <<>> /\ names = <<>>
           \/ p.cmd = "deliver_sm_resp" /\ ~p.ok /\ names = <<>>
           \/ ~(p.cmd \in MayBeBare /\ body = <<>>) /\ names = Written(p.cmd, p.ok)
  <1>1. CASE p.cmd \in MayBeBare /\ body = <<>>
    BY <1>1, Zenon DEF BodyFields, MayBeBare
  <1>2. CASE ~(p.cmd \in MayBeBare /\ body = <<>>)
    <2>1. names = Read(p.cmd, p.ok)
      BY <1>2, Zenon DEF BodyFields, MayBeBare
    <2> QED
      BY <1>2, <2>1, SameLists, Zenon
  <1> QED
    BY <1>1, <1>2

LEMMA FieldsEmpty == \A b : Fields(<<>>, b) = Parsed(<<>>, b)
  <1> SUFFICES ASSUME NEW b PROVE Fields(<<>>, b) = Parsed(<<>>, b)
    OBVIOUS
  <1>1. PICK w, n, v, c : w = <<>> /\ n = 0 /\ v = <<>> /\ c = [i \in 0 .. 0 |-> b]
    OBVIOUS
  <1>2. n \in Nat /\ Len(w) = n /\ v \in Seq({}) /\ Len(v) = n /\ AllParse(w, v, c, n)
    BY <1>1 DEF AllParse
  <1>3. Fields(w, c[0]) = Parsed(v, c[n])
    BY ONLY <1>2, FieldsVia
  <1> QED
    BY <1>1, <1>3

\* A PDU whose fields are read as they were written is the PDU that was sent.
ReadWhole(p, body) ==
    /\ IsPdu(p) /\ Fits(p) /\ ~NewPanics(p) /\ ~(p.cmd = "deliver_sm_resp" /\ ~p.ok)
    /\ Fields(Written(p.cmd, p.ok), body) = Parsed(Vals(p), <<>>)
    /\ p.cmd \in MayBeBare \cup StrictlyHeader => body = BodyOctets(p)

\* m has the fields of p.
SameFields(m, p) == \A n \in DOMAIN p.f \cup DOMAIN m.f : Val(m, n) = Val(p, n)

LEMMA MadeAsSent ==
    ASSUME NEW p, NEW body, ReadWhole(p, body), NEW m, m = Made(p.cmd, p.ok, p.seq, body)
    PROVE  m.fine = TRUE /\ SameFields(m, p)
  <1>0. /\ IsPdu(p) /\ Fits(p) /\ ~NewPanics(p) /\ ~(p.cmd = "deliver_sm_resp" /\ ~p.ok)
        /\ Fields(Written(p.cmd, p.ok), body) = Parsed(Vals(p), <<>>)
        /\ p.cmd \in MayBeBare \cup StrictlyHeader => body = BodyOctets(p)
    BY Zenon DEF ReadWhole
  <1> USE <1>0
  <1>1. p.cmd \in Commands /\ p.ok \in BOOLEAN
    BY Zenon DEF IsPdu
  <1>2. PICK w : w = Written(p.cmd, p.ok)
    OBVIOUS
  <1>3. Len(w) \in Nat /\ DOMAIN p.f \subseteq ToSet(w)
    <2>1. DOMAIN p.f \subseteq ToSet(w)
      BY <1>2, Zenon DEF IsPdu
    <2>2. Len(w) \in Nat
      BY <1>2, PduNames, Zenon
    <2> QED
      BY <2>1, <2>2
  <1>4. PICK names : names = BodyFields(p.cmd, p.ok, body)
    OBVIOUS
  <1>5. p.cmd \in StrictlyHeader => body = <<>>
    BY HeaderAlone, Zenon
  <1>6. CASE p.cmd \in MayBeBare /\ body = <<>> /\ names = <<>>
    <2>1. Fields(names, body) = Parsed(<<>>, body)
      BY <1>6, FieldsEmpty, Zenon
    <2>2. m.fine = TRUE /\ m.f = Named(names, <<>>)
      <3>1. ReadAs(p, body, names, <<>>)
        BY <1>4, <1>5, <2>1, Zenon DEF ReadAs
      <3>2. m = Made(p.cmd, p.ok, p.seq, body)
        OBVIOUS
      <3> QED
        BY <3>1, <3>2, MadeFine, Zenon
    <2>3. DOMAIN m.f = {}
      <3>1. Len(names) \in Nat /\ ToSet(names) = {}
        BY <1>6 DEF ToSet
      <3>2. DOMAIN Named(names, <<>>) = ToSet(names)
        BY <3>1, NamedIs, Zenon
      <3> QED
        BY <2>2, <3>1, <3>2, Zenon
    <2>4. ASSUME NEW n \in DOMAIN p.f PROVE Val(p, n) = <<>>
      <3>1. PICK k \in 1 .. Len(w) : w[k] = n
        BY <1>3 DEF ToSet
      <3>2. BodyOctets(p) = <<>>
        BY <1>6
      <3>3. Val(p, w[k]) = <<>>
        BY <1>2, <1>6, <3>1, <3>2, BareBody, Zenon
      <3> QED
        BY <3>1, <3>3, Zenon
    <2>5. \A n : Val(m, n) = <<>>
      BY <2>3, Zenon DEF Val
    <2> QED
      BY <2>2, <2>3, <2>4, <2>5, Zenon DEF SameFields
  <1>7. CASE names = w
    <2>1. PICK v : v = Vals(p)
      OBVIOUS
    <2>2. Fields(names, body) = Parsed(v, <<>>)
      BY <1>2, <1>7, <2>1
    <2>3. m.fine = TRUE /\ m.f = Named(w, v)
      <3>1. ReadAs(p, body, names, v)
        BY <1>4, <1>5, <2>2, Zenon DEF ReadAs
      <3>2. m = Made(p.cmd, p.ok, p.seq, body)
        OBVIOUS
      <3>3. m.fine = TRUE /\ m.f = Named(names, v)
        BY <3>1, <3>2, MadeFine, Zenon
      <3> QED
        BY <1>7, <3>3, Zenon
    <2>4. /\ DOMAIN m.f = ToSet(w)
          /\ \A n \in ToSet(w) : \E k \in 1 .. Len(w) : w[k] = n /\ m.f[n] = v[k]
      BY <1>3, <2>3, NamedIs
    <2>5. \A k \in 1 .. Len(w) : v[k] = Val(p, w[k])
      <3>1. PICK l : l = Len(w)
        OBVIOUS
      <3>2. \A k \in 1 .. l : v[k] = Val(p, w[k])
        BY <1>2, <2>1, <3>1, ValsAre
      <3> QED
        BY <3>1, <3>2, Zenon
    <2>6. ASSUME NEW n \in ToSet(w) PROVE Val(m, n) = Val(p, n)
      <3>1. PICK k \in 1 .. Len(w) : w[k] = n /\ m.f[n] = v[k]
        BY <2>4, <2>6, Zenon
      <3>2. Val(m, n) = m.f[n]
        BY <2>4, Zenon DEF Val
      <3> QED
        BY <2>5, <3>1, <3>2, Zenon
    <2> QED
      BY <1>3, <2>3, <2>4, <2>6, Zenon DEF SameFields
  <1> QED
    BY <1>1, <1>2, <1>4, <1>6, <1>7, NamesOf, ZenonT(40)

\* Every decode but that of cancel_sm starts after the header.
LEMMA DecodeBody ==
    ASSUME NEW p, IsPdu(p), p.cmd # "cancel_sm", NEW length \in Nat, NEW x \in Seq(Nat),
           NEW b, b = HeaderOctets(p, length) \o x
    PROVE  Decode(b) = Made(p.cmd, p.ok, p.seq, x)
  <1>1. PICK h : h = HeaderOctets(p, length)
    OBVIOUS
  <1>2. h \in Seq(Nat) /\ Len(h) = 16 /\ b = Cat(h, x) /\ HasHeader(b, p, length)
    BY <1>1, HeaderIs
  <1>3. Decode(b) = Made(p.cmd, p.ok, p.seq, Skip(b, DecodeFrom(p.cmd) - 1))
    BY <1>2, DecodeIs, Zenon
  <1>4. DecodeFrom(p.cmd) - 1 = 16
    BY DEF DecodeFrom
  <1>5. Skip(b, 16) = x
    <2>1. Skip(Cat(h, x), Len(h)) = x
      BY <1>2, CatSplit, Zenon
    <2> QED
      BY <1>2, <2>1
  <1> QED
    BY <1>3, <1>4, <1>5, Zenon

LEMMA CommandLengthIs ==
    ASSUME NEW p, IsPdu(p), ~Misreported(p)
    PROVE  CommandLength(p) \in Nat /\ BodyOctets(p) \in Seq(Nat)
  <1>1. BodyOctets(p) \in Seq(Nat) /\ CommandLength(p) = 16 + Len(BodyOctets(p))
    BY BodyLen, Zenon
  <1> QED
    BY <1>1

\* What decode makes of a whole frame, that of an old peer included.
LEMMA FrameAsSent ==
    ASSUME NEW e \in Entries, e.cut = 0, NEW b, FrameOf(e, b), NEW p, p = e.pdu,
           Fits(p), ~Misreported(p), NEW m, m = Decode(b)
    PROVE  m.fine = TRUE /\ SameFields(m, p)
  <1>1. IsPdu(p)
    BY PdusAssumption DEF Entries
  <1>2. p.cmd # "cancel_sm" /\ ~(p.cmd = "deliver_sm_resp" /\ ~p.ok)
    BY Zenon DEF Misreported
  <1>3. PICK body : body = BodyOctets(p)
    OBVIOUS
  <1>4. PICK w : w = Written(p.cmd, p.ok)
    OBVIOUS
  <1>5. CASE ~NewPanics(p) /\ b = Encode(p)
    <2>1. CommandLength(p) \in Nat /\ body \in Seq(Nat)
      BY <1>1, <1>3, CommandLengthIs, Zenon
    <2>2. b = HeaderOctets(p, CommandLength(p)) \o body
      BY <1>3, <1>5, Zenon DEF Encode
    <2>3. m = Made(p.cmd, p.ok, p.seq, body)
      BY <1>1, <1>2, <2>1, <2>2, DecodeBody, Zenon
    <2>4. Fields(Written(p.cmd, p.ok), body) = Parsed(Vals(p), <<>>)
      BY <1>1, <1>3, <1>5, WholeFields, Zenon
    <2>5. ReadWhole(p, body)
      BY <1>1, <1>2, <1>3, <1>5, <2>4, Zenon DEF ReadWhole
    <2> QED
      BY <2>3, <2>5, MadeAsSent, Zenon
  <1>6. CASE /\ p.cmd = "alert_notification"
             /\ b = HeaderOctets(p, 16 + Len(OldBody(p))) \o OldBody(p)
    <2>1. PICK x : x = OldBody(p)
      OBVIOUS
    <2>2. x \in Seq(Nat)
      <3>1. PICK v : v = p.f["ms_availability_status"]
        OBVIOUS
      <3>2. v \in Seq(Nat) /\ \E pre \in Seq(Nat) : OldBody(p) = Cat(pre, v)
        BY <1>1, <1>6, <3>1, AlertBodies
      <3> QED
        BY <2>1, <3>2, CatIs, Zenon
    <2>3. PICK length \in Nat : length = 16 + Len(x)
      BY <2>2
    <2>4. b = HeaderOctets(p, length) \o x
      BY <1>6, <2>1, <2>3
    <2>5. m = Made(p.cmd, p.ok, p.seq, x)
      BY <1>1, <1>2, <2>2, <2>4, DecodeBody, Zenon
    <2>6. ~NewPanics(p)
      BY <1>1, <1>6, AlertBuilt, Zenon
    <2>7. Fields(Written(p.cmd, p.ok), x) = Parsed(Vals(p), <<>>)
      BY <1>1, <1>6, <2>1, <2>6, OldFields, Zenon
    <2>8. ~(p.cmd \in MayBeBare \cup StrictlyHeader)
      BY <1>6 DEF MayBeBare, StrictlyHeader
    <2>9. ReadWhole(p, x)
      BY <1>1, <1>2, <2>6, <2>7, <2>8, Zenon DEF ReadWhole
    <2> QED
      BY <2>5, <2>9, MadeAsSent, Zenon
  <1>7. ~(e.cut > 0)
    OBVIOUS
  <1> QED
    BY <1>5, <1>6, <1>7, Zenon DEF FrameOf

\* A PDU whose values SMPP can express is decoded into the values it was built
\* from, whichever codec carries it and whatever else is on the wire: encode,
\* command_length, the framing of read_frame and decode agree, for every PDU.
THEOREM RoundTrip == Spec => []ReceivedAsSent
  <1>1. CodecInv => ReceivedAsSent
    <2> SUFFICES ASSUME CodecInv, Quiet, NEW i \in DOMAIN sent, TrueUpTo(i), Fits(sent[i].pdu),
                        sent[i].cut = 0
                 PROVE  Arrived(i)
      BY DEF ReceivedAsSent
    <2>1. /\ i \in 1 .. Len(got) /\ sent[i] \in Entries
          /\ \E b : FrameOf(sent[i], b) /\ got[i] = Decode(b)
      BY QuietGot
    <2>2. PICK b : FrameOf(sent[i], b) /\ got[i] = Decode(b)
      BY <2>1
    <2>3. PICK e, p, m : e = sent[i] /\ p = e.pdu /\ m = got[i]
      OBVIOUS
    <2>4. i \in 1 .. i
      <3>1. sent \in Seq(Entries)
        BY DEF CodecInv
      <3> QED
        BY <3>1
    <2>5. ~Misreported(p)
      BY <2>3, <2>4, Zenon DEF TrueUpTo
    <2>6. m.fine = TRUE /\ SameFields(m, p)
      BY <2>1, <2>2, <2>3, <2>5, FrameAsSent, Zenon
    <2>7. SameHeader(m, p)
      <3>1. IsPdu(p)
        BY <2>1, <2>3, PdusAssumption DEF Entries
      <3>2. \E length : HasHeader(b, p, length)
        BY <2>1, <2>2, <2>3, FrameIs, Zenon
      <3>3. m = Made(p.cmd, p.ok, p.seq, Skip(b, DecodeFrom(p.cmd) - 1))
        BY <2>2, <2>3, <3>1, <3>2, DecodeIs, Zenon
      <3>4. PICK x : x = Skip(b, DecodeFrom(p.cmd) - 1)
        OBVIOUS
      <3>5. m = Made(p.cmd, p.ok, p.seq, x)
        BY <3>3, <3>4
      <3>6. m.cmd = p.cmd /\ m.ok = p.ok /\ m.seq = p.seq
        BY <3>5, MadeHeader
      <3> QED
        BY <3>6, Zenon DEF SameHeader
    <2>8. i <= Len(got)
      <3>1. Len(got) \in Nat
        BY DEF CodecInv
      <3> QED
        BY <2>1, <3>1
    <2> QED
      BY <2>3, <2>6, <2>7, <2>8, Zenon DEF Arrived, SameFields
  <1> QED
    BY <1>1, StandsAtAFrame, PTL

-----------------------------------------------------------------------------
(* A PDU that lost the end of its body *)

\* A field of what was received, next to that of what was sent.
AsSentOrTrimmed(n, u, v) == u = v \/ Trimmed(n, u, v)

LEMMA CutMade ==
    ASSUME NEW p, IsPdu(p), Fits(p), ~NewPanics(p), NEW k \in 1 .. Len(BodyOctets(p)),
           ~(p.cmd = "alert_notification" /\ Val(p, "ms_availability_status") # <<>> /\ k = 4),
           NEW m, m = Made(p.cmd, p.ok, p.seq, Chop(BodyOctets(p), k)), m.fine, NEW n \in DOMAIN m.f
    PROVE  n \in ToSet(Written(p.cmd, p.ok)) /\ AsSentOrTrimmed(n, m.f[n], Val(p, n))
  <1>1. p.cmd \in Commands /\ p.ok \in BOOLEAN
    BY Zenon DEF IsPdu
  <1>2. PICK w : w = Written(p.cmd, p.ok)
    OBVIOUS
  <1>3. Len(w) \in Nat
    BY <1>2, PduNames, Zenon
  <1>4. PICK body : body = Chop(BodyOctets(p), k)
    OBVIOUS
  <1>5. m = Made(p.cmd, p.ok, p.seq, body)
    BY <1>4
  <1>6. ~(p.cmd \in StrictlyHeader)
    <2> SUFFICES ASSUME p.cmd \in StrictlyHeader PROVE FALSE
      OBVIOUS
    <2>1. BodyOctets(p) = <<>>
      BY HeaderAlone, Zenon
    <2>2. k \in 1 .. Len(<<>>)
      BY <2>1
    <2> QED
      BY <2>2
  <1>7. PICK names : names = BodyFields(p.cmd, p.ok, body)
    OBVIOUS
  <1>8. CASE names = <<>>
    <2>1. Fields(names, body) = Parsed(<<>>, body)
      BY <1>8, FieldsEmpty, Zenon
    <2>2. ReadAs(p, body, names, <<>>)
      BY <1>6, <1>7, <2>1, Zenon DEF ReadAs
    <2>3. m.f = Named(names, <<>>)
      BY <1>5, <2>2, MadeFine, Zenon
    <2>4. Len(names) \in Nat /\ ToSet(names) = {}
      BY <1>8 DEF ToSet
    <2>5. DOMAIN Named(names, <<>>) = ToSet(names)
      BY <2>4, NamedIs, Zenon
    <2>6. n \in {}
      BY <2>3, <2>4, <2>5, Zenon
    <2> QED
      BY <2>6
  <1>9. CASE names = w
    <2>1. Fields(w, body) # Refused
      <3> SUFFICES ASSUME Fields(w, body) = Refused PROVE FALSE
        OBVIOUS
      <3>1. Fields(names, body) = Refused
        BY <1>9
      <3>2. ~m.fine
        BY <1>5, <1>7, <3>1, MadeRefused, Zenon
      <3> QED
        BY <3>2
    <2>2. PICK x : /\ Fields(w, body) = Parsed(x, <<>>)
                   /\ \A i \in 1 .. Len(w) :
                        x[i] = Val(p, w[i]) \/ Trimmed(w[i], x[i], Val(p, w[i]))
      <3>1. \/ Fields(w, body) = Refused
            \/ \E x : /\ Fields(w, body) = Parsed(x, <<>>)
                      /\ \A i \in 1 .. Len(w) :
                           x[i] = Val(p, w[i]) \/ Trimmed(w[i], x[i], Val(p, w[i]))
        BY <1>2, <1>4, CutFields, Zenon
      <3> QED
        BY <2>1, <3>1, Zenon
    <2>3. ReadAs(p, body, names, x)
      BY <1>6, <1>7, <1>9, <2>2, Zenon DEF ReadAs
    <2>4. m.f = Named(names, x)
      BY <1>5, <2>3, MadeFine, Zenon
    <2>5. m.f = Named(w, x)
      BY <1>9, <2>4, Zenon
    <2>6. n \in ToSet(w)
      <3>1. DOMAIN Named(w, x) = ToSet(w)
        BY <1>3, NamedIs, Zenon
      <3> QED
        BY <2>5, <3>1, Zenon
    <2>7. PICK i \in 1 .. Len(w) : w[i] = n /\ Named(w, x)[n] = x[i]
      <3>1. \A l \in ToSet(w) : \E i \in 1 .. Len(w) : w[i] = l /\ Named(w, x)[l] = x[i]
        BY <1>3, NamedIs
      <3> QED
        BY <2>6, <3>1, Zenon
    <2>8. m.f[n] = x[i]
      BY <2>5, <2>7, Zenon
    <2>9. AsSentOrTrimmed(n, x[i], Val(p, n))
      BY <2>2, <2>7, Zenon DEF AsSentOrTrimmed
    <2> QED
      BY <1>2, <2>6, <2>8, <2>9, Zenon
  <1>10. names = <<>> \/ names = w
    <2>1. \/ p.cmd \in MayBeBare /\ body = <<>> /\ names = <<>>
          \/ p.cmd = "deliver_sm_resp" /\ ~p.ok /\ names = <<>>
          \/ ~(p.cmd \in MayBeBare /\ body = <<>>) /\ names = Written(p.cmd, p.ok)
      BY <1>1, <1>7, NamesOf
    <2> QED
      BY <1>2, <2>1, Zenon
  <1> QED
    BY <1>8, <1>9, <1>10

LEMMA CutFrame ==
    ASSUME NEW e \in Entries, e.cut > 0, NEW b, FrameOf(e, b), NEW p, p = e.pdu, Fits(p),
           p.cmd # "cancel_sm", ~OneOctetLeft(e), NEW m, m = Decode(b), m.fine,
           NEW n \in DOMAIN m.f
    PROVE  n \in ToSet(Written(p.cmd, p.ok)) /\ AsSentOrTrimmed(n, m.f[n], Val(p, n))
  <1>1. IsPdu(p)
    BY PdusAssumption DEF Entries
  <1>2. PICK k \in Nat : k = e.cut /\ k > 0
    BY DEF Entries
  <1>3. PICK o \in Seq(Nat) : o = BodyOctets(p)
    BY <1>1, BodyLen
  <1>4. PICK x : x = Chop(o, k)
    OBVIOUS
  <1>5. ~(e.cut = 0)
    BY <1>2
  <1>6. /\ k <= Len(o) /\ ~NewPanics(p)
        /\ b = HeaderOctets(p, 16 + Len(o) - k) \o x
    BY <1>2, <1>3, <1>4, <1>5, Zenon DEF FrameOf
  <1>7. k \in 1 .. Len(o) /\ k \in 0 .. Len(o)
    BY <1>2, <1>3, <1>6
  <1>8. PICK length \in Nat : length = 16 + Len(o) - k
    BY <1>3, <1>7
  <1>9. x \in Seq(Nat)
    BY <1>3, <1>4, <1>7, ChopIs
  <1>10. b = HeaderOctets(p, length) \o x
    BY <1>6, <1>8
  <1>11. m = Made(p.cmd, p.ok, p.seq, x)
    BY <1>1, <1>9, <1>10, DecodeBody, Zenon
  <1>12. ~(p.cmd = "alert_notification" /\ Val(p, "ms_availability_status") # <<>> /\ k = 4)
    <2> SUFFICES ASSUME p.cmd = "alert_notification",
                        Val(p, "ms_availability_status") # <<>>, k = 4
                 PROVE  FALSE
      OBVIOUS
    <2>1. PICK v : v = p.f["ms_availability_status"]
      OBVIOUS
    <2>2. v = Val(p, "ms_availability_status")
      BY <1>1, <2>1, AlertBodies
    <2>3. e.cut = 4
      BY <1>2
    <2> QED
      BY <2>1, <2>2, <2>3, Zenon DEF OneOctetLeft
  <1> QED
    BY <1>1, <1>3, <1>4, <1>6, <1>7, <1>11, <1>12, CutMade, Zenon

\* A body that lost its end is refused, or decoded into what was sent with
\* optional parameters missing from the end: no decode reads one field from
\* the octets of another, wherever the octets stop.
THEOREM CutIsNeverMisread == Spec => []CutNeverMisread
  <1>1. CodecInv => CutNeverMisread
    <2> SUFFICES ASSUME CodecInv, NEW i \in DOMAIN sent \cap DOMAIN got,
                        sent[i].cut > 0, TrueUpTo(i), Fits(sent[i].pdu), got[i].fine,
                        sent[i].pdu.cmd # "cancel_sm", ~OneOctetLeft(sent[i]),
                        NEW n \in DOMAIN got[i].f
                 PROVE  \/ got[i].f[n] = Val(sent[i].pdu, n)
                        \/ n = "tlvs" /\ IsPrefix(got[i].f[n], sent[i].pdu.f[n])
                        \/ n \in Optionals /\ got[i].f[n] = <<>>
      BY DEF CutNeverMisread
    <2>1. sent \in Seq(Entries) /\ got \in Seq(Results)
      BY DEF CodecInv
    <2>2. PICK fr, R : Aligned(sent, got, wire, open, fr, R)
      BY DEF CodecInv
    <2>3. i \in 1 .. Len(sent) /\ i \in 1 .. Len(got) /\ i <= Len(sent) /\ sent[i] \in Entries
      BY <2>1
    <2>4. AllTrue(sent, i)
      BY DEF TrueUpTo, AllTrue, TrueEntry
    <2>5. FrameOf(sent[i], fr[i]) /\ got[i] = Decode(fr[i])
      BY <2>2, <2>3, <2>4, Zenon DEF Aligned
    <2>6. PICK e, p, m, u : e = sent[i] /\ p = e.pdu /\ m = got[i] /\ u = m.f[n]
      OBVIOUS
    <2>7. n \in ToSet(Written(p.cmd, p.ok)) /\ AsSentOrTrimmed(n, u, Val(p, n))
      BY <2>3, <2>5, <2>6, CutFrame, Zenon
    <2>8. n = "tlvs" => Val(p, n) = p.f[n]
      <3>1. IsPdu(p)
        BY <2>3, <2>6, PdusAssumption DEF Entries
      <3>2. n = "tlvs" => n \notin CStrings
        BY DEF CStrings
      <3>3. n = "tlvs" => n \in DOMAIN p.f
        BY <2>7, <3>1, <3>2, Zenon DEF IsPdu
      <3> QED
        BY <3>3, Zenon DEF Val
    <2> QED
      BY <2>6, <2>7, <2>8, Zenon DEF AsSentOrTrimmed, Trimmed
  <1> QED
    BY <1>1, StandsAtAFrame, PTL
=============================================================================
