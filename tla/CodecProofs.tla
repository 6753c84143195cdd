---------------------------- MODULE CodecProofs ----------------------------
(***************************************************************************)
(* Theorems about Codec: what encode writes, framing and decode take back, *)
(* for every PDU an application can build.                                 *)
(*                                                                         *)
(* Recursive definitions are dealt with in one way throughout: a function  *)
(* that satisfies the equations of a loop is exhibited, and the loop is    *)
(* shown to compute it by induction.  Induction is over the naturals and   *)
(* with sets, as every non-empty set of naturals has a least element.      *)
(***************************************************************************)
EXTENDS Codec, Integers, SequenceTheorems, WellFoundedInduction, TLAPS

-----------------------------------------------------------------------------
(* Induction *)

\* A set of naturals that is not empty has a least element.
LEMMA LeastOf ==
    ASSUME NEW T \in SUBSET Nat, T # {}
    PROVE  \E x \in T : \A y \in T : x <= y
  <1> DEFINE R == OpToRel(<, Nat)
  <1>1. \A x, y \in Nat : <<y, x>> \in R <=> y < x
    BY DEF OpToRel
  <1>2. IsWellFoundedOn(R, Nat)
    BY NatLessThanWellFounded
  <1> HIDE DEF R
  <1>3. PICK x \in T : \A y \in T : ~ (<<y, x>> \in R)
    BY <1>2, WFMin
  <1>4. ASSUME NEW y \in T PROVE x <= y
    <2>1. x \in Nat /\ y \in Nat /\ ~(y < x)
      BY <1>1, <1>3
    <2> QED
      BY <2>1
  <1> QED
    BY <1>4

\* A set that holds 0, and with every number below n its successor, holds 0 .. n.
LEMMA UpTo ==
    ASSUME NEW n \in Nat, NEW S, 0 \in S, \A k \in 0 .. n - 1 : k \in S => k + 1 \in S
    PROVE  \A k \in 0 .. n : k \in S
  <1> DEFINE T == {k \in 0 .. n : k \notin S}
  <1> SUFFICES ASSUME T # {} PROVE FALSE
    OBVIOUS
  <1>1. T \in SUBSET Nat
    OBVIOUS
  <1>2. PICK m \in T : \A y \in T : m <= y
    BY <1>1, LeastOf
  <1>3. m \in 0 .. n /\ m \notin S
    OBVIOUS
  <1>4. m # 0
    BY <1>3
  <1>5. m - 1 \in 0 .. n - 1 /\ m - 1 \in 0 .. n /\ ~(m <= m - 1) /\ (m - 1) + 1 = m
    BY <1>3, <1>4
  <1>6. m - 1 \notin T
    BY <1>2, <1>5
  <1>7. m - 1 \in S
    BY <1>5, <1>6
  <1> QED
    BY <1>3, <1>5, <1>7

-----------------------------------------------------------------------------
(* Concatenation.  Cat is \o, hidden from the provers but for what follows. *)

Cat(s, t) == s \o t

LEMMA CatIs ==
    ASSUME NEW s \in Seq(Nat), NEW t \in Seq(Nat)
    PROVE  /\ Cat(s, t) \in Seq(Nat)
           /\ Len(Cat(s, t)) = Len(s) + Len(t)
           /\ \A i \in 1 .. Len(s) : Cat(s, t)[i] = s[i]
           /\ \A i \in 1 .. Len(t) : Cat(s, t)[Len(s) + i] = t[i]
  <1>1. Len(s) \in Nat /\ Len(t) \in Nat
    OBVIOUS
  <1>2. /\ s \o t \in Seq(Nat)
        /\ Len(s \o t) = Len(s) + Len(t)
        /\ \A i \in 1 .. Len(s) + Len(t) :
             (s \o t)[i] = IF i <= Len(s) THEN s[i] ELSE t[i - Len(s)]
    BY ConcatProperties
  <1>3. /\ Cat(s, t) \in Seq(Nat)
        /\ Len(Cat(s, t)) = Len(s) + Len(t)
        /\ \A i \in 1 .. Len(s) + Len(t) :
             Cat(s, t)[i] = IF i <= Len(s) THEN s[i] ELSE t[i - Len(s)]
    BY <1>2, Zenon DEF Cat
  <1>4. ASSUME NEW i \in 1 .. Len(t) PROVE Cat(s, t)[Len(s) + i] = t[i]
    <2>1. Len(s) + i \in 1 .. Len(s) + Len(t) /\ ~(Len(s) + i <= Len(s))
          /\ (Len(s) + i) - Len(s) = i
      BY <1>1
    <2> QED
      BY <1>3, <2>1
  <1>5. ASSUME NEW i \in 1 .. Len(s) PROVE Cat(s, t)[i] = s[i]
    <2>1. i \in 1 .. Len(s) + Len(t) /\ i <= Len(s)
      BY <1>1
    <2> QED
      BY <1>3, <2>1
  <1> QED
    BY <1>3, <1>4, <1>5

LEMMA CatLen ==
    ASSUME NEW s \in Seq(Nat), NEW t \in Seq(Nat)
    PROVE  Cat(s, t) \in Seq(Nat) /\ Len(Cat(s, t)) = Len(s) + Len(t)
  BY CatIs, Zenon

LEMMA CatEmpty ==
    ASSUME NEW s \in Seq(Nat)
    PROVE  Cat(s, <<>>) = s /\ Cat(<<>>, s) = s
  BY ConcatEmptySeq, Zenon DEF Cat

LEMMA CatAssoc ==
    ASSUME NEW s \in Seq(Nat), NEW t \in Seq(Nat), NEW u \in Seq(Nat)
    PROVE  Cat(Cat(s, t), u) = Cat(s, Cat(t, u))
  BY ConcatAssociative, SMTT(40) DEF Cat

LEMMA CatCancel ==
    ASSUME NEW s \in Seq(Nat), NEW t \in Seq(Nat), NEW u \in Seq(Nat),
           Cat(s, t) = Cat(s, u)
    PROVE  t = u
  <1>1. Len(t) = Len(u)
    <2>1. Len(Cat(s, t)) = Len(s) + Len(t) /\ Len(Cat(s, u)) = Len(s) + Len(u)
      BY CatIs
    <2> QED
      BY <2>1
  <1>2. \A i \in 1 .. Len(t) : Cat(s, t)[Len(s) + i] = t[i]
    BY CatIs
  <1>3. \A i \in 1 .. Len(u) : Cat(s, u)[Len(s) + i] = u[i]
    BY CatIs
  <1>4. \A i \in 1 .. Len(t) : t[i] = u[i]
    BY <1>1, <1>2, <1>3
  <1> QED
    BY <1>1, <1>4, SeqEqual

\* What is taken off the front of a concatenation, and what is left.
LEMMA CatSplit ==
    ASSUME NEW s \in Seq(Nat), NEW t \in Seq(Nat)
    PROVE  /\ SubSeq(Cat(s, t), 1, Len(s)) = s
           /\ Skip(Cat(s, t), Len(s)) = t
  <1>1. Len(s) \in Nat /\ Len(t) \in Nat
    OBVIOUS
  <1>2. /\ Cat(s, t) \in Seq(Nat) /\ Len(Cat(s, t)) = Len(s) + Len(t)
        /\ \A i \in 1 .. Len(s) : Cat(s, t)[i] = s[i]
        /\ \A i \in 1 .. Len(t) : Cat(s, t)[Len(s) + i] = t[i]
    BY CatIs
  <1>3. PICK c \in Seq(Nat) : c = Cat(s, t)
    BY <1>2
  <1>4. PICK m \in Nat : m = Len(s)
    BY <1>1
  <1>5. PICK n \in Nat : n = Len(t)
    BY <1>1
  <1>6. Len(c) = m + n /\ \A i \in 1 .. m + n : c[i] \in Nat
    BY <1>2, <1>3, <1>4, <1>5
  <1>7. SubSeq(c, 1, m) = s
    <2>1. SubSeq(c, 1, m) \in Seq(Nat) /\ Len(SubSeq(c, 1, m)) = m
          /\ \A i \in 1 .. m : SubSeq(c, 1, m)[i] = c[i]
      BY <1>6
    <2> QED
      BY <1>2, <1>3, <1>4, <2>1, SeqEqual
  <1>8. SubSeq(c, m + 1, m + n) = t
    <2>1. SubSeq(c, m + 1, m + n) \in Seq(Nat) /\ Len(SubSeq(c, m + 1, m + n)) = n
          /\ \A i \in 1 .. n : SubSeq(c, m + 1, m + n)[i] = c[m + i]
      BY <1>6
    <2> QED
      BY <1>2, <1>3, <1>4, <1>5, <2>1, SeqEqual, ZenonT(40)
  <1> QED
    BY <1>3, <1>4, <1>6, <1>7, <1>8 DEF Skip

-----------------------------------------------------------------------------
(* Flattening and sums *)

\* The first k prefixes of a concatenation, one after the other.
Growth(ss, k, g) ==
    /\ g \in [0 .. k -> Seq(Nat)] /\ g[0] = <<>>
    /\ \A i \in 1 .. k : g[i] = Cat(g[i - 1], ss[i])

LEMMA GrowthStep ==
    ASSUME NEW ss, NEW k \in Nat, NEW g, Growth(ss, k, g), ss[k + 1] \in Seq(Nat)
    PROVE  \E h : Growth(ss, k + 1, h)
  <1> DEFINE h == [i \in 0 .. k + 1 |-> IF i = k + 1 THEN Cat(g[k], ss[k + 1]) ELSE g[i]]
  <1>1. \A i \in 0 .. k : g[i] \in Seq(Nat)
    BY DEF Growth
  <1>2. Cat(g[k], ss[k + 1]) \in Seq(Nat)
    <2>1. g[k] \in Seq(Nat)
      BY <1>1
    <2> QED
      BY <2>1, CatIs, Zenon
  <1>3. h \in [0 .. k + 1 -> Seq(Nat)]
    BY <1>1, <1>2
  <1>4. h[0] = <<>>
    BY DEF Growth
  <1>5. ASSUME NEW i \in 1 .. k + 1 PROVE h[i] = Cat(h[i - 1], ss[i])
    <2>1. CASE i = k + 1
      BY <2>1
    <2>2. CASE i # k + 1
      <3>1. i \in 1 .. k /\ i \in 0 .. k + 1 /\ i - 1 \in 0 .. k + 1 /\ i - 1 # k + 1
        BY <2>2
      <3>2. g[i] = Cat(g[i - 1], ss[i])
        BY <3>1 DEF Growth
      <3> QED
        BY <2>2, <3>1, <3>2
    <2> QED
      BY <2>1, <2>2
  <1> HIDE DEF h
  <1>6. Growth(ss, k + 1, h)
    BY <1>3, <1>4, <1>5 DEF Growth
  <1> QED
    BY <1>6

LEMMA GrowthExists ==
    ASSUME NEW ss \in Seq(Seq(Nat))
    PROVE  \E g : Growth(ss, Len(ss), g)
  <1>1. PICK n \in Nat : n = Len(ss)
    OBVIOUS
  <1> DEFINE K == {k \in Nat : \E g : Growth(ss, k, g)}
  <1>2. 0 \in K
    <2>1. [i \in 0 .. 0 |-> <<>>] \in [0 .. 0 -> Seq(Nat)]
      BY EmptySeq
    <2>2. Growth(ss, 0, [i \in 0 .. 0 |-> <<>>])
      BY <2>1 DEF Growth
    <2> QED
      BY <2>2
  <1>3. \A k \in 0 .. n - 1 : k \in K => k + 1 \in K
    <2> SUFFICES ASSUME NEW k \in 0 .. n - 1, k \in K PROVE k + 1 \in K
      OBVIOUS
    <2>1. k \in Nat /\ k + 1 \in Nat /\ ss[k + 1] \in Seq(Nat)
      BY <1>1
    <2>2. PICK g : Growth(ss, k, g)
      OBVIOUS
    <2>3. \E h : Growth(ss, k + 1, h)
      BY <2>1, <2>2, GrowthStep
    <2> QED
      BY <2>1, <2>3
  <1>4. n \in K
    <2> HIDE DEF K
    <2>1. \A k \in 0 .. n : k \in K
      BY <1>2, <1>3, UpTo
    <2> QED
      BY <2>1
  <1> QED
    BY <1>1, <1>4

\* The equations of FlattenSeq and of Sum.
FlattenEq(ss, f) ==
    f = [i \in 1 .. Len(ss) |-> IF i = 1 THEN ss[i] ELSE Cat(f[i - 1], ss[i])]
SumEq(ns, f) ==
    f = [i \in 0 .. Len(ns) |-> IF i = 0 THEN 0 ELSE f[i - 1] + ns[i]]

\* The last of the prefixes is the concatenation.
LEMMA FlattenIs ==
    ASSUME NEW ss \in Seq(Seq(Nat)), NEW g, Growth(ss, Len(ss), g)
    PROVE  FlattenSeq(ss) = g[Len(ss)]
  <1>1. PICK n \in Nat : n = Len(ss)
    OBVIOUS
  <1>2. \A i \in 1 .. n : ss[i] \in Seq(Nat) /\ g[i] = Cat(g[i - 1], ss[i])
    BY <1>1 DEF Growth
  <1>3. g[0] = <<>>
    BY DEF Growth
  <1>4. CASE n = 0
    <2>0. Len(ss) = 0
      BY <1>1, <1>4
    <2>1. ss = <<>> /\ Len(ss) = 0
      BY <2>0, EmptySeq
    <2>2. FlattenSeq(ss) = ss
      BY <2>1, Zenon DEF FlattenSeq
    <2> QED
      BY <1>1, <1>3, <1>4, <2>1, <2>2
  <1>5. CASE n # 0
    <2>1. \A i \in 1 .. n : g[i] = IF i = 1 THEN ss[i] ELSE Cat(g[i - 1], ss[i])
      <3>1. g[1] = Cat(<<>>, ss[1]) /\ ss[1] \in Seq(Nat)
        BY <1>2, <1>3, <1>5
      <3>2. g[1] = ss[1]
        BY <3>1, CatEmpty
      <3> QED
        BY <1>2, <3>2
    <2>2. FlattenEq(ss, [i \in 1 .. n |-> g[i]])
      BY <1>1, <2>1 DEF FlattenEq
    <2> DEFINE f == CHOOSE h : FlattenEq(ss, h)
    <2>3. FlattenEq(ss, f)
      BY <2>2
    <2>4. FlattenSeq(ss) = f[n]
      BY <1>1, <1>5 DEF FlattenSeq, FlattenEq, Cat
    <2> HIDE DEF f
    <2> DEFINE K == {k \in Nat : k # 0 => f[k] = g[k]}
    <2>5. 0 \in K
      OBVIOUS
    <2>6. \A k \in 0 .. n - 1 : k \in K => k + 1 \in K
      <3> SUFFICES ASSUME NEW k \in 0 .. n - 1, k \in K PROVE f[k + 1] = g[k + 1]
        OBVIOUS
      <3>1. k + 1 \in 1 .. n /\ (k + 1) - 1 = k
        OBVIOUS
      <3>2. f[k + 1] = IF k + 1 = 1 THEN ss[k + 1] ELSE Cat(f[k], ss[k + 1])
        BY <1>1, <2>3, <3>1 DEF FlattenEq
      <3>3. g[k + 1] = IF k + 1 = 1 THEN ss[k + 1] ELSE Cat(g[k], ss[k + 1])
        BY <2>1, <3>1
      <3> QED
        BY <3>2, <3>3
    <2>7. n \in K
      <3> HIDE DEF K
      <3>1. \A k \in 0 .. n : k \in K
        BY <2>5, <2>6, UpTo
      <3> QED
        BY <3>1
    <2> QED
      BY <1>1, <1>5, <2>4, <2>7
  <1> QED
    BY <1>4, <1>5

\* A sum is what a function that satisfies its recursion says.
LEMMA SumIs ==
    ASSUME NEW ns \in Seq(Nat), NEW g, g[0] = 0,
           \A i \in 1 .. Len(ns) : g[i] = g[i - 1] + ns[i]
    PROVE  Sum(ns) = g[Len(ns)]
  <1>1. PICK n \in Nat : n = Len(ns)
    OBVIOUS
  <1>2. SumEq(ns, [i \in 0 .. n |-> g[i]])
    BY <1>1 DEF SumEq
  <1> DEFINE f == CHOOSE h : SumEq(ns, h)
  <1>3. SumEq(ns, f)
    BY <1>2
  <1>4. Sum(ns) = f[n]
    BY <1>1 DEF Sum, SumEq
  <1> HIDE DEF f
  <1> DEFINE K == {k \in Nat : f[k] = g[k]}
  <1>5. 0 \in K
    BY <1>1, <1>3 DEF SumEq
  <1>6. \A k \in 0 .. n - 1 : k \in K => k + 1 \in K
    <2> SUFFICES ASSUME NEW k \in 0 .. n - 1, k \in K PROVE f[k + 1] = g[k + 1]
      OBVIOUS
    <2>1. k + 1 \in 1 .. n /\ (k + 1) - 1 = k
      OBVIOUS
    <2>2. f[k + 1] = f[k] + ns[k + 1]
      BY <1>1, <1>3, <2>1 DEF SumEq
    <2>3. g[k + 1] = g[k] + ns[k + 1]
      BY <1>1, <2>1
    <2> QED
      BY <2>2, <2>3
  <1>7. n \in K
    <2> HIDE DEF K
    <2>1. \A k \in 0 .. n : k \in K
      BY <1>5, <1>6, UpTo
    <2> QED
      BY <2>1
  <1> QED
    BY <1>1, <1>4, <1>7

\* The length of a concatenation is the sum of the lengths.
LEMMA FlattenLen ==
    ASSUME NEW ss \in Seq(Seq(Nat)), NEW ns \in Seq(Nat), Len(ns) = Len(ss),
           \A i \in 1 .. Len(ss) : ns[i] = Len(ss[i])
    PROVE  /\ FlattenSeq(ss) \in Seq(Nat)
           /\ Len(FlattenSeq(ss)) = Sum(ns)
  <1>0. PICK n \in Nat : n = Len(ss)
    OBVIOUS
  <1>1. PICK g : Growth(ss, n, g)
    BY <1>0, GrowthExists
  <1>2. FlattenSeq(ss) = g[n]
    BY <1>0, <1>1, FlattenIs
  <1> DEFINE h == [i \in 0 .. n |-> Len(g[i])]
  <1>3. \A i \in 0 .. n : g[i] \in Seq(Nat) /\ h[i] = Len(g[i])
    BY <1>1 DEF Growth
  <1>4. h[0] = 0
    BY <1>1, <1>3, EmptySeq DEF Growth
  <1>5. ASSUME NEW i \in 1 .. n PROVE h[i] = h[i - 1] + ns[i]
    <2>1. i - 1 \in 0 .. n /\ i \in 0 .. n /\ g[i] = Cat(g[i - 1], ss[i])
      BY <1>1 DEF Growth
    <2>2. ss[i] \in Seq(Nat) /\ g[i - 1] \in Seq(Nat)
      BY <1>0, <1>3, <2>1
    <2>3. Len(Cat(g[i - 1], ss[i])) = Len(g[i - 1]) + Len(ss[i])
      BY <2>2, CatIs, Zenon
    <2> QED
      BY <1>0, <1>3, <2>1, <2>3
  <1> HIDE DEF h
  <1>6. Sum(ns) = h[n]
    BY <1>0, <1>4, <1>5, SumIs
  <1> QED
    BY <1>2, <1>3, <1>6

\* What is left of a concatenation after each of its parts.
Tails(ss, R) ==
    /\ R \in [0 .. Len(ss) -> Seq(Nat)] /\ R[Len(ss)] = <<>>
    /\ \A i \in 1 .. Len(ss) : R[i - 1] = Cat(ss[i], R[i])

LEMMA TailsExist ==
    ASSUME NEW ss \in Seq(Seq(Nat))
    PROVE  \E R : Tails(ss, R) /\ R[0] = FlattenSeq(ss)
  <1>0. PICK n \in Nat : n = Len(ss)
    OBVIOUS
  <1>1. PICK g : Growth(ss, n, g)
    BY <1>0, GrowthExists
  <1>2. /\ \A i \in 0 .. n : g[i] \in Seq(Nat)
        /\ g[0] = <<>>
        /\ \A i \in 1 .. n : g[i] = Cat(g[i - 1], ss[i])
    BY <1>1 DEF Growth
  <1>3. \A i \in 1 .. n : ss[i] \in Seq(Nat)
    BY <1>0
  <1> DEFINE K == {k \in Nat : \E x \in Seq(Nat) : g[n] = Cat(g[n - k], x)}
  <1>4. 0 \in K
    <2>1. g[n] \in Seq(Nat) /\ n - 0 = n /\ <<>> \in Seq(Nat)
      BY <1>2
    <2>2. g[n] = Cat(g[n - 0], <<>>)
      BY <2>1, CatEmpty
    <2> QED
      BY <2>1, <2>2
  <1>5. \A k \in 0 .. n - 1 : k \in K => k + 1 \in K
    <2> SUFFICES ASSUME NEW k \in 0 .. n - 1, k \in K
                 PROVE  \E x \in Seq(Nat) : g[n] = Cat(g[n - (k + 1)], x)
      OBVIOUS
    <2>1. PICK x \in Seq(Nat) : g[n] = Cat(g[n - k], x)
      OBVIOUS
    <2>2. PICK m \in 1 .. n : m = n - k /\ m - 1 = n - (k + 1) /\ m - 1 \in 0 .. n
      OBVIOUS
    <2>3. g[m - 1] \in Seq(Nat) /\ ss[m] \in Seq(Nat) /\ g[m] = Cat(g[m - 1], ss[m])
      BY <1>2, <1>3, <2>2
    <2>4. Cat(Cat(g[m - 1], ss[m]), x) = Cat(g[m - 1], Cat(ss[m], x))
      BY <2>3, CatAssoc, Zenon
    <2>5. Cat(ss[m], x) \in Seq(Nat)
      BY <2>3, CatIs, Zenon
    <2> QED
      BY <2>1, <2>2, <2>3, <2>4, <2>5
  <1>6. \A i \in 0 .. n : \E x \in Seq(Nat) : g[n] = Cat(g[i], x)
    <2>1. \A k \in 0 .. n : k \in K
      <3> HIDE DEF K
      <3> QED
        BY <1>4, <1>5, UpTo
    <2> SUFFICES ASSUME NEW i \in 0 .. n PROVE \E x \in Seq(Nat) : g[n] = Cat(g[i], x)
      OBVIOUS
    <2>2. n - i \in 0 .. n /\ n - (n - i) = i
      OBVIOUS
    <2>3. n - i \in K
      BY <2>1, <2>2
    <2> QED
      BY <2>2, <2>3
  <1> DEFINE R == [i \in 0 .. n |-> CHOOSE x \in Seq(Nat) : g[n] = Cat(g[i], x)]
  <1>7. \A i \in 0 .. n : R[i] \in Seq(Nat) /\ g[n] = Cat(g[i], R[i])
    BY <1>6
  <1>8. R \in [0 .. n -> Seq(Nat)]
    BY <1>7
  <1> HIDE DEF R
  <1>9. R[n] = <<>>
    <2>1. g[n] \in Seq(Nat) /\ R[n] \in Seq(Nat) /\ <<>> \in Seq(Nat) /\ g[n] = Cat(g[n], R[n])
      BY <1>2, <1>7
    <2>2. Cat(g[n], <<>>) = g[n]
      BY <2>1, CatEmpty, Zenon
    <2> QED
      BY <2>1, <2>2, CatCancel
  <1>10. \A i \in 1 .. n : R[i - 1] = Cat(ss[i], R[i])
    <2> SUFFICES ASSUME NEW i \in 1 .. n PROVE R[i - 1] = Cat(ss[i], R[i])
      OBVIOUS
    <2>1. /\ i - 1 \in 0 .. n /\ i \in 0 .. n
          /\ g[i - 1] \in Seq(Nat) /\ ss[i] \in Seq(Nat) /\ g[i] = Cat(g[i - 1], ss[i])
          /\ R[i] \in Seq(Nat) /\ R[i - 1] \in Seq(Nat)
      BY <1>2, <1>3, <1>7, SMTT(40)
    <2>2. g[n] = Cat(g[i - 1], R[i - 1]) /\ g[n] = Cat(Cat(g[i - 1], ss[i]), R[i])
      BY <1>7, <2>1
    <2>3. Cat(Cat(g[i - 1], ss[i]), R[i]) = Cat(g[i - 1], Cat(ss[i], R[i]))
      BY <2>1, CatAssoc, Zenon
    <2>4. Cat(ss[i], R[i]) \in Seq(Nat)
      BY <2>1, CatIs, Zenon
    <2> QED
      BY <2>1, <2>2, <2>3, <2>4, CatCancel
  <1>11. R[0] = FlattenSeq(ss)
    <2>1. FlattenSeq(ss) = g[n]
      BY <1>0, <1>1, FlattenIs
    <2>2. g[n] = Cat(<<>>, R[0]) /\ R[0] \in Seq(Nat)
      BY <1>2, <1>7
    <2> QED
      BY <2>1, <2>2, CatEmpty
  <1> QED
    BY <1>0, <1>8, <1>9, <1>10, <1>11 DEF Tails

-----------------------------------------------------------------------------
(* Cutting the end off a sequence. *)

Chop(s, k) == SubSeq(s, 1, Len(s) - k)

LEMMA ChopIs ==
    ASSUME NEW s \in Seq(Nat), NEW k \in 0 .. Len(s)
    PROVE  /\ Chop(s, k) \in Seq(Nat) /\ Len(Chop(s, k)) = Len(s) - k
           /\ \A i \in 1 .. Len(s) - k : Chop(s, k)[i] = s[i]
  <1>0. Len(s) \in Nat /\ Len(s) - k \in Nat /\ Len(s) - k <= Len(s)
    OBVIOUS
  <1>1. PICK n \in Nat : n = Len(s) - k /\ n <= Len(s)
    BY <1>0
  <1>2. SubSeq(s, 1, n) \in Seq(Nat) /\ Len(SubSeq(s, 1, n)) = n
        /\ \A i \in 1 .. n : SubSeq(s, 1, n)[i] = s[i]
    BY <1>1
  <1> QED
    BY <1>1, <1>2 DEF Chop

\* A cut within the second of two parts.
LEMMA ChopSecond ==
    ASSUME NEW s \in Seq(Nat), NEW t \in Seq(Nat), NEW k \in 0 .. Len(t)
    PROVE  Chop(Cat(s, t), k) = Cat(s, Chop(t, k))
  <1>1. PICK m \in Nat : m = Len(s)
    OBVIOUS
  <1>2. PICK n \in Nat : n = Len(t)
    OBVIOUS
  <1>3. /\ Cat(s, t) \in Seq(Nat) /\ Len(Cat(s, t)) = m + n
        /\ \A i \in 1 .. m : Cat(s, t)[i] = s[i]
        /\ \A i \in 1 .. n : Cat(s, t)[m + i] = t[i]
    BY <1>1, <1>2, CatIs
  <1>4. k \in 0 .. Len(Cat(s, t)) /\ (m + n) - k = m + (n - k)
    BY <1>2, <1>3
  <1>5. /\ Chop(Cat(s, t), k) \in Seq(Nat) /\ Len(Chop(Cat(s, t), k)) = m + (n - k)
        /\ \A i \in 1 .. m + (n - k) : Chop(Cat(s, t), k)[i] = Cat(s, t)[i]
    BY <1>3, <1>4, ChopIs, ZenonT(40)
  <1>6. /\ Chop(t, k) \in Seq(Nat) /\ Len(Chop(t, k)) = n - k
        /\ \A i \in 1 .. n - k : Chop(t, k)[i] = t[i]
    BY <1>2, ChopIs
  <1>7. /\ Cat(s, Chop(t, k)) \in Seq(Nat) /\ Len(Cat(s, Chop(t, k))) = m + (n - k)
        /\ \A i \in 1 .. m : Cat(s, Chop(t, k))[i] = s[i]
        /\ \A i \in 1 .. n - k : Cat(s, Chop(t, k))[m + i] = Chop(t, k)[i]
    <2>1. PICK c \in Seq(Nat) : c = Chop(t, k) /\ Len(c) = n - k
      BY <1>6
    <2>2. /\ Cat(s, c) \in Seq(Nat) /\ Len(Cat(s, c)) = Len(s) + Len(c)
          /\ \A i \in 1 .. Len(s) : Cat(s, c)[i] = s[i]
          /\ \A i \in 1 .. Len(c) : Cat(s, c)[Len(s) + i] = c[i]
      BY CatIs, Zenon
    <2> QED
      BY <1>1, <2>1, <2>2
  <1>8. ASSUME NEW i \in 1 .. m + (n - k)
        PROVE  Chop(Cat(s, t), k)[i] = Cat(s, Chop(t, k))[i]
    <2>1. CASE i <= m
      <3>1. i \in 1 .. m
        BY <2>1
      <3>2. Chop(Cat(s, t), k)[i] = Cat(s, t)[i]
        BY <1>5, <1>8, Zenon
      <3>3. Cat(s, t)[i] = s[i] /\ Cat(s, Chop(t, k))[i] = s[i]
        BY <1>3, <1>7, <3>1, Zenon
      <3> QED
        BY <3>2, <3>3, Zenon
    <2>2. CASE i > m
      <3>1. PICK j \in 1 .. n - k : i = m + j
        BY <1>2, <2>2
      <3>2. j \in 1 .. n
        BY <1>2
      <3> QED
        BY <1>3, <1>5, <1>6, <1>7, <3>1, <3>2
    <2> QED
      BY <2>1, <2>2
  <1> QED
    BY <1>5, <1>7, <1>8, SeqEqual

\* A cut that takes the second part and the end of the first.
LEMMA ChopFirst ==
    ASSUME NEW s \in Seq(Nat), NEW t \in Seq(Nat), NEW k \in Nat,
           Len(t) <= k, k <= Len(s) + Len(t)
    PROVE  k - Len(t) \in 0 .. Len(s) /\ Chop(Cat(s, t), k) = Chop(s, k - Len(t))
  <1>1. PICK m \in Nat : m = Len(s)
    OBVIOUS
  <1>2. PICK n \in Nat : n = Len(t)
    OBVIOUS
  <1>3. /\ Cat(s, t) \in Seq(Nat) /\ Len(Cat(s, t)) = m + n
        /\ \A i \in 1 .. m : Cat(s, t)[i] = s[i]
    BY <1>1, <1>2, CatIs
  <1>4. PICK l \in 0 .. m : l = k - n /\ m - l = (m + n) - k /\ k \in 0 .. m + n
    <2>1. k - n \in 0 .. m /\ m - (k - n) = (m + n) - k /\ k \in 0 .. m + n
      BY <1>1, <1>2
    <2> QED
      BY <2>1
  <1>5. /\ Chop(Cat(s, t), k) \in Seq(Nat) /\ Len(Chop(Cat(s, t), k)) = m - l
        /\ \A i \in 1 .. m - l : Chop(Cat(s, t), k)[i] = Cat(s, t)[i]
    <2>1. k \in 0 .. Len(Cat(s, t)) /\ Len(Cat(s, t)) - k = m - l
      BY <1>3, <1>4
    <2> QED
      BY <1>3, <2>1, ChopIs
  <1>6. /\ Chop(s, l) \in Seq(Nat) /\ Len(Chop(s, l)) = m - l
        /\ \A i \in 1 .. m - l : Chop(s, l)[i] = s[i]
    <2>1. l \in 0 .. Len(s)
      BY <1>1
    <2> QED
      BY <1>1, <2>1, ChopIs
  <1>7. \A i \in 1 .. m - l : Chop(Cat(s, t), k)[i] = Chop(s, l)[i]
    BY <1>3, <1>4, <1>5, <1>6
  <1>8. Chop(Cat(s, t), k) = Chop(s, l)
    BY <1>5, <1>6, <1>7, SeqEqual
  <1> QED
    BY <1>1, <1>2, <1>4, <1>8

\* A cut falls within one of the parts.
LEMMA CutFalls ==
    ASSUME NEW ss \in Seq(Seq(Nat)), NEW R, Tails(ss, R), NEW k \in 1 .. Len(R[0])
    PROVE  \E j \in 1 .. Len(ss) : Len(R[j]) < k /\ \A i \in 0 .. j - 1 : k <= Len(R[i])
  <1>1. PICK n \in Nat : n = Len(ss)
    OBVIOUS
  <1>2. \A i \in 0 .. n : R[i] \in Seq(Nat) /\ Len(R[i]) \in Nat
    <2>1. R \in [0 .. n -> Seq(Nat)]
      BY <1>1 DEF Tails
    <2> QED
      BY <2>1
  <1>3. k \in Nat /\ k >= 1 /\ k <= Len(R[0])
    BY <1>2
  <1>4. Len(R[n]) = 0
    BY <1>1, EmptySeq DEF Tails
  <1> DEFINE K == {i \in 0 .. n : Len(R[i]) < k}
  <1>5. n \in K
    BY <1>3, <1>4
  <1>6. K \in SUBSET Nat /\ K # {}
    BY <1>5
  <1>7. PICK j \in K : \A y \in K : j <= y
    <2> HIDE DEF K
    <2> QED
      BY <1>6, LeastOf
  <1>8. j \in 0 .. n /\ Len(R[j]) < k
    BY <1>7
  <1>9. j # 0
    BY <1>2, <1>3, <1>8
  <1>10. \A i \in 0 .. j - 1 : k <= Len(R[i])
    <2> SUFFICES ASSUME NEW i \in 0 .. j - 1 PROVE k <= Len(R[i])
      OBVIOUS
    <2>1. i \in 0 .. n /\ ~(j <= i)
      BY <1>8
    <2>2. i \notin K
      BY <1>7, <2>1
    <2>3. ~(Len(R[i]) < k)
      BY <2>1, <2>2
    <2> QED
      BY <1>2, <1>3, <2>1, <2>3
  <1> QED
    BY <1>1, <1>8, <1>9, <1>10

-----------------------------------------------------------------------------
(* The lists of fields *)

\* The fields that reach to the end of a body; all others end by themselves.
LastOnly == {"tlvs"} \cup Optionals
Plain ==
    CStrings \cup {"short_message", "dest_addresses", "unsuccess_sme"} \cup
    {"source_addr_ton", "source_addr_npi", "dest_addr_ton", "dest_addr_npi",
     "esme_addr_ton", "esme_addr_npi", "esm_class", "protocol_id", "priority_flag",
     "registered_delivery", "replace_if_present_flag", "data_coding",
     "sm_default_msg_id", "interface_version", "addr_ton", "addr_npi",
     "message_state", "error_code"}
Names == Plain \cup LastOnly

\* A list of fields of which at most the last reaches to the end of the body.
Ends(s) == s \in Seq(Names) /\ \A i \in 1 .. Len(s) - 1 : s[i] \in Plain

LEMMA EndsPlain ==
    ASSUME NEW s \in Seq(Plain)
    PROVE  Ends(s)
  BY SeqMonotonic DEF Ends, Names

LEMMA EndsCat ==
    ASSUME NEW s \in Seq(Plain), NEW t, Ends(t), t # <<>>
    PROVE  Ends(s \o t)
  <1>1. s \in Seq(Names) /\ t \in Seq(Names)
    BY SeqMonotonic DEF Names, Ends
  <1>2. PICK m \in Nat : m = Len(s)
    OBVIOUS
  <1>3. PICK n \in Nat : n = Len(t) /\ n > 0
    BY <1>1, EmptySeq
  <1>4. /\ s \o t \in Seq(Names) /\ Len(s \o t) = m + n
        /\ \A i \in 1 .. m + n : (s \o t)[i] = IF i <= m THEN s[i] ELSE t[i - m]
    BY <1>1, <1>2, <1>3, ConcatProperties
  <1>5. ASSUME NEW i \in 1 .. (m + n) - 1 PROVE (s \o t)[i] \in Plain
    <2>1. CASE i <= m
      BY <1>2, <1>4, <2>1
    <2>2. CASE i > m
      <3>1. i - m \in 1 .. n - 1 /\ ~(i <= m) /\ i \in 1 .. m + n
        BY <1>3, <2>2
      <3>2. t[i - m] \in Plain
        BY <1>3, <3>1 DEF Ends
      <3>3. (s \o t)[i] = t[i - m]
        BY <1>4, <3>1, Zenon
      <3> QED
        BY <3>2, <3>3, Zenon
    <2>3. i <= m \/ i > m
      OBVIOUS
    <2> QED
      BY <2>1, <2>2, <2>3, Zenon
  <1> QED
    BY <1>4, <1>5 DEF Ends

LEMMA ListsEnd ==
    /\ Ends(submit_sm_encode) /\ Ends(deliver_sm_encode) /\ Ends(submit_multi_encode)
    /\ Ends(data_sm_encode) /\ Ends(query_sm_encode) /\ Ends(replace_sm_encode)
    /\ Ends(cancel_sm_encode) /\ Ends(alert_notification_encode)
    /\ Ends(encode_bind_request) /\ Ends(encode_bind_response) /\ Ends(outbind_encode)
    /\ Ends(query_sm_resp_encode) /\ Ends(submit_multi_resp_encode)
    /\ Ends(submit_sm_resp_encode) /\ Ends(deliver_sm_resp_encode)
    /\ Ends(data_sm_resp_encode(TRUE)) /\ Ends(data_sm_resp_encode(FALSE)) /\ Ends(<<>>)
  <1>1. Src \in Seq(Plain) /\ Dst \in Seq(Plain) /\ When \in Seq(Plain)
    BY DEF Src, Dst, When, Names, Plain, CStrings, LastOnly, Optionals
  <1>2. How \in Seq(Plain) /\ Opts \in Seq(Plain) /\ EsmeAddr \in Seq(Plain)
    BY DEF How, Opts, EsmeAddr, Names, Plain, CStrings, LastOnly, Optionals
  <1>3. <<"service_type">> \in Seq(Plain) /\ <<"message_id">> \in Seq(Plain) /\ <<"dest_addresses">> \in Seq(Plain)
    BY DEF Names, Plain, CStrings, LastOnly, Optionals
  <1>4. <<"service_type", "message_id">> \in Seq(Plain)
        /\ <<"registered_delivery", "sm_default_msg_id", "short_message">> \in Seq(Plain)
    BY DEF Names, Plain, CStrings, LastOnly, Optionals
  <1>5. Ends(<<"short_message", "tlvs">>) /\ Ends(<<"ms_availability_status">>)
    BY DEF Ends, Names, Plain, CStrings, LastOnly, Optionals
  <1>6. Ends(<<"esm_class", "registered_delivery", "data_coding", "tlvs">>)
    BY DEF Ends, Names, Plain, CStrings, LastOnly, Optionals
  <1>7. Ends(encode_bind_request) /\ Ends(outbind_encode)
    BY DEF Ends, Names, Plain, CStrings, LastOnly, Optionals, encode_bind_request, outbind_encode
  <1>8. Ends(encode_bind_response) /\ Ends(query_sm_resp_encode) /\ Ends(<<>>)
    BY DEF Ends, Names, Plain, CStrings, LastOnly, Optionals, encode_bind_response, query_sm_resp_encode
  <1>9. Ends(submit_sm_resp_encode) /\ Ends(deliver_sm_resp_encode) /\ Ends(submit_multi_resp_encode)
    BY DEF Ends, Names, Plain, CStrings, LastOnly, Optionals, submit_sm_resp_encode, deliver_sm_resp_encode,
           submit_multi_resp_encode
  <1>10. Ends(data_sm_resp_encode(TRUE)) /\ Ends(data_sm_resp_encode(FALSE))
    BY DEF Ends, Names, Plain, CStrings, LastOnly, Optionals, data_sm_resp_encode
  <1>11. <<"short_message", "tlvs">> # <<>> /\ <<"ms_availability_status">> # <<>>
         /\ <<"esm_class", "registered_delivery", "data_coding", "tlvs">> # <<>>
    OBVIOUS
  <1>12. \A s, t \in Seq(Plain) : s \o t \in Seq(Plain)
    BY ConcatProperties, Zenon
  <1>13. <<"service_type">> \o Src \o Dst \o How \o When \o Opts \in Seq(Plain)
    BY <1>1, <1>2, <1>3, <1>12, Zenon
  <1>14. <<"service_type">> \o Src \o <<"dest_addresses">> \o How \o When \o Opts \in Seq(Plain)
    BY <1>1, <1>2, <1>3, <1>12, Zenon
  <1>15. <<"service_type">> \o Src \o Dst \in Seq(Plain) /\ Src \o EsmeAddr \in Seq(Plain)
    BY <1>1, <1>2, <1>3, <1>12, Zenon
  <1>16. Ends(submit_sm_encode) /\ Ends(deliver_sm_encode)
    BY <1>5, <1>11, <1>13, EndsCat, Zenon DEF submit_sm_encode, deliver_sm_encode
  <1>17. Ends(submit_multi_encode)
    BY <1>5, <1>11, <1>14, EndsCat, Zenon DEF submit_multi_encode
  <1>18. Ends(data_sm_encode)
    BY <1>6, <1>11, <1>15, EndsCat, Zenon DEF data_sm_encode
  <1>19. Ends(alert_notification_encode)
    BY <1>5, <1>11, <1>15, EndsCat, Zenon DEF alert_notification_encode
  <1>20. Ends(query_sm_encode) /\ Ends(cancel_sm_encode) /\ Ends(replace_sm_encode)
    <2>1. query_sm_encode \in Seq(Plain)
      BY <1>1, <1>3, <1>12, Zenon DEF query_sm_encode
    <2>2. cancel_sm_encode \in Seq(Plain)
      BY <1>1, <1>4, <1>12, Zenon DEF cancel_sm_encode
    <2>3. replace_sm_encode \in Seq(Plain)
      BY <1>1, <1>3, <1>4, <1>12, Zenon DEF replace_sm_encode
    <2> QED
      BY <2>1, <2>2, <2>3, EndsPlain, Zenon
  <1> QED
    BY <1>7, <1>8, <1>9, <1>10, <1>16, <1>17, <1>18, <1>19, <1>20, Zenon

LEMMA WrittenEnds ==
    ASSUME NEW cmd \in Commands, NEW ok \in BOOLEAN
    PROVE  Ends(Written(cmd, ok))
  BY ListsEnd DEF Written, Commands, CommandId, Resps, Binds, BindResps, HeaderOnly

\* decode reads what encode writes, and command_length counts it.
LEMMA SameLists ==
    ASSUME NEW p, p.cmd \in Commands, p.ok \in BOOLEAN
    PROVE  /\ ~(p.cmd = "deliver_sm_resp" /\ ~p.ok) => Read(p.cmd, p.ok) = Written(p.cmd, p.ok)
           /\ p.cmd = "deliver_sm_resp" /\ ~p.ok => Read(p.cmd, p.ok) = <<>>
           /\ ~Misreported(p) => Counted(p.cmd, p.ok) = Written(p.cmd, p.ok)
  BY DEF Written, Read, Counted, Misreported, Commands, CommandId, Resps, Binds, BindResps, HeaderOnly,
         submit_sm_encode, submit_sm_decode, submit_sm_length,
         deliver_sm_encode, deliver_sm_decode, deliver_sm_length,
         submit_multi_encode, parse_submit_sm_multi, submit_multi_base_len,
         data_sm_encode, data_sm_decode, data_sm_length,
         query_sm_encode, query_sm_decode, query_sm_new,
         replace_sm_encode, replace_sm_decode, replace_sm_new,
         cancel_sm_encode, parse_cancel_sm,
         alert_notification_encode, parse_alert_notification, alert_notification_new,
         encode_bind_request, decode_bind_request, bind_new,
         encode_bind_response, bind_resp_decode, bind_accept,
         outbind_encode, outbind_decode, outbind_new,
         query_sm_resp_encode, query_sm_resp_decode, query_sm_accept,
         submit_multi_resp_encode, submit_multi_resp_decode, submit_multi_accept,
         submit_sm_resp_encode, submit_sm_resp_decode, submit_sm_accept,
         deliver_sm_resp_encode, deliver_sm_resp_decode, deliver_sm_accept,
         data_sm_resp_encode, data_sm_resp_decode, data_sm_resp_length

-----------------------------------------------------------------------------
(* What encode writes: octets, as many as command_length counts *)

\* Short tuples, hidden from the provers but for their length and elements.
One(a) == <<a>>
Two(a, b) == <<a, b>>
Three(a, b, c) == <<a, b, c>>
Four(a, b, c, d) == <<a, b, c, d>>

LEMMA OneIs ==
    ASSUME NEW a \in Nat
    PROVE  One(a) \in Seq(Nat) /\ Len(One(a)) = 1 /\ One(a)[1] = a
  BY DEF One

LEMMA TwoIs ==
    ASSUME NEW a \in Nat, NEW b \in Nat
    PROVE  Two(a, b) \in Seq(Nat) /\ Len(Two(a, b)) = 2 /\ Two(a, b)[1] = a /\ Two(a, b)[2] = b
  BY DEF Two

LEMMA FourIs ==
    ASSUME NEW a \in Nat, NEW b \in Nat, NEW c \in Nat, NEW d \in Nat
    PROVE  /\ Four(a, b, c, d) \in Seq(Nat) /\ Len(Four(a, b, c, d)) = 4
           /\ Four(a, b, c, d)[1] = a /\ Four(a, b, c, d)[2] = b
           /\ Four(a, b, c, d)[3] = c /\ Four(a, b, c, d)[4] = d
  BY DEF Four

LEMMA Constants ==
    /\ 0 \in Nat /\ 1 \in Nat /\ 2 \in Nat
    /\ One(0) \in Seq(Nat) /\ Len(One(0)) = 1 /\ One(2) \in Seq(Nat) /\ Len(One(2)) = 1
  BY DEF One

LEMMA HighLow ==
    ASSUME NEW n \in Nat
    PROVE  n \div 256 \in Nat /\ n % 256 \in Nat /\ (n \div 256) * 256 + (n % 256) = n
  OBVIOUS

LEMMA Moduli ==
    ASSUME NEW n \in Nat
    PROVE  /\ n % U8Mod \in Nat /\ (n < U8Mod => n % U8Mod = n)
           /\ n % U16Mod \in Nat /\ (n < U16Mod => n % U16Mod = n)
  <1>1. \A m \in Nat : m > 0 => n % m \in Nat
    OBVIOUS
  <1>2. \A m \in Nat : n < m => n % m = n
    OBVIOUS
  <1>3. U8Mod \in Nat /\ U16Mod \in Nat /\ U8Mod > 0 /\ U16Mod > 0
    BY CodecAssumption
  <1> QED
    BY <1>1, <1>2, <1>3

LEMMA OctetsAreNats ==
    ASSUME NEW s \in Seq(Octets)
    PROVE  s \in Seq(Nat) /\ Len(s) \in Nat
  <1>1. Octets \subseteq Nat
    BY DEF Octets
  <1>2. s \in Seq(Nat)
    BY <1>1, SeqMonotonic, Zenon
  <1> QED
    BY <1>2

\* Two pairs make a tuple of four.
LEMMA TwoPairs ==
    ASSUME NEW a \in Nat, NEW b \in Nat, NEW c \in Nat, NEW d \in Nat
    PROVE  <<a, b>> \o <<c, d>> = <<a, b, c, d>>
  <1>1. /\ <<a, b>> \in Seq(Nat) /\ Len(<<a, b>>) = 2
        /\ <<c, d>> \in Seq(Nat) /\ Len(<<c, d>>) = 2
        /\ <<a, b, c, d>> \in Seq(Nat) /\ Len(<<a, b, c, d>>) = 4
    OBVIOUS
  <1>2. /\ <<a, b>> \o <<c, d>> \in Seq(Nat)
        /\ Len(<<a, b>> \o <<c, d>>) = Len(<<a, b>>) + Len(<<c, d>>)
        /\ \A i \in 1 .. Len(<<a, b>>) + Len(<<c, d>>) :
             (<<a, b>> \o <<c, d>>)[i]
               = IF i <= Len(<<a, b>>) THEN <<a, b>>[i] ELSE <<c, d>>[i - Len(<<a, b>>)]
    BY <1>1, ConcatProperties, Zenon
  <1>3. PICK s \in Seq(Nat) : s = <<a, b>> \o <<c, d>>
    BY <1>2, Zenon
  <1>4. Len(s) = 4 /\ s[1] = a /\ s[2] = b /\ s[3] = c /\ s[4] = d
    BY <1>1, <1>2, <1>3
  <1>5. \A i \in 1 .. 4 : s[i] = <<a, b, c, d>>[i]
    BY <1>4
  <1>6. s = <<a, b, c, d>>
    BY <1>1, <1>4, <1>5, SeqEqual
  <1> QED
    BY <1>3, <1>6, Zenon

\* The four octets of a number, the highest first.
O1(n) == (n \div 65536) \div 256
O2(n) == (n \div 65536) % 256
O3(n) == (n \div 256) % 256
O4(n) == n % 256

\* Four octets make the number they were taken from.
LEMMA FourOctets ==
    ASSUME NEW n \in Nat
    PROVE  /\ O1(n) \in Nat /\ O2(n) \in Nat /\ O3(n) \in Nat /\ O4(n) \in Nat
           /\ ((O1(n) * 256 + O2(n)) * 256 + O3(n)) * 256 + O4(n) = n
  <1>1. /\ n \div 256 \in Nat /\ n % 256 \in Nat
        /\ (n \div 256) * 256 + (n % 256) = n
    BY HighLow
  <1>2. (n \div 256) \div 256 = n \div 65536
    OBVIOUS
  <1>3. PICK h \in Nat : h = n \div 256
    BY <1>1
  <1>4. /\ h \div 256 \in Nat /\ h % 256 \in Nat
        /\ (h \div 256) * 256 + (h % 256) = h
    BY HighLow
  <1>5. PICK g \in Nat : g = n \div 65536 /\ g = h \div 256
    BY <1>2, <1>3, <1>4
  <1>6. /\ g \div 256 \in Nat /\ g % 256 \in Nat
        /\ (g \div 256) * 256 + (g % 256) = g
    BY HighLow
  <1>7. PICK o1, o2, o3, o4 \in Nat : /\ o1 = O1(n) /\ o2 = O2(n)
                                      /\ o3 = O3(n) /\ o4 = O4(n)
                                      /\ o1 * 256 + o2 = g /\ g * 256 + o3 = h
                                      /\ h * 256 + o4 = n
    BY <1>1, <1>2, <1>3, <1>4, <1>5, <1>6 DEF O1, O2, O3, O4
  <1> QED
    BY <1>7

\* A number below 2^31 has a first octet below 128.
LEMMA TopOctet ==
    ASSUME NEW n \in Nat, n \div 65536 < 32768
    PROVE  ~(O1(n) > 127)
  BY DEF O1

LEMMA ToBytes ==
    ASSUME NEW n \in Nat
    PROVE  /\ to_be_bytes(n) \in Seq(Nat) /\ Len(to_be_bytes(n)) = 4
           /\ to_be_bytes(n)[1] = O1(n) /\ to_be_bytes(n)[2] = O2(n)
           /\ to_be_bytes(n)[3] = O3(n) /\ to_be_bytes(n)[4] = O4(n)
  <1>1. PICK a, b, c, d \in Nat : a = O1(n) /\ b = O2(n) /\ c = O3(n) /\ d = O4(n)
    BY FourOctets, ZenonT(40)
  <1>2. to_be_bytes(n) = <<a, b, c, d>>
    BY <1>1, SMT DEF to_be_bytes, O1, O2, O3, O4
  <1> QED
    BY <1>1, <1>2

\* The octets of a number that has only one.
LEMMA SmallOctets ==
    ASSUME NEW n \in 0 .. 255
    PROVE  O1(n) = 0 /\ O2(n) = 0 /\ O3(n) = 0 /\ O4(n) = n
  BY DEF O1, O2, O3, O4

LEMMA DestOctetsLen ==
    ASSUME NEW d \in Destinations
    PROVE  /\ DestOctets(d) = Cat(IF d.dl THEN One(2) ELSE Three(1, d.ton, d.npi), Cat(d.addr, One(0)))
           /\ d.addr \in Seq(Nat) /\ d.ton \in Nat /\ d.npi \in Nat
           /\ DestOctets(d) \in Seq(Nat) /\ DestLen(d) \in Nat
           /\ Len(DestOctets(d)) = DestLen(d)
  <1>1. d.addr \in Seq(Octets) /\ d.ton \in Nat /\ d.npi \in Nat /\ d.dl \in BOOLEAN
    <2>1. Octets \subseteq Nat /\ {0} \subseteq Nat
      BY DEF Octets
    <2>2. d.addr \in Seq(Octets) /\ d.ton \in Octets \cup {0} /\ d.npi \in Octets \cup {0}
      BY DEF Destinations
    <2>3. d.dl \in BOOLEAN
      BY DEF Destinations
    <2> QED
      BY <2>1, <2>2, <2>3
  <1>2. d.addr \in Seq(Nat) /\ Len(d.addr) \in Nat
    BY <1>1, OctetsAreNats
  <1>3. One(0) \in Seq(Nat) /\ Len(One(0)) = 1 /\ One(2) \in Seq(Nat) /\ Len(One(2)) = 1
        /\ Three(1, d.ton, d.npi) \in Seq(Nat) /\ Len(Three(1, d.ton, d.npi)) = 3
    <2>1. Three(1, d.ton, d.npi) \in Seq(Nat) /\ Len(Three(1, d.ton, d.npi)) = 3
      BY <1>1 DEF Three
    <2> QED
      BY <2>1, Constants, Zenon
  <1>4. Cat(d.addr, One(0)) \in Seq(Nat) /\ Len(Cat(d.addr, One(0))) = Len(d.addr) + 1
    BY <1>2, <1>3, CatLen, Zenon
  <1>5. CASE d.dl
    <2>1. DestOctets(d) = Cat(Cat(One(2), d.addr), One(0))
      BY <1>5, Zenon DEF DestOctets, Cat, One, Three
    <2>2. DestOctets(d) = Cat(One(2), Cat(d.addr, One(0)))
      BY <1>2, <1>3, <2>1, CatAssoc, Zenon
    <2>3. Cat(One(2), Cat(d.addr, One(0))) \in Seq(Nat)
          /\ Len(Cat(One(2), Cat(d.addr, One(0)))) = 1 + (Len(d.addr) + 1)
      BY <1>3, <1>4, CatLen, ZenonT(40)
    <2> QED
      BY <1>1, <1>2, <1>5, <2>2, <2>3 DEF DestLen
  <1>6. CASE ~d.dl
    <2>1. DestOctets(d) = Cat(Cat(Three(1, d.ton, d.npi), d.addr), One(0))
      BY <1>6, Zenon DEF DestOctets, Cat, One, Three
    <2>2. DestOctets(d) = Cat(Three(1, d.ton, d.npi), Cat(d.addr, One(0)))
      BY <1>2, <1>3, <2>1, CatAssoc, Zenon
    <2>3. Cat(Three(1, d.ton, d.npi), Cat(d.addr, One(0))) \in Seq(Nat)
          /\ Len(Cat(Three(1, d.ton, d.npi), Cat(d.addr, One(0)))) = 3 + (Len(d.addr) + 1)
      BY <1>3, <1>4, CatLen, Zenon
    <2> QED
      BY <1>1, <1>2, <1>6, <2>2, <2>3 DEF DestLen
  <1> QED
    BY <1>1, <1>5, <1>6

LEMMA UnsuccessOctetsLen ==
    ASSUME NEW u \in Unsuccessful
    PROVE  /\ UnsuccessOctets(u)
                = Cat(Two(u.ton, u.npi), Cat(u.addr, Cat(One(0), to_be_bytes(u.error))))
           /\ u.addr \in Seq(Nat) /\ u.ton \in Nat /\ u.npi \in Nat /\ u.error \in Nat
           /\ UnsuccessOctets(u) \in Seq(Nat) /\ UnsuccessLen(u) \in Nat
           /\ Len(UnsuccessOctets(u)) = UnsuccessLen(u)
  <1>1. u.addr \in Seq(Octets) /\ u.ton \in Nat /\ u.npi \in Nat /\ u.error \in Nat
    <2>1. Octets \subseteq Nat /\ Longs \subseteq Nat
      BY DEF Octets, Longs
    <2>2. u.addr \in Seq(Octets) /\ u.ton \in Octets /\ u.npi \in Octets /\ u.error \in Longs
      BY DEF Unsuccessful
    <2> QED
      BY <2>1, <2>2
  <1>2. u.addr \in Seq(Nat) /\ Len(u.addr) \in Nat
    BY <1>1, OctetsAreNats
  <1>3. One(0) \in Seq(Nat) /\ Len(One(0)) = 1
        /\ Two(u.ton, u.npi) \in Seq(Nat) /\ Len(Two(u.ton, u.npi)) = 2
    BY <1>1, Constants, TwoIs, Zenon
  <1>4. to_be_bytes(u.error) \in Seq(Nat) /\ Len(to_be_bytes(u.error)) = 4
    BY <1>1, ToBytes
  <1>5. Cat(One(0), to_be_bytes(u.error)) \in Seq(Nat)
        /\ Len(Cat(One(0), to_be_bytes(u.error))) = 1 + 4
    BY <1>3, <1>4, CatLen, Zenon
  <1>6. Cat(u.addr, Cat(One(0), to_be_bytes(u.error))) \in Seq(Nat)
        /\ Len(Cat(u.addr, Cat(One(0), to_be_bytes(u.error)))) = Len(u.addr) + (1 + 4)
    BY <1>2, <1>5, CatLen, Zenon
  <1>7. Cat(Two(u.ton, u.npi), Cat(u.addr, Cat(One(0), to_be_bytes(u.error)))) \in Seq(Nat)
        /\ Len(Cat(Two(u.ton, u.npi), Cat(u.addr, Cat(One(0), to_be_bytes(u.error)))))
             = 2 + (Len(u.addr) + (1 + 4))
    BY <1>3, <1>6, CatLen, Zenon
  <1>8. UnsuccessOctets(u) = Cat(Cat(Cat(Two(u.ton, u.npi), u.addr), One(0)), to_be_bytes(u.error))
    BY Zenon DEF UnsuccessOctets, Cat, One, Two
  <1>9. Cat(Cat(Two(u.ton, u.npi), u.addr), One(0)) = Cat(Two(u.ton, u.npi), Cat(u.addr, One(0)))
    BY <1>2, <1>3, CatAssoc, Zenon
  <1>10. Cat(u.addr, One(0)) \in Seq(Nat)
    BY <1>2, <1>3, CatIs, Zenon
  <1>11. Cat(Cat(Two(u.ton, u.npi), Cat(u.addr, One(0))), to_be_bytes(u.error))
           = Cat(Two(u.ton, u.npi), Cat(Cat(u.addr, One(0)), to_be_bytes(u.error)))
    BY <1>3, <1>4, <1>10, CatAssoc, ZenonT(40)
  <1>12. Cat(Cat(u.addr, One(0)), to_be_bytes(u.error)) = Cat(u.addr, Cat(One(0), to_be_bytes(u.error)))
    BY <1>2, <1>3, <1>4, CatAssoc, Zenon
  <1>13. UnsuccessOctets(u) = Cat(Two(u.ton, u.npi), Cat(u.addr, Cat(One(0), to_be_bytes(u.error))))
    BY <1>8, <1>9, <1>11, <1>12, Zenon
  <1> QED
    BY <1>1, <1>2, <1>7, <1>13 DEF UnsuccessLen

TlvHead(t) ==
    Four(t.tag \div 256, t.tag % 256,
         (Len(t.value) % U16Mod) \div 256, (Len(t.value) % U16Mod) % 256)

LEMMA TlvEncodeLen ==
    ASSUME NEW t \in Tlvs
    PROVE  /\ TlvEncode(t) = Cat(TlvHead(t), t.value)
           /\ t.value \in Seq(Nat) /\ t.tag \in Nat
           /\ TlvHead(t) \in Seq(Nat) /\ Len(TlvHead(t)) = 4
           /\ TlvEncode(t) \in Seq(Nat) /\ encoded_len(t) \in Nat
           /\ Len(TlvEncode(t)) = encoded_len(t)
  <1>1. t.value \in Seq(Octets) /\ t.tag \in Nat
    BY DEF Tlvs, Words
  <1>2. t.value \in Seq(Nat) /\ Len(t.value) \in Nat
    BY <1>1, OctetsAreNats
  <1>3. Len(t.value) % U16Mod \in Nat
    BY <1>2, Moduli
  <1>4. PICK a, b, c, d \in Nat : a = t.tag \div 256 /\ b = t.tag % 256
          /\ c = (Len(t.value) % U16Mod) \div 256 /\ d = (Len(t.value) % U16Mod) % 256
    BY <1>1, <1>3, HighLow
  <1>5. <<a, b>> \o <<c, d>> = <<a, b, c, d>>
    BY TwoPairs, Zenon
  <1>6. TlvHead(t) = Four(a, b, c, d)
    BY <1>4, ZenonT(40) DEF TlvHead
  <1>7. TlvEncode(t) = Cat(TlvHead(t), t.value)
    BY <1>4, <1>5, <1>6, ZenonT(40) DEF TlvEncode, Cat, Four
  <1>8. TlvHead(t) \in Seq(Nat) /\ Len(TlvHead(t)) = 4
    <2>1. Four(a, b, c, d) \in Seq(Nat) /\ Len(Four(a, b, c, d)) = 4
      BY FourIs
    <2> QED
      BY <1>6, <2>1, Zenon
  <1>9. Cat(TlvHead(t), t.value) \in Seq(Nat)
        /\ Len(Cat(TlvHead(t), t.value)) = Len(TlvHead(t)) + Len(t.value)
    BY <1>2, <1>8, CatIs, Zenon
  <1> QED
    BY <1>1, <1>2, <1>7, <1>8, <1>9 DEF encoded_len

LEMMA DestinationsLen ==
    ASSUME NEW v \in Seq(Destinations)
    PROVE  /\ Map(DestOctets, v) \in Seq(Seq(Nat)) /\ Len(Map(DestOctets, v)) = Len(v)
           /\ \A i \in 1 .. Len(v) : Map(DestOctets, v)[i] = DestOctets(v[i])
           /\ FlattenSeq(Map(DestOctets, v)) \in Seq(Nat)
           /\ Len(FlattenSeq(Map(DestOctets, v))) = TotalOf(DestLen, v)
  <1>1. PICK n \in Nat : n = Len(v)
    OBVIOUS
  <1>2. \A i \in 1 .. n : v[i] \in Destinations
    BY <1>1
  <1>3. \A i \in 1 .. n : DestOctets(v[i]) \in Seq(Nat) /\ DestLen(v[i]) \in Nat
                          /\ Len(DestOctets(v[i])) = DestLen(v[i])
    BY <1>2, DestOctetsLen, Zenon
  <1>4. PICK ss : ss = [i \in 1 .. n |-> DestOctets(v[i])]
    OBVIOUS
  <1>5. PICK ns : ns = [i \in 1 .. n |-> DestLen(v[i])]
    OBVIOUS
  <1>6. Map(DestOctets, v) = ss /\ TotalOf(DestLen, v) = Sum(ns)
    BY <1>1, <1>4, <1>5, Zenon DEF Map, TotalOf
  <1>7. ss \in Seq(Seq(Nat)) /\ Len(ss) = n /\ \A i \in 1 .. n : ss[i] = DestOctets(v[i])
    BY <1>3, <1>4
  <1>8. ns \in Seq(Nat) /\ Len(ns) = n /\ \A i \in 1 .. n : ns[i] = DestLen(v[i])
    BY <1>3, <1>5
  <1>9. Len(ns) = Len(ss) /\ \A i \in 1 .. Len(ss) : ns[i] = Len(ss[i])
    BY <1>3, <1>7, <1>8
  <1>10. FlattenSeq(ss) \in Seq(Nat) /\ Len(FlattenSeq(ss)) = Sum(ns)
    BY <1>7, <1>8, <1>9, FlattenLen, Zenon
  <1> QED
    BY <1>1, <1>6, <1>7, <1>10, Zenon

LEMMA UnsuccessfulLen ==
    ASSUME NEW v \in Seq(Unsuccessful)
    PROVE  /\ Map(UnsuccessOctets, v) \in Seq(Seq(Nat)) /\ Len(Map(UnsuccessOctets, v)) = Len(v)
           /\ \A i \in 1 .. Len(v) : Map(UnsuccessOctets, v)[i] = UnsuccessOctets(v[i])
           /\ FlattenSeq(Map(UnsuccessOctets, v)) \in Seq(Nat)
           /\ Len(FlattenSeq(Map(UnsuccessOctets, v))) = TotalOf(UnsuccessLen, v)
  <1>1. PICK n \in Nat : n = Len(v)
    OBVIOUS
  <1>2. \A i \in 1 .. n : v[i] \in Unsuccessful
    BY <1>1
  <1>3. \A i \in 1 .. n : UnsuccessOctets(v[i]) \in Seq(Nat) /\ UnsuccessLen(v[i]) \in Nat
                          /\ Len(UnsuccessOctets(v[i])) = UnsuccessLen(v[i])
    BY <1>2, UnsuccessOctetsLen, Zenon
  <1>4. PICK ss : ss = [i \in 1 .. n |-> UnsuccessOctets(v[i])]
    OBVIOUS
  <1>5. PICK ns : ns = [i \in 1 .. n |-> UnsuccessLen(v[i])]
    OBVIOUS
  <1>6. Map(UnsuccessOctets, v) = ss /\ TotalOf(UnsuccessLen, v) = Sum(ns)
    BY <1>1, <1>4, <1>5, Zenon DEF Map, TotalOf
  <1>7. ss \in Seq(Seq(Nat)) /\ Len(ss) = n /\ \A i \in 1 .. n : ss[i] = UnsuccessOctets(v[i])
    BY <1>3, <1>4
  <1>8. ns \in Seq(Nat) /\ Len(ns) = n /\ \A i \in 1 .. n : ns[i] = UnsuccessLen(v[i])
    BY <1>3, <1>5
  <1>9. Len(ns) = Len(ss) /\ \A i \in 1 .. Len(ss) : ns[i] = Len(ss[i])
    BY <1>3, <1>7, <1>8
  <1>10. FlattenSeq(ss) \in Seq(Nat) /\ Len(FlattenSeq(ss)) = Sum(ns)
    BY <1>7, <1>8, <1>9, FlattenLen, Zenon
  <1> QED
    BY <1>1, <1>6, <1>7, <1>10, Zenon

LEMMA TlvsLen ==
    ASSUME NEW v \in Seq(Tlvs)
    PROVE  /\ Map(TlvEncode, v) \in Seq(Seq(Nat)) /\ Len(Map(TlvEncode, v)) = Len(v)
           /\ \A i \in 1 .. Len(v) : Map(TlvEncode, v)[i] = TlvEncode(v[i])
           /\ FlattenSeq(Map(TlvEncode, v)) \in Seq(Nat)
           /\ Len(FlattenSeq(Map(TlvEncode, v))) = TotalOf(encoded_len, v)
  <1>1. PICK n \in Nat : n = Len(v)
    OBVIOUS
  <1>2. \A i \in 1 .. n : v[i] \in Tlvs
    BY <1>1
  <1>3. \A i \in 1 .. n : TlvEncode(v[i]) \in Seq(Nat) /\ encoded_len(v[i]) \in Nat
                          /\ Len(TlvEncode(v[i])) = encoded_len(v[i])
    BY <1>2, TlvEncodeLen, Zenon
  <1>4. PICK ss : ss = [i \in 1 .. n |-> TlvEncode(v[i])]
    OBVIOUS
  <1>5. PICK ns : ns = [i \in 1 .. n |-> encoded_len(v[i])]
    OBVIOUS
  <1>6. Map(TlvEncode, v) = ss /\ TotalOf(encoded_len, v) = Sum(ns)
    BY <1>1, <1>4, <1>5, Zenon DEF Map, TotalOf
  <1>7. ss \in Seq(Seq(Nat)) /\ Len(ss) = n /\ \A i \in 1 .. n : ss[i] = TlvEncode(v[i])
    BY <1>3, <1>4
  <1>8. ns \in Seq(Nat) /\ Len(ns) = n /\ \A i \in 1 .. n : ns[i] = encoded_len(v[i])
    BY <1>3, <1>5
  <1>9. Len(ns) = Len(ss) /\ \A i \in 1 .. Len(ss) : ns[i] = Len(ss[i])
    BY <1>3, <1>7, <1>8
  <1>10. FlattenSeq(ss) \in Seq(Nat) /\ Len(FlattenSeq(ss)) = Sum(ns)
    BY <1>7, <1>8, <1>9, FlattenLen, Zenon
  <1> QED
    BY <1>1, <1>6, <1>7, <1>10, Zenon

\* A field takes the octets that command_length counts for it.
LEMMA FieldOctetsLen ==
    ASSUME NEW n \in Names, NEW v \in FieldValues(n)
    PROVE  FieldOctets(n, v) \in Seq(Nat) /\ Len(FieldOctets(n, v)) = FieldLen(n, v)
  <1>1. CASE n \in CStrings
    <2>1. v \in Seq(Octets)
      BY <1>1 DEF FieldValues, CStrings, Optionals
    <2>2. v \in Seq(Nat)
      BY <2>1, OctetsAreNats
    <2>3. FieldOctets(n, v) = Cat(v, One(0)) /\ FieldLen(n, v) = Len(v) + 1
      BY <1>1 DEF FieldOctets, FieldLen, Cat, One, CStrings, Optionals
    <2> QED
      BY <2>2, <2>3, Constants, CatLen, Zenon
  <1>2. CASE n = "short_message"
    <2>1. v \in Seq(Octets)
      BY <1>2 DEF FieldValues, CStrings, Optionals
    <2>2. v \in Seq(Nat) /\ Len(v) \in Nat
      BY <2>1, OctetsAreNats
    <2>3. FieldOctets(n, v) = Cat(One(Len(v) % U8Mod), v) /\ FieldLen(n, v) = 1 + Len(v)
      BY <1>2 DEF FieldOctets, FieldLen, Cat, One, CStrings, Optionals
    <2>4. One(Len(v) % U8Mod) \in Seq(Nat) /\ Len(One(Len(v) % U8Mod)) = 1
      BY <2>2, Moduli, OneIs
    <2> QED
      BY <2>2, <2>3, <2>4, CatLen, Zenon
  <1>3. CASE n = "dest_addresses"
    <2>1. v \in Seq(Destinations)
      BY <1>3 DEF FieldValues, CStrings, Optionals
    <2>2. Len(v) \in Nat
      BY <2>1
    <2>3. FieldOctets(n, v) = Cat(One(Len(v) % U8Mod), FlattenSeq(Map(DestOctets, v)))
      BY <1>3 DEF FieldOctets, Cat, One, CStrings, Optionals
    <2>4. One(Len(v) % U8Mod) \in Seq(Nat) /\ Len(One(Len(v) % U8Mod)) = 1
      BY <2>2, Moduli, OneIs
    <2>5. FlattenSeq(Map(DestOctets, v)) \in Seq(Nat)
          /\ Len(FlattenSeq(Map(DestOctets, v))) = TotalOf(DestLen, v)
      BY <2>1, DestinationsLen, Zenon
    <2>6. FieldLen(n, v) = 1 + TotalOf(DestLen, v)
      BY <1>3 DEF FieldLen, CStrings, Optionals
    <2> QED
      BY <2>3, <2>4, <2>5, <2>6, CatLen, Zenon
  <1>4. CASE n = "unsuccess_sme"
    <2>1. v \in Seq(Unsuccessful)
      BY <1>4 DEF FieldValues, CStrings, Optionals
    <2>2. Len(v) \in Nat
      BY <2>1
    <2>3. FieldOctets(n, v) = Cat(One(Len(v) % U8Mod), FlattenSeq(Map(UnsuccessOctets, v)))
      BY <1>4 DEF FieldOctets, Cat, One, CStrings, Optionals
    <2>4. One(Len(v) % U8Mod) \in Seq(Nat) /\ Len(One(Len(v) % U8Mod)) = 1
      BY <2>2, Moduli, OneIs
    <2>5. FlattenSeq(Map(UnsuccessOctets, v)) \in Seq(Nat)
          /\ Len(FlattenSeq(Map(UnsuccessOctets, v))) = TotalOf(UnsuccessLen, v)
      BY <2>1, UnsuccessfulLen, Zenon
    <2>6. FieldLen(n, v) = 1 + TotalOf(UnsuccessLen, v)
      BY <1>4 DEF FieldLen, CStrings, Optionals
    <2> QED
      BY <2>3, <2>4, <2>5, <2>6, CatLen, Zenon
  <1>5. CASE n = "tlvs"
    <2>1. v \in Seq(Tlvs)
      BY <1>5 DEF FieldValues, CStrings, Optionals
    <2>2. FieldOctets(n, v) = FlattenSeq(Map(TlvEncode, v))
      BY <1>5 DEF FieldOctets, CStrings, Optionals
    <2>3. FieldLen(n, v) = TotalOf(encoded_len, v)
      BY <1>5 DEF FieldLen, CStrings, Optionals
    <2> QED
      BY <2>1, <2>2, <2>3, TlvsLen, Zenon
  <1>6. CASE n \in Optionals
    <2>1. v = <<>> \/ \E o \in Octets : v = <<o>>
      BY <1>6 DEF FieldValues, CStrings, Optionals
    <2>2. CASE v = <<>>
      BY <1>6, <2>2 DEF FieldOctets, FieldLen, OptionalLen, CStrings, Optionals
    <2>3. CASE v # <<>>
      <3> DEFINE t == [tag |-> TagOf(n), value |-> v]
      <3>1. v \in Seq(Octets) /\ Len(v) = 1
        BY <2>1, <2>3
      <3>2. t \in Tlvs /\ t.value = v
        BY <3>1 DEF Tlvs, TagOf, Words
      <3>3. FieldOctets(n, v) = TlvEncode(t) /\ FieldLen(n, v) = 5
        <4>1. FieldLen(n, v) = OptionalLen(v)
          BY <1>6 DEF FieldLen, CStrings, Optionals
        <4>2. OptionalLen(v) = 5
          BY <2>3, Zenon DEF OptionalLen
        <4>3. PICK e : e = TlvEncode(t)
          OBVIOUS
        <4>4. PICK x : x = IF v = <<>> THEN <<>> ELSE TlvEncode(t)
          OBVIOUS
        <4>5. FieldOctets(n, v) = x
          <5> HIDE DEF t
          <5> QED
            BY <1>6, <4>4 DEF FieldOctets, CStrings, Optionals, t
        <4>6. x = e
          BY <2>3, <4>3, <4>4, Zenon
        <4> QED
          BY <4>1, <4>2, <4>3, <4>5, <4>6, Zenon
      <3> HIDE DEF t
      <3>4. TlvEncode(t) \in Seq(Nat) /\ Len(TlvEncode(t)) = encoded_len(t)
        BY <3>2, TlvEncodeLen, Zenon
      <3>5. encoded_len(t) = 5
        <4>1. Len(t.value) = 1
          BY <3>1, <3>2, Zenon
        <4> QED
          BY <4>1 DEF encoded_len
      <3> QED
        BY <3>3, <3>4, <3>5, Zenon
    <2> QED
      BY <2>2, <2>3
  <1>7. CASE /\ n \notin CStrings /\ n \notin Optionals
             /\ n \notin {"short_message", "dest_addresses", "unsuccess_sme", "tlvs"}
    <2>1. v \in Octets
      BY <1>7 DEF FieldValues
    <2>2. FieldOctets(n, v) = One(v) /\ FieldLen(n, v) = 1
      BY <1>7 DEF FieldOctets, FieldLen, One
    <2>3. v \in Nat
      BY <2>1 DEF Octets
    <2> QED
      BY <2>2, <2>3, OneIs, Zenon
  <1> QED
    BY <1>1, <1>2, <1>3, <1>4, <1>5, <1>6, <1>7

\* The fields encode writes have values of their types.
LEMMA ValTyped ==
    ASSUME NEW p, IsPdu(p), NEW i \in 1 .. Len(Written(p.cmd, p.ok))
    PROVE  /\ Written(p.cmd, p.ok)[i] \in Names
           /\ Val(p, Written(p.cmd, p.ok)[i]) \in FieldValues(Written(p.cmd, p.ok)[i])
  <1>1. PICK w : w = Written(p.cmd, p.ok)
    OBVIOUS
  <1>2. p.cmd \in Commands /\ p.ok \in BOOLEAN
    BY DEF IsPdu
  <1>3. w \in Seq(Names)
    BY <1>1, <1>2, WrittenEnds DEF Ends
  <1>4. w[i] \in Names /\ i \in DOMAIN w
    BY <1>1, <1>3
  <1>5. w[i] \in ToSet(w)
    BY <1>4 DEF ToSet
  <1>6. CASE w[i] \in DOMAIN p.f
    BY <1>1, <1>4, <1>6 DEF IsPdu, Val
  <1>7. CASE w[i] \notin DOMAIN p.f
    <2>1. w[i] \in CStrings
      BY <1>1, <1>5, <1>7 DEF IsPdu
    <2>2. FieldValues(w[i]) = Seq(Octets)
      BY <2>1 DEF FieldValues, CStrings, Optionals
    <2>3. Val(p, w[i]) = <<>>
      BY <1>7 DEF Val
    <2> QED
      BY <1>1, <1>4, <2>2, <2>3
  <1> QED
    BY <1>6, <1>7

\* The parts of a body.
Parts(p) == Map(LAMBDA n : FieldOctets(n, Val(p, n)), Written(p.cmd, p.ok))

\* The header of a PDU whose encoder does not misreport says how long it is.
LEMMA BodyLen ==
    ASSUME NEW p, IsPdu(p)
    PROVE  /\ Parts(p) \in Seq(Seq(Nat)) /\ Len(Parts(p)) = Len(Written(p.cmd, p.ok))
           /\ \A i \in 1 .. Len(Parts(p)) :
                Parts(p)[i] = FieldOctets(Written(p.cmd, p.ok)[i], Val(p, Written(p.cmd, p.ok)[i]))
           /\ BodyOctets(p) = FlattenSeq(Parts(p)) /\ BodyOctets(p) \in Seq(Nat)
           /\ ~Misreported(p) => CommandLength(p) = 16 + Len(BodyOctets(p))
  <1>1. PICK w : w = Written(p.cmd, p.ok)
    OBVIOUS
  <1>2. p.cmd \in Commands /\ p.ok \in BOOLEAN
    BY DEF IsPdu
  <1>3. w \in Seq(Names)
    BY <1>1, <1>2, WrittenEnds DEF Ends
  <1>4. PICK n \in Nat : n = Len(w)
    BY <1>3
  <1>5. \A i \in 1 .. n : w[i] \in Names /\ Val(p, w[i]) \in FieldValues(w[i])
    BY <1>1, <1>4, ValTyped, Zenon
  <1>6. \A i \in 1 .. n : /\ FieldOctets(w[i], Val(p, w[i])) \in Seq(Nat)
                          /\ Len(FieldOctets(w[i], Val(p, w[i]))) = FieldLen(w[i], Val(p, w[i]))
    BY <1>5, FieldOctetsLen, Zenon
  <1>7. PICK ss : ss = [i \in 1 .. n |-> FieldOctets(w[i], Val(p, w[i]))]
    OBVIOUS
  <1>8. PICK ns : ns = [i \in 1 .. n |-> FieldLen(w[i], Val(p, w[i]))]
    OBVIOUS
  <1>9. Parts(p) = ss /\ BodyOctets(p) = FlattenSeq(ss)
    BY <1>1, <1>4, <1>7, Zenon DEF Parts, Map, BodyOctets
  <1>10. ss \in Seq(Seq(Nat)) /\ Len(ss) = n /\ \A i \in 1 .. n : ss[i] = FieldOctets(w[i], Val(p, w[i]))
    BY <1>6, <1>7
  <1>11. \A i \in 1 .. n : FieldLen(w[i], Val(p, w[i])) \in Nat
    BY <1>6
  <1>12. ns \in Seq(Nat) /\ Len(ns) = n /\ \A i \in 1 .. n : ns[i] = FieldLen(w[i], Val(p, w[i]))
    BY <1>8, <1>11
  <1>13. Len(ns) = Len(ss) /\ \A i \in 1 .. Len(ss) : ns[i] = Len(ss[i])
    BY <1>6, <1>10, <1>12
  <1>14. FlattenSeq(ss) \in Seq(Nat) /\ Len(FlattenSeq(ss)) = Sum(ns)
    BY <1>10, <1>12, <1>13, FlattenLen, Zenon
  <1>15. ASSUME ~Misreported(p) PROVE CommandLength(p) = 16 + Sum(ns)
    <2>1. Counted(p.cmd, p.ok) = w
      BY <1>1, <1>2, <1>15, SameLists
    <2> QED
      BY <1>4, <1>8, <2>1, Zenon DEF CommandLength, TotalOf, Map
  <1> QED
    BY <1>1, <1>4, <1>9, <1>10, <1>14, <1>15, Zenon

-----------------------------------------------------------------------------
(* The header *)

\* The first 16 octets of a frame are the header of p, with this length.
HasHeader(b, p, length) ==
    /\ b \in Seq(Nat) /\ 16 <= Len(b)
    /\ b[1] = O1(length) /\ b[2] = O2(length) /\ b[3] = O3(length) /\ b[4] = O4(length)
    /\ b[5] = CommandId[p.cmd][1] /\ b[6] = 0
    /\ b[7] = CommandId[p.cmd][2] \div 256 /\ b[8] = CommandId[p.cmd][2] % 256
    /\ b[9] = 0 /\ b[10] = 0 /\ b[11] = 0 /\ b[12] = (IF p.ok THEN 0 ELSE 8)
    /\ b[13] = O1(p.seq) /\ b[14] = O2(p.seq) /\ b[15] = O3(p.seq) /\ b[16] = O4(p.seq)

LEMMA CommandIds ==
    ASSUME NEW c \in Commands
    PROVE  CommandId[c][1] \in Nat /\ CommandId[c][2] \in Nat
  BY DEF Commands, CommandId

LEMMA CommandIdsDiffer ==
    ASSUME NEW c \in Commands, NEW d \in Commands,
           CommandId[c][1] = CommandId[d][1], CommandId[c][2] = CommandId[d][2]
    PROVE  c = d
  BY DEF Commands, CommandId

LEMMA Joined ==
    ASSUME NEW s \in Seq(Nat), NEW t \in Seq(Nat), Len(t) = 4
    PROVE  /\ Cat(s, t) \in Seq(Nat) /\ Len(Cat(s, t)) = Len(s) + 4
           /\ \A i \in 1 .. Len(s) : Cat(s, t)[i] = s[i]
           /\ Cat(s, t)[Len(s) + 1] = t[1] /\ Cat(s, t)[Len(s) + 2] = t[2]
           /\ Cat(s, t)[Len(s) + 3] = t[3] /\ Cat(s, t)[Len(s) + 4] = t[4]
  <1>1. /\ Cat(s, t) \in Seq(Nat) /\ Len(Cat(s, t)) = Len(s) + Len(t)
        /\ \A i \in 1 .. Len(s) : Cat(s, t)[i] = s[i]
        /\ \A i \in 1 .. Len(t) : Cat(s, t)[Len(s) + i] = t[i]
    BY CatIs, Zenon
  <1>2. \A i \in 1 .. 4 : Cat(s, t)[Len(s) + i] = t[i]
    BY <1>1, Zenon
  <1>3. 1 \in 1 .. 4 /\ 2 \in 1 .. 4 /\ 3 \in 1 .. 4 /\ 4 \in 1 .. 4
    OBVIOUS
  <1> QED
    BY <1>1, <1>2, <1>3, Zenon

LEMMA HeaderIs ==
    ASSUME NEW p, IsPdu(p), NEW length \in Nat, NEW x \in Seq(Nat)
    PROVE  /\ HeaderOctets(p, length) \in Seq(Nat) /\ Len(HeaderOctets(p, length)) = 16
           /\ HeaderOctets(p, length) \o x \in Seq(Nat)
           /\ Len(HeaderOctets(p, length) \o x) = 16 + Len(x)
           /\ HeaderOctets(p, length) \o x = Cat(HeaderOctets(p, length), x)
           /\ HasHeader(HeaderOctets(p, length) \o x, p, length)
  <1>1. p.cmd \in Commands /\ p.ok \in BOOLEAN /\ p.seq \in Nat
    BY DEF IsPdu, Longs
  <1>2. PICK id1, id2 \in Nat : id1 = CommandId[p.cmd][1] /\ id2 = CommandId[p.cmd][2]
    BY <1>1, CommandIds
  <1>3. PICK status \in Nat : status = (IF p.ok THEN 0 ELSE 8)
    OBVIOUS
  <1>4. PICK A : A = to_be_bytes(length)
    OBVIOUS
  <1>41. /\ A \in Seq(Nat) /\ Len(A) = 4
         /\ A[1] = O1(length) /\ A[2] = O2(length) /\ A[3] = O3(length) /\ A[4] = O4(length)
    BY <1>4, ToBytes, ZenonT(40)
  <1>5. PICK B : B = <<id1, 0, id2 \div 256, id2 % 256>>
    OBVIOUS
  <1>51. /\ B \in Seq(Nat) /\ Len(B) = 4
         /\ B[1] = id1 /\ B[2] = 0 /\ B[3] = id2 \div 256 /\ B[4] = id2 % 256
    <2>1. PICK u, v \in Nat : u = id2 \div 256 /\ v = id2 % 256
      BY HighLow, ZenonT(40)
    <2>2. B = <<id1, 0, u, v>>
      BY <1>5, <2>1, Zenon
    <2> QED
      BY <2>1, <2>2
  <1>6. PICK C : C = to_be_bytes(status)
    OBVIOUS
  <1>61. /\ C \in Seq(Nat) /\ Len(C) = 4
         /\ C[1] = 0 /\ C[2] = 0 /\ C[3] = 0 /\ C[4] = status
    <2>1. O1(status) = 0 /\ O2(status) = 0 /\ O3(status) = 0 /\ O4(status) = status
      <3>1. status \in 0 .. 255
        BY <1>3
      <3> QED
        BY <3>1, SmallOctets, Zenon
    <2> QED
      BY <1>6, <2>1, ToBytes, ZenonT(40)
  <1>7. PICK D : D = to_be_bytes(p.seq)
    OBVIOUS
  <1>71. /\ D \in Seq(Nat) /\ Len(D) = 4
         /\ D[1] = O1(p.seq) /\ D[2] = O2(p.seq) /\ D[3] = O3(p.seq) /\ D[4] = O4(p.seq)
    BY <1>1, <1>7, ToBytes, ZenonT(40)
  <1>8. HeaderOctets(p, length) = Cat(Cat(Cat(A, B), C), D)
    BY <1>2, <1>3, <1>4, <1>5, <1>6, <1>7, ZenonT(40) DEF HeaderOctets, Cat
  <1>9. PICK AB : AB = Cat(A, B)
    OBVIOUS
  <1>91. /\ AB \in Seq(Nat) /\ Len(AB) = 8
         /\ \A i \in 1 .. 4 : AB[i] = A[i]
         /\ AB[5] = B[1] /\ AB[6] = B[2] /\ AB[7] = B[3] /\ AB[8] = B[4]
    <2>1. /\ Cat(A, B) \in Seq(Nat) /\ Len(Cat(A, B)) = Len(A) + 4
          /\ \A i \in 1 .. Len(A) : Cat(A, B)[i] = A[i]
          /\ Cat(A, B)[Len(A) + 1] = B[1] /\ Cat(A, B)[Len(A) + 2] = B[2]
          /\ Cat(A, B)[Len(A) + 3] = B[3] /\ Cat(A, B)[Len(A) + 4] = B[4]
      BY <1>41, <1>51, Joined, ZenonT(40)
    <2>2. /\ AB \in Seq(Nat) /\ Len(AB) = 4 + 4
          /\ \A i \in 1 .. 4 : AB[i] = A[i]
          /\ AB[4 + 1] = B[1] /\ AB[4 + 2] = B[2]
          /\ AB[4 + 3] = B[3] /\ AB[4 + 4] = B[4]
      BY <1>41, <1>51, <1>9, <2>1, ZenonT(40)
    <2> QED
      BY <2>2
  <1>10. PICK ABC : ABC = Cat(AB, C)
    OBVIOUS
  <1>101. /\ ABC \in Seq(Nat) /\ Len(ABC) = 12
          /\ \A i \in 1 .. 8 : ABC[i] = AB[i]
          /\ ABC[9] = C[1] /\ ABC[10] = C[2] /\ ABC[11] = C[3] /\ ABC[12] = C[4]
    <2>1. /\ Cat(AB, C) \in Seq(Nat) /\ Len(Cat(AB, C)) = Len(AB) + 4
          /\ \A i \in 1 .. Len(AB) : Cat(AB, C)[i] = AB[i]
          /\ Cat(AB, C)[Len(AB) + 1] = C[1] /\ Cat(AB, C)[Len(AB) + 2] = C[2]
          /\ Cat(AB, C)[Len(AB) + 3] = C[3] /\ Cat(AB, C)[Len(AB) + 4] = C[4]
      BY <1>61, <1>91, Joined, Zenon
    <2>2. /\ ABC \in Seq(Nat) /\ Len(ABC) = 8 + 4
          /\ \A i \in 1 .. 8 : ABC[i] = AB[i]
          /\ ABC[8 + 1] = C[1] /\ ABC[8 + 2] = C[2]
          /\ ABC[8 + 3] = C[3] /\ ABC[8 + 4] = C[4]
      BY <1>61, <1>91, <1>10, <2>1, Zenon
    <2> QED
      BY <2>2
  <1>11. PICK h : h = Cat(ABC, D)
    OBVIOUS
  <1>111. /\ h \in Seq(Nat) /\ Len(h) = 16
          /\ \A i \in 1 .. 12 : h[i] = ABC[i]
          /\ h[13] = D[1] /\ h[14] = D[2] /\ h[15] = D[3] /\ h[16] = D[4]
    <2>1. /\ Cat(ABC, D) \in Seq(Nat) /\ Len(Cat(ABC, D)) = Len(ABC) + 4
          /\ \A i \in 1 .. Len(ABC) : Cat(ABC, D)[i] = ABC[i]
          /\ Cat(ABC, D)[Len(ABC) + 1] = D[1] /\ Cat(ABC, D)[Len(ABC) + 2] = D[2]
          /\ Cat(ABC, D)[Len(ABC) + 3] = D[3] /\ Cat(ABC, D)[Len(ABC) + 4] = D[4]
      BY <1>71, <1>101, Joined, ZenonT(40)
    <2>2. /\ h \in Seq(Nat) /\ Len(h) = 12 + 4
          /\ \A i \in 1 .. 12 : h[i] = ABC[i]
          /\ h[12 + 1] = D[1] /\ h[12 + 2] = D[2]
          /\ h[12 + 3] = D[3] /\ h[12 + 4] = D[4]
      BY <1>71, <1>101, <1>11, <2>1, Zenon
    <2> QED
      BY <2>2
  <1>12. HeaderOctets(p, length) = h
    BY <1>8, <1>9, <1>10, <1>11, Zenon
  <1>13. PICK b : b = Cat(h, x)
    OBVIOUS
  <1>131. b \in Seq(Nat) /\ Len(b) = 16 + Len(x) /\ \A i \in 1 .. 16 : b[i] = h[i]
    <2>1. /\ Cat(h, x) \in Seq(Nat) /\ Len(Cat(h, x)) = Len(h) + Len(x)
          /\ \A i \in 1 .. Len(h) : Cat(h, x)[i] = h[i]
      BY <1>111, CatIs, Zenon
    <2> QED
      BY <1>111, <1>13, <2>1, Zenon
  <1>14. HeaderOctets(p, length) \o x = b
    BY <1>12, <1>13, Zenon DEF Cat
  <1>15. h[1] = O1(length) /\ h[2] = O2(length) /\ h[3] = O3(length) /\ h[4] = O4(length)
    BY <1>41, <1>91, <1>101, <1>111
  <1>16. h[5] = id1 /\ h[6] = 0 /\ h[7] = id2 \div 256 /\ h[8] = id2 % 256
    BY <1>51, <1>91, <1>101, <1>111
  <1>17. h[9] = 0 /\ h[10] = 0 /\ h[11] = 0 /\ h[12] = status
    BY <1>61, <1>101, <1>111
  <1>18. h[13] = O1(p.seq) /\ h[14] = O2(p.seq) /\ h[15] = O3(p.seq) /\ h[16] = O4(p.seq)
    BY <1>71, <1>111
  <1>181. /\ b[1] = h[1] /\ b[2] = h[2] /\ b[3] = h[3] /\ b[4] = h[4]
          /\ b[5] = h[5] /\ b[6] = h[6] /\ b[7] = h[7] /\ b[8] = h[8]
          /\ b[9] = h[9] /\ b[10] = h[10] /\ b[11] = h[11] /\ b[12] = h[12]
          /\ b[13] = h[13] /\ b[14] = h[14] /\ b[15] = h[15] /\ b[16] = h[16]
          /\ 16 <= Len(b)
    BY <1>131
  <1>19. HasHeader(b, p, length)
    BY <1>2, <1>3, <1>131, <1>15, <1>16, <1>17, <1>18, <1>181, ZenonT(40) DEF HasHeader
  <1> QED
    BY <1>111, <1>12, <1>13, <1>131, <1>14, <1>19, Zenon

\* The fields decode reads, one after the other.
Fields(names, body) == InTurn(ParseField, names, body)

\* What decode makes of the body of a frame with this header.
Made(cmd, ok, seq, body) ==
    LET names  == BodyFields(cmd, ok, body)
        parsed == Fields(names, body)
        fine   == parsed.ok /\ (cmd \in StrictlyHeader => body = <<>>)
    IN  [cmd |-> cmd, ok |-> ok, seq |-> seq, fine |-> fine,
         f |-> IF ~fine THEN <<>>
               ELSE [n \in ToSet(names) |->
                       parsed.val[SelectInSeq(names, LAMBDA m : m = n)]]]

\* The commands that the header of a frame may stand for.
CommandsOf(b) ==
    {c \in Commands : /\ b[5] = CommandId[c][1]
                      /\ be_u16(SubSeq(b, 7, 8)) = CommandId[c][2]
                      /\ b[6] = 0}

LEMMA DecodeBy ==
    ASSUME NEW b, NEW c, c = CHOOSE d \in CommandsOf(b) : TRUE, CommandsOf(b) # {},
           NEW ok, ok = (SubSeq(b, 9, 12) = to_be_bytes(0)),
           NEW seq, seq = be_u32(SubSeq(b, 13, 16))
    PROVE  Decode(b) = Made(c, ok, seq, Skip(b, DecodeFrom(c) - 1))
  BY Zenon DEF Decode, Made, CommandsOf, Fields

LEMMA WordAt ==
    ASSUME NEW b \in Seq(Nat), NEW i \in 1 .. Len(b), NEW j \in 1 .. Len(b), j = i + 1,
           NEW n \in Nat, b[i] = n \div 256, b[j] = n % 256
    PROVE  be_u16(SubSeq(b, i, j)) = n
  <1>1. SubSeq(b, i, j)[1] = b[i] /\ SubSeq(b, i, j)[2] = b[j]
    OBVIOUS
  <1>2. be_u16(SubSeq(b, i, j)) = (n \div 256) * 256 + (n % 256)
    BY <1>1, Zenon DEF be_u16
  <1> QED
    BY <1>2, HighLow

LEMMA LongAt ==
    ASSUME NEW b \in Seq(Nat), NEW i \in 1 .. Len(b), NEW j \in 1 .. Len(b),
           NEW k \in 1 .. Len(b), NEW l \in 1 .. Len(b), j = i + 1, k = i + 2, l = i + 3,
           NEW n \in Nat, b[i] = O1(n), b[j] = O2(n), b[k] = O3(n), b[l] = O4(n)
    PROVE  be_u32(SubSeq(b, i, l)) = n
  <1>1. /\ SubSeq(b, i, l)[1] = b[i] /\ SubSeq(b, i, l)[2] = b[j]
        /\ SubSeq(b, i, l)[3] = b[k] /\ SubSeq(b, i, l)[4] = b[l]
    OBVIOUS
  <1>2. be_u32(SubSeq(b, i, l)) = ((O1(n) * 256 + O2(n)) * 256 + O3(n)) * 256 + O4(n)
    BY <1>1, ZenonT(90) DEF be_u32
  <1> QED
    BY <1>2, FourOctets

\* decode finds the command, the status and the sequence_number of the header.
LEMMA DecodeIs ==
    ASSUME NEW p, IsPdu(p), NEW length, NEW b, HasHeader(b, p, length)
    PROVE  Decode(b) = Made(p.cmd, p.ok, p.seq, Skip(b, DecodeFrom(p.cmd) - 1))
  <1>1. p.cmd \in Commands /\ p.ok \in BOOLEAN /\ p.seq \in Nat
    BY DEF IsPdu, Longs
  <1>2. b \in Seq(Nat) /\ 16 <= Len(b)
    BY DEF HasHeader
  <1>3. be_u16(SubSeq(b, 7, 8)) = CommandId[p.cmd][2]
    <2>1. PICK n \in Nat : n = CommandId[p.cmd][2]
      BY <1>1, CommandIds
    <2>2. b[7] = n \div 256 /\ b[8] = n % 256
      BY <2>1 DEF HasHeader
    <2>3. 7 \in 1 .. Len(b) /\ 8 \in 1 .. Len(b) /\ 8 = 7 + 1
      BY <1>2
    <2>4. be_u16(SubSeq(b, 7, 8)) = n
      BY <1>2, <2>2, <2>3, WordAt
    <2> QED
      BY <2>1, <2>4, Zenon
  <1>4. be_u32(SubSeq(b, 13, 16)) = p.seq
    <2>1. PICK n \in Nat : n = p.seq
      BY <1>1
    <2>2. b[13] = O1(n) /\ b[14] = O2(n) /\ b[15] = O3(n) /\ b[16] = O4(n)
      BY <2>1, Zenon DEF HasHeader
    <2>3. /\ 13 \in 1 .. Len(b) /\ 14 \in 1 .. Len(b) /\ 15 \in 1 .. Len(b)
          /\ 16 \in 1 .. Len(b) /\ 14 = 13 + 1 /\ 15 = 13 + 2 /\ 16 = 13 + 3
      BY <1>2
    <2>4. be_u32(SubSeq(b, 13, 16)) = n
      BY <1>2, <2>2, <2>3, LongAt, ZenonT(90)
    <2> QED
      BY <2>1, <2>4, Zenon
  <1>5. CommandsOf(b) = {p.cmd}
    <2>1. p.cmd \in CommandsOf(b)
      BY <1>1, <1>3 DEF CommandsOf, HasHeader
    <2>2. ASSUME NEW c \in CommandsOf(b) PROVE c = p.cmd
      <3>1. c \in Commands /\ b[5] = CommandId[c][1] /\ be_u16(SubSeq(b, 7, 8)) = CommandId[c][2]
        BY DEF CommandsOf
      <3>2. CommandId[c][1] = CommandId[p.cmd][1] /\ CommandId[c][2] = CommandId[p.cmd][2]
        BY <1>3, <3>1 DEF HasHeader
      <3> QED
        BY <1>1, <3>1, <3>2, CommandIdsDiffer, Zenon
    <2> QED
      BY <2>1, <2>2, Zenon
  <1>6. p.cmd = CHOOSE d \in CommandsOf(b) : TRUE
    BY <1>5
  <1>7. p.ok = (SubSeq(b, 9, 12) = to_be_bytes(0))
    <2>1. PICK s : s = SubSeq(b, 9, 12)
      OBVIOUS
    <2>2. s \in Seq(Nat) /\ Len(s) = 4 /\ s[1] = b[9] /\ s[2] = b[10] /\ s[3] = b[11] /\ s[4] = b[12]
      <3>1. \A i \in 9 .. 12 : b[i] \in Nat
        BY <1>2
      <3>2. /\ SubSeq(b, 9, 12) \in Seq(Nat)
            /\ Len(SubSeq(b, 9, 12)) = IF 9 <= 12 THEN 12 - 9 + 1 ELSE 0
            /\ \A i \in 1 .. 12 - 9 + 1 : SubSeq(b, 9, 12)[i] = b[9 + i - 1]
        BY <3>1, SubSeqProperties
      <3> QED
        BY <2>1, <3>2
    <2>3. s[1] = 0 /\ s[2] = 0 /\ s[3] = 0 /\ s[4] = (IF p.ok THEN 0 ELSE 8)
      BY <2>2, ZenonT(40) DEF HasHeader
    <2>4. O1(0) = 0 /\ O2(0) = 0 /\ O3(0) = 0 /\ O4(0) = 0 /\ 0 \in Nat
      BY SmallOctets
    <2>5. PICK z : z = to_be_bytes(0)
      OBVIOUS
    <2>6. z \in Seq(Nat) /\ Len(z) = 4 /\ z[1] = 0 /\ z[2] = 0 /\ z[3] = 0 /\ z[4] = 0
      BY <2>4, <2>5, ToBytes, ZenonT(40)
    <2>7. CASE p.ok
      <3>1. \A i \in 1 .. 4 : s[i] = z[i]
        BY <2>3, <2>6, <2>7
      <3>2. s = z
        BY <2>2, <2>6, <3>1, SeqEqual
      <3> QED
        BY <1>1, <2>1, <2>5, <2>7, <3>2, Zenon
    <2>8. CASE ~p.ok
      <3>1. s[4] = 8
        BY <2>3, <2>8
      <3>2. s # z
        BY <2>6, <3>1
      <3> QED
        BY <1>1, <2>1, <2>5, <2>8, <3>2, Zenon
    <2> QED
      BY <1>1, <2>7, <2>8
  <1>8. CommandsOf(b) # {}
    BY <1>5
  <1> QED
    BY <1>4, <1>6, <1>7, <1>8, DecodeBy, Zenon

\* The read loop finds the length that the header says.
LEMMA ClaimedIs ==
    ASSUME NEW p, NEW length \in Nat, length <= MaxPduLen, NEW b, HasHeader(b, p, length),
           NEW x \in Seq(Nat), wire = Cat(b, x)
    PROVE  Claimed = length
  <1>1. b \in Seq(Nat) /\ 16 <= Len(b)
    BY DEF HasHeader
  <1>2. /\ Cat(b, x) \in Seq(Nat) /\ Len(Cat(b, x)) = Len(b) + Len(x)
        /\ \A i \in 1 .. Len(b) : Cat(b, x)[i] = b[i]
    BY <1>1, CatIs, Zenon
  <1>3. wire \in Seq(Nat) /\ 16 <= Len(wire)
    BY <1>1, <1>2
  <1>4. wire[1] = b[1] /\ wire[2] = b[2] /\ wire[3] = b[3] /\ wire[4] = b[4]
    BY <1>1, <1>2, SMTT(40)
  <1>5. /\ wire[1] = O1(length) /\ wire[2] = O2(length)
        /\ wire[3] = O3(length) /\ wire[4] = O4(length)
    BY <1>4, Zenon DEF HasHeader
  <1>6. ~(wire[1] > 127)
    <2>1. length \div 65536 < 32768
      BY CodecAssumption
    <2>2. ~(O1(length) > 127)
      BY <2>1, TopOctet, SMT
    <2> QED
      BY <1>5, <2>2, Zenon
  <1>9. be_u32(SubSeq(wire, 1, 4)) = length
    <2>1. PICK w \in Seq(Nat) : w = wire
      BY <1>3
    <2>2. /\ 1 \in 1 .. Len(w) /\ 2 \in 1 .. Len(w) /\ 3 \in 1 .. Len(w)
          /\ 4 \in 1 .. Len(w) /\ 2 = 1 + 1 /\ 3 = 1 + 2 /\ 4 = 1 + 3
      BY <1>3, <2>1
    <2>3. w[1] = O1(length) /\ w[2] = O2(length) /\ w[3] = O3(length) /\ w[4] = O4(length)
      BY <1>5, <2>1, Zenon
    <2>4. be_u32(SubSeq(w, 1, 4)) = length
      BY <2>2, <2>3, LongAt, ZenonT(90)
    <2> QED
      BY <2>1, <2>4, Zenon
  <1> QED
    BY <1>6, <1>9, Zenon DEF Claimed

-----------------------------------------------------------------------------
(* Frames *)

\* The bodies of two PDUs that differ in the last part only.
LEMMA LastPart ==
    ASSUME NEW ss \in Seq(Seq(Nat)), NEW tt \in Seq(Seq(Nat)), NEW n \in Nat, n > 0,
           Len(ss) = n, Len(tt) = n, \A i \in 1 .. n - 1 : ss[i] = tt[i]
    PROVE  \E pre \in Seq(Nat) : /\ FlattenSeq(ss) = Cat(pre, ss[n])
                                 /\ FlattenSeq(tt) = Cat(pre, tt[n])
  <1>1. PICK g : Growth(ss, n, g)
    BY GrowthExists, Zenon
  <1>2. /\ \A i \in 0 .. n : g[i] \in Seq(Nat)
        /\ g[0] = <<>> /\ \A i \in 1 .. n : g[i] = Cat(g[i - 1], ss[i])
    BY <1>1 DEF Growth
  <1>3. n - 1 \in 0 .. n /\ n \in 1 .. n /\ tt[n] \in Seq(Nat)
    OBVIOUS
  <1>4. PICK pre \in Seq(Nat) : pre = g[n - 1]
    BY <1>2, <1>3
  <1>5. g[n] = Cat(pre, ss[n])
    BY <1>2, <1>3, <1>4
  <1>6. Cat(pre, tt[n]) \in Seq(Nat)
    BY <1>3, CatLen, Zenon
  <1> DEFINE h == [i \in 0 .. n |-> IF i = n THEN Cat(pre, tt[n]) ELSE g[i]]
  <1>7. h \in [0 .. n -> Seq(Nat)]
    BY <1>2, <1>6
  <1>8. h[0] = <<>> /\ h[n] = Cat(pre, tt[n])
    BY <1>2
  <1>9. ASSUME NEW i \in 1 .. n PROVE h[i] = Cat(h[i - 1], tt[i])
    <2>1. i - 1 \in 0 .. n /\ i - 1 # n /\ i \in 0 .. n
      OBVIOUS
    <2>2. h[i - 1] = g[i - 1]
      BY <2>1
    <2>3. CASE i = n
      BY <1>4, <1>8, <2>2, <2>3
    <2>4. CASE i # n
      <3>1. h[i] = g[i] /\ ss[i] = tt[i]
        BY <2>1, <2>4
      <3> QED
        BY <1>2, <2>2, <3>1
    <2> QED
      BY <2>3, <2>4
  <1> HIDE DEF h
  <1>10. Growth(tt, n, h)
    BY <1>7, <1>8, <1>9 DEF Growth
  <1>11. FlattenSeq(ss) = g[n] /\ FlattenSeq(tt) = h[n]
    BY <1>1, <1>10, FlattenIs, Zenon
  <1> QED
    BY <1>5, <1>8, <1>11

\* The body smpp34 up to 1.2.1 gives an alert_notification.
OldBody(p) ==
    BodyOctets([p EXCEPT !.f["ms_availability_status"] = <<>>])
      \o p.f["ms_availability_status"]

\* ms_availability_status is the last field of an alert_notification.
LEMMA AlertLast ==
    ASSUME NEW ok \in BOOLEAN
    PROVE  LET w == Written("alert_notification", ok) IN
           \E n \in Nat : /\ n > 0 /\ Len(w) = n /\ w[n] = "ms_availability_status"
                          /\ \A i \in 1 .. n - 1 : w[i] \in Plain
  <1>1. PICK w : w = Written("alert_notification", ok)
    OBVIOUS
  <1>2. w = alert_notification_encode
    BY <1>1 DEF Written, Resps, Binds, BindResps, HeaderOnly
  <1>3. PICK s : s = Src \o EsmeAddr
    OBVIOUS
  <1>4. w = s \o <<"ms_availability_status">>
    BY <1>2, <1>3, Zenon DEF alert_notification_encode
  <1>5. Src \in Seq(Plain) /\ EsmeAddr \in Seq(Plain)
    BY DEF Src, EsmeAddr, Plain, CStrings
  <1>6. s \in Seq(Plain)
    BY <1>3, <1>5, ConcatProperties, Zenon
  <1>7. s \in Seq(Names)
    BY <1>6, SeqMonotonic DEF Names
  <1>8. PICK t : t = <<"ms_availability_status">>
    OBVIOUS
  <1>9. t \in Seq(Names) /\ Len(t) = 1 /\ t[1] = "ms_availability_status"
    BY <1>8 DEF Names, LastOnly, Optionals
  <1>10. /\ s \o t \in Seq(Names) /\ Len(s \o t) = Len(s) + Len(t)
         /\ \A i \in 1 .. Len(s) + Len(t) : (s \o t)[i] = IF i <= Len(s) THEN s[i] ELSE t[i - Len(s)]
    BY <1>7, <1>9, ConcatProperties, Zenon
  <1>11. PICK m \in Nat : m = Len(s)
    BY <1>6
  <1>12. /\ Len(w) = m + 1
         /\ \A i \in 1 .. m + 1 : w[i] = IF i <= m THEN s[i] ELSE t[i - m]
    BY <1>4, <1>8, <1>9, <1>10, <1>11, Zenon
  <1>13. w[m + 1] = "ms_availability_status"
    BY <1>9, <1>12
  <1>14. \A i \in 1 .. m : s[i] \in Plain
    BY <1>6, <1>11
  <1>15. \A i \in 1 .. (m + 1) - 1 : w[i] \in Plain
    BY <1>12, <1>14
  <1> QED
    BY <1>1, <1>12, <1>13, <1>15

\* The same alert_notification without ms_availability_status.
LEMMA BareAlert ==
    ASSUME NEW p, IsPdu(p), p.cmd = "alert_notification",
           NEW q, q = [p EXCEPT !.f["ms_availability_status"] = <<>>]
    PROVE  /\ IsPdu(q) /\ q.cmd = p.cmd /\ q.ok = p.ok
           /\ "ms_availability_status" \in DOMAIN p.f
           /\ Val(q, "ms_availability_status") = <<>>
           /\ \A n : n # "ms_availability_status" => Val(q, n) = Val(p, n)
  <1>1. PICK w : w = Written(p.cmd, p.ok)
    OBVIOUS
  <1>2. PICK names : names = ToSet(w)
    OBVIOUS
  <1>3. /\ p = [cmd |-> p.cmd, ok |-> p.ok, seq |-> p.seq, f |-> p.f]
        /\ p.cmd \in Commands /\ p.ok \in BOOLEAN /\ p.seq \in Longs
        /\ p.f = [n \in DOMAIN p.f |-> p.f[n]]
        /\ DOMAIN p.f \subseteq names /\ names \ DOMAIN p.f \subseteq CStrings
        /\ \A n \in DOMAIN p.f : p.f[n] \in FieldValues(n)
    BY <1>1, <1>2, Zenon DEF IsPdu
  <1>4. w \in Seq(Names)
    BY <1>1, <1>3, WrittenEnds DEF Ends
  <1>5. "ms_availability_status" \in names
    <2>1. PICK n \in Nat : n > 0 /\ Len(w) = n /\ w[n] = "ms_availability_status"
      BY <1>1, <1>3, AlertLast
    <2>2. n \in DOMAIN w
      BY <1>4, <2>1
    <2> QED
      BY <1>2, <2>1, <2>2 DEF ToSet
  <1>6. "ms_availability_status" \in DOMAIN p.f
    BY <1>3, <1>5 DEF CStrings
  <1>7. PICK f : f = [p.f EXCEPT !["ms_availability_status"] = <<>>]
    OBVIOUS
  <1>8. /\ f = [n \in DOMAIN f |-> f[n]] /\ DOMAIN f = DOMAIN p.f
        /\ f["ms_availability_status"] = <<>>
        /\ \A n \in DOMAIN p.f : n # "ms_availability_status" => f[n] = p.f[n]
    BY <1>6, <1>7
  <1>9. q = [cmd |-> p.cmd, ok |-> p.ok, seq |-> p.seq, f |-> f]
    BY <1>3, <1>7
  <1>10. q.cmd = p.cmd /\ q.ok = p.ok /\ q.seq = p.seq /\ q.f = f
    BY <1>9
  <1>11. \A n \in DOMAIN f : f[n] \in FieldValues(n)
    <2>1. <<>> \in FieldValues("ms_availability_status")
      BY DEF FieldValues, CStrings, Optionals
    <2> QED
      BY <1>3, <1>8, <2>1
  <1>12. IsPdu(q)
    <2>1. q = [cmd |-> q.cmd, ok |-> q.ok, seq |-> q.seq, f |-> q.f]
      BY <1>9, <1>10
    <2>2. names = ToSet(Written(q.cmd, q.ok))
      BY <1>1, <1>2, <1>10, Zenon
    <2> QED
      <3>1. q.cmd \in Commands /\ q.ok \in BOOLEAN /\ q.seq \in Longs
        BY <1>3, <1>10, Zenon
      <3>2. q.f = [n \in DOMAIN q.f |-> q.f[n]]
        BY <1>8, <1>10
      <3>3. DOMAIN q.f \subseteq names /\ names \ DOMAIN q.f \subseteq CStrings
        BY <1>3, <1>8, <1>10, Zenon
      <3>4. \A n \in DOMAIN q.f : q.f[n] \in FieldValues(n)
        BY <1>10, <1>11, Zenon
      <3> QED
        BY <2>1, <2>2, <3>1, <3>2, <3>3, <3>4, Zenon DEF IsPdu
  <1>13. Val(q, "ms_availability_status") = <<>>
    BY <1>6, <1>8, <1>10, Zenon DEF Val
  <1>14. \A n : n # "ms_availability_status" => Val(q, n) = Val(p, n)
    BY <1>8, <1>10, Zenon DEF Val
  <1> QED
    BY <1>6, <1>10, <1>12, <1>13, <1>14, Zenon

\* The body of an alert_notification, up to ms_availability_status.
LEMMA AlertBodies ==
    ASSUME NEW p, IsPdu(p), p.cmd = "alert_notification",
           NEW v, v = p.f["ms_availability_status"]
    PROVE  /\ v = Val(p, "ms_availability_status") /\ v \in Seq(Nat)
           /\ v \in FieldValues("ms_availability_status")
           /\ v = <<>> \/ Len(v) = 1
           /\ \E pre \in Seq(Nat) :
                /\ BodyOctets(p) = Cat(pre, FieldOctets("ms_availability_status", v))
                /\ OldBody(p) = Cat(pre, v)
  <1>1. PICK q : q = [p EXCEPT !.f["ms_availability_status"] = <<>>]
    OBVIOUS
  <1>2. /\ IsPdu(q) /\ q.cmd = p.cmd /\ q.ok = p.ok
        /\ "ms_availability_status" \in DOMAIN p.f
        /\ Val(q, "ms_availability_status") = <<>>
        /\ \A n : n # "ms_availability_status" => Val(q, n) = Val(p, n)
    BY <1>1, BareAlert
  <1>3. v = Val(p, "ms_availability_status")
    BY <1>2, Zenon DEF Val
  <1>4. v \in FieldValues("ms_availability_status")
    BY <1>2 DEF IsPdu
  <1>5. v = <<>> \/ \E o \in Octets : v = <<o>>
    BY <1>4 DEF FieldValues, CStrings, Optionals
  <1>6. v \in Seq(Nat) /\ (v = <<>> \/ Len(v) = 1)
    <2>1. CASE v = <<>>
      BY <2>1, EmptySeq
    <2>2. ASSUME NEW o \in Octets, v = <<o>> PROVE v \in Seq(Nat) /\ Len(v) = 1
      <3>1. o \in Nat
        BY DEF Octets
      <3> QED
        BY <2>2, <3>1
    <2> QED
      BY <1>5, <2>1, <2>2, Zenon
  <1>7. PICK w : w = Written(p.cmd, p.ok)
    OBVIOUS
  <1>8. p.ok \in BOOLEAN
    BY DEF IsPdu
  <1>9. PICK n \in Nat : /\ n > 0 /\ Len(w) = n /\ w[n] = "ms_availability_status"
                         /\ \A i \in 1 .. n - 1 : w[i] \in Plain
    BY <1>7, <1>8, AlertLast
  <1>10. Written(q.cmd, q.ok) = w
    BY <1>2, <1>7, Zenon
  <1>11. /\ Parts(p) \in Seq(Seq(Nat)) /\ Len(Parts(p)) = n
         /\ \A i \in 1 .. n : Parts(p)[i] = FieldOctets(w[i], Val(p, w[i]))
         /\ BodyOctets(p) = FlattenSeq(Parts(p))
    BY <1>7, <1>9, BodyLen
  <1>12. /\ Parts(q) \in Seq(Seq(Nat)) /\ Len(Parts(q)) = n
         /\ \A i \in 1 .. n : Parts(q)[i] = FieldOctets(w[i], Val(q, w[i]))
         /\ BodyOctets(q) = FlattenSeq(Parts(q))
    BY <1>2, <1>9, <1>10, BodyLen
  <1>13. \A i \in 1 .. n - 1 : Parts(p)[i] = Parts(q)[i]
    <2>1. "ms_availability_status" \notin Plain
      BY DEF Plain, CStrings
    <2> SUFFICES ASSUME NEW i \in 1 .. n - 1 PROVE Parts(p)[i] = Parts(q)[i]
      OBVIOUS
    <2>2. i \in 1 .. n /\ w[i] # "ms_availability_status"
      BY <1>9, <2>1
    <2>3. Val(q, w[i]) = Val(p, w[i])
      BY <1>2, <2>2
    <2> QED
      BY <1>11, <1>12, <2>2, <2>3
  <1>14. PICK pre \in Seq(Nat) : /\ FlattenSeq(Parts(p)) = Cat(pre, Parts(p)[n])
                                 /\ FlattenSeq(Parts(q)) = Cat(pre, Parts(q)[n])
    BY <1>9, <1>11, <1>12, <1>13, LastPart
  <1>15. n \in 1 .. n
    BY <1>9
  <1>16. BodyOctets(p) = Cat(pre, FieldOctets("ms_availability_status", v))
    BY <1>3, <1>9, <1>11, <1>14, <1>15
  <1>17. Parts(q)[n] = <<>>
    <2>1. Parts(q)[n] = FieldOctets("ms_availability_status", <<>>)
      BY <1>2, <1>9, <1>12, <1>15
    <2>2. FieldOctets("ms_availability_status", <<>>) = <<>>
      BY DEF FieldOctets, CStrings, Optionals
    <2> QED
      BY <2>1, <2>2
  <1>18. BodyOctets(q) = pre
    BY <1>12, <1>14, <1>17, CatEmpty
  <1>19. OldBody(p) = Cat(pre, v)
    BY <1>1, <1>18, Zenon DEF OldBody, Cat
  <1> QED
    BY <1>3, <1>4, <1>6, <1>16, <1>19

LEMMA SumIsNat ==
    ASSUME NEW ns \in Seq(Nat)
    PROVE  Sum(ns) \in Nat
  <1>1. PICK n \in Nat : n = Len(ns)
    OBVIOUS
  <1>2. \A i \in 1 .. n : ns[i] \in Nat
    BY <1>1
  <1>3. \A k \in Nat : [j \in 1 .. k |-> 0] \in Seq(Nat) /\ Len([j \in 1 .. k |-> 0]) = k
    OBVIOUS
  <1>4. PICK ss : ss = [i \in 1 .. n |-> [j \in 1 .. ns[i] |-> 0]]
    OBVIOUS
  <1>5. \A i \in 1 .. n : ss[i] \in Seq(Nat) /\ ns[i] = Len(ss[i])
    BY <1>2, <1>3, <1>4
  <1>6. ss \in Seq(Seq(Nat)) /\ Len(ss) = n
    BY <1>2, <1>3, <1>4
  <1>7. Len(ns) = Len(ss) /\ \A i \in 1 .. Len(ss) : ns[i] = Len(ss[i])
    BY <1>1, <1>5, <1>6
  <1>8. FlattenSeq(ss) \in Seq(Nat) /\ Len(FlattenSeq(ss)) = Sum(ns)
    BY <1>6, <1>7, FlattenLen, Zenon
  <1> QED
    BY <1>8

\* command_length is a number also where the encoder misreports.
LEMMA LengthIsNat ==
    ASSUME NEW p, IsPdu(p)
    PROVE  CommandLength(p) \in Nat
  <1>1. p.cmd \in Commands /\ p.ok \in BOOLEAN
    BY DEF IsPdu
  <1>2. CASE ~Misreported(p)
    <2>1. CommandLength(p) = 16 + Len(BodyOctets(p)) /\ BodyOctets(p) \in Seq(Nat)
      BY <1>2, BodyLen
    <2> QED
      BY <2>1
  <1>3. CASE Misreported(p)
    <2> DEFINE Short == Plain \ {"short_message", "dest_addresses", "unsuccess_sme"}
    <2>1. PICK w : w = Counted(p.cmd, p.ok)
      OBVIOUS
    <2>2. w \in Seq(Short)
      <3>1. CASE p.cmd = "cancel_sm"
        <4>1. w = cancel_sm_new
          BY <2>1, <3>1 DEF Counted, Resps, Binds, BindResps, HeaderOnly
        <4>2. <<"service_type">> \in Seq(Short) /\ Src \in Seq(Short) /\ Dst \in Seq(Short)
          BY DEF Src, Dst, Plain, CStrings
        <4>3. \A s, t \in Seq(Short) : s \o t \in Seq(Short)
          BY ConcatProperties, Zenon
        <4> HIDE DEF Short
        <4> QED
          BY <4>1, <4>2, <4>3, Zenon DEF cancel_sm_new
      <3>2. CASE p.cmd = "deliver_sm_resp" /\ ~p.ok
        <4>1. w = <<>>
          BY <2>1, <3>2 DEF Counted, Resps, Binds, BindResps, HeaderOnly
        <4> QED
          BY <4>1
      <3> QED
        BY <1>3, <3>1, <3>2 DEF Misreported
    <2>3. \A n \in Short : FieldLen(n, Val(p, n)) \in Nat
      <3> SUFFICES ASSUME NEW n \in Short PROVE FieldLen(n, Val(p, n)) \in Nat
        OBVIOUS
      <3>1. CASE n \in DOMAIN p.f
        <4>1. n \in Names /\ Val(p, n) \in FieldValues(n)
          BY <3>1 DEF Names, Val, IsPdu
        <4>2. FieldOctets(n, Val(p, n)) \in Seq(Nat)
              /\ Len(FieldOctets(n, Val(p, n))) = FieldLen(n, Val(p, n))
          BY <4>1, FieldOctetsLen, Zenon
        <4>3. PICK s \in Seq(Nat) : s = FieldOctets(n, Val(p, n))
          BY <4>2
        <4>4. Len(s) \in Nat
          OBVIOUS
        <4> QED
          BY <4>2, <4>3, <4>4
      <3>2. CASE n \notin DOMAIN p.f
        <4>1. Val(p, n) = <<>>
          BY <3>2 DEF Val
        <4>2. FieldLen(n, <<>>) = 1
          BY DEF FieldLen, Plain, CStrings, Optionals
        <4> QED
          BY <4>1, <4>2
      <3> QED
        BY <3>1, <3>2
    <2> HIDE DEF Short
    <2>4. PICK n \in Nat : n = Len(w)
      BY <2>2
    <2>5. \A i \in 1 .. n : w[i] \in Short
      BY <2>2, <2>4
    <2>6. PICK ns : ns = [i \in 1 .. n |-> FieldLen(w[i], Val(p, w[i]))]
      OBVIOUS
    <2>7. \A i \in 1 .. n : FieldLen(w[i], Val(p, w[i])) \in Nat
      BY <2>3, <2>5
    <2>8. ns \in Seq(Nat)
      BY <2>6, <2>7
    <2>9. CommandLength(p) = 16 + Sum(ns)
      BY <2>1, <2>4, <2>6, Zenon DEF CommandLength, TotalOf, Map
    <2>10. Sum(ns) \in Nat
      BY <2>8, SumIsNat
    <2> QED
      BY <2>9, <2>10
  <1> QED
    BY <1>2, <1>3

\* What a sender may have put on the wire for an entry of sent.
Entries == [pdu : Pdus, cut : Nat]
FrameOf(e, b) ==
    \/ e.cut = 0 /\ ~NewPanics(e.pdu) /\ b = Encode(e.pdu)
    \/ /\ e.cut > 0 /\ e.cut <= Len(BodyOctets(e.pdu)) /\ ~NewPanics(e.pdu)
       /\ b = HeaderOctets(e.pdu, 16 + Len(BodyOctets(e.pdu)) - e.cut) \o Chop(BodyOctets(e.pdu), e.cut)
    \/ /\ e.cut = 0 /\ e.pdu.cmd = "alert_notification"
       /\ b = HeaderOctets(e.pdu, 16 + Len(OldBody(e.pdu))) \o OldBody(e.pdu)

\* An entry of the length its header says, and not too long for the receiver.
TrueEntry(e) ==
    /\ e.cut = 0 => ~Misreported(e.pdu)
    /\ 16 + Len(BodyOctets(e.pdu)) <= MaxPduLen

LEMMA FrameIs ==
    ASSUME NEW e \in Entries, NEW b, FrameOf(e, b)
    PROVE  /\ b \in Seq(Nat) /\ 16 <= Len(b)
           /\ \E length : HasHeader(b, e.pdu, length)
           /\ TrueEntry(e) => HasHeader(b, e.pdu, Len(b)) /\ Len(b) \in Nat /\ Len(b) <= MaxPduLen
  <1>1. PICK p : p = e.pdu
    OBVIOUS
  <1>2. IsPdu(p) /\ e.cut \in Nat
    BY <1>1, PdusAssumption DEF Entries
  <1>3. PICK body \in Seq(Nat) : body = BodyOctets(p)
    BY <1>2, BodyLen
  <1>4. ~Misreported(p) => CommandLength(p) = 16 + Len(body)
    BY <1>2, <1>3, BodyLen
  <1>5. PICK m \in Nat : m = Len(body)
    BY <1>3
  <1>6. MaxPduLen \in Nat
    BY CodecAssumption
  <1>7. ASSUME NEW length \in Nat, NEW x \in Seq(Nat), b = HeaderOctets(p, length) \o x,
               TrueEntry(e) => length = 16 + Len(x), Len(x) <= m
        PROVE  /\ b \in Seq(Nat) /\ 16 <= Len(b)
               /\ \E l : HasHeader(b, e.pdu, l)
               /\ TrueEntry(e) => HasHeader(b, e.pdu, Len(b)) /\ Len(b) \in Nat /\ Len(b) <= MaxPduLen
    <2>1. b \in Seq(Nat) /\ Len(b) = 16 + Len(x) /\ HasHeader(b, p, length)
      BY <1>2, <1>7, HeaderIs, Zenon
    <2>2. Len(x) \in Nat
      OBVIOUS
    <2>3. 16 <= Len(b) /\ Len(b) \in Nat
      BY <2>1, <2>2
    <2>4. ASSUME TrueEntry(e) PROVE HasHeader(b, e.pdu, Len(b)) /\ Len(b) <= MaxPduLen
      <3>1. length = Len(b)
        BY <1>7, <2>1, <2>4
      <3>2. 16 + m <= MaxPduLen
        BY <1>1, <1>3, <1>5, <2>4 DEF TrueEntry
      <3>3. Len(b) <= MaxPduLen
        BY <1>5, <1>6, <1>7, <2>1, <2>2, <3>2
      <3> QED
        BY <1>1, <2>1, <3>1, <3>3, Zenon
    <2> QED
      BY <1>1, <2>1, <2>3, <2>4, Zenon
  <1>8. CASE e.cut = 0 /\ b = Encode(p)
    <2>1. CommandLength(p) \in Nat
      BY <1>2, LengthIsNat
    <2>2. b = HeaderOctets(p, CommandLength(p)) \o body
      BY <1>3, <1>8, Zenon DEF Encode
    <2>3. TrueEntry(e) => CommandLength(p) = 16 + Len(body)
      BY <1>1, <1>4, <1>8 DEF TrueEntry
    <2>4. Len(body) <= m
      BY <1>5
    <2> QED
      BY <1>7, <2>1, <2>2, <2>3, <2>4
  <1>9. CASE /\ e.cut > 0 /\ e.cut <= Len(body)
             /\ b = HeaderOctets(p, 16 + Len(body) - e.cut) \o Chop(body, e.cut)
    <2>1. e.cut \in 0 .. Len(body)
      BY <1>2, <1>5, <1>9
    <2>2. Chop(body, e.cut) \in Seq(Nat) /\ Len(Chop(body, e.cut)) = Len(body) - e.cut
      BY <2>1, ChopIs
    <2>3. /\ 16 + Len(body) - e.cut \in Nat
          /\ 16 + Len(body) - e.cut = 16 + Len(Chop(body, e.cut))
          /\ Len(Chop(body, e.cut)) <= m
      BY <1>5, <2>1, <2>2
    <2> QED
      BY <1>7, <1>9, <2>2, <2>3
  <1>10. CASE /\ e.cut = 0 /\ p.cmd = "alert_notification"
              /\ b = HeaderOctets(p, 16 + Len(OldBody(p))) \o OldBody(p)
    <2>1. PICK v : v = p.f["ms_availability_status"]
      OBVIOUS
    <2>2. /\ v = Val(p, "ms_availability_status") /\ v \in Seq(Nat) /\ (v = <<>> \/ Len(v) = 1)
          /\ v \in FieldValues("ms_availability_status")
          /\ \E pre \in Seq(Nat) :
                /\ BodyOctets(p) = Cat(pre, FieldOctets("ms_availability_status", v))
                /\ OldBody(p) = Cat(pre, v)
      BY <1>2, <1>10, <2>1, AlertBodies
    <2>3. PICK pre \in Seq(Nat) : /\ BodyOctets(p) = Cat(pre, FieldOctets("ms_availability_status", v))
                                  /\ OldBody(p) = Cat(pre, v)
      BY <2>2
    <2>5. PICK fo : fo = FieldOctets("ms_availability_status", v)
      OBVIOUS
    <2>6. fo \in Seq(Nat) /\ Len(fo) = (IF v = <<>> THEN 0 ELSE 5)
      <3>1. "ms_availability_status" \in Names
        BY DEF Names, LastOnly, Optionals
      <3>2. FieldOctets("ms_availability_status", v) \in Seq(Nat)
            /\ Len(FieldOctets("ms_availability_status", v)) = FieldLen("ms_availability_status", v)
        BY <2>2, <3>1, FieldOctetsLen, Zenon
      <3>3. FieldLen("ms_availability_status", v) = OptionalLen(v)
        BY DEF FieldLen, CStrings, Optionals
      <3> QED
        BY <2>5, <3>2, <3>3, Zenon DEF OptionalLen
    <2>7. OldBody(p) \in Seq(Nat) /\ Len(OldBody(p)) = Len(pre) + Len(v)
      BY <2>2, <2>3, CatLen, Zenon
    <2>8. Len(body) = Len(pre) + Len(fo)
      BY <1>3, <2>3, <2>5, <2>6, CatLen, ZenonT(40)
    <2>9. Len(v) <= Len(fo)
      <3>1. CASE v = <<>>
        BY <2>6, <3>1, EmptySeq
      <3>2. CASE v # <<>>
        <4>1. Len(v) = 1
          BY <2>2, <3>2, Zenon
        <4>2. Len(fo) = 5
          BY <2>6, <3>2, Zenon
        <4> QED
          BY <4>1, <4>2
      <3> QED
        BY <3>1, <3>2
    <2>10. Len(pre) \in Nat /\ Len(v) \in Nat /\ Len(fo) \in Nat
      BY <2>2, <2>6
    <2>11. 16 + Len(OldBody(p)) \in Nat /\ Len(OldBody(p)) <= m
      BY <1>5, <2>7, <2>8, <2>9, <2>10
    <2> QED
      BY <1>7, <1>10, <2>7, <2>11
  <1> QED
    BY <1>1, <1>3, <1>8, <1>9, <1>10, Zenon DEF FrameOf

-----------------------------------------------------------------------------
(* Sender and receiver *)

\* The first i entries are of the length their headers say.
AllTrue(sn, i) == \A j \in 1 .. i : TrueEntry(sn[j])

Results == {Decode(b) : b \in Seq(Nat)}

\* fr are the frames of what was sent, and R[i] is what follows the i-th.  As
\* long as the headers are true, the receiver is at the start of a frame; once
\* it has read past the last frame, or closed, some header was not.
Aligned(sn, gt, w, op, fr, R) ==
    /\ fr \in Seq(Seq(Nat)) /\ Len(fr) = Len(sn) /\ Tails(fr, R)
    /\ \A i \in 1 .. Len(sn) : FrameOf(sn[i], fr[i])
    /\ Len(gt) <= Len(sn) /\ AllTrue(sn, Len(gt)) => w = R[Len(gt)]
    /\ \A i \in 1 .. Len(gt) : i <= Len(sn) /\ AllTrue(sn, i) => gt[i] = Decode(fr[i])
    /\ Len(gt) > Len(sn) => ~AllTrue(sn, Len(sn))
    /\ ~op => \E j \in 1 .. Len(sn) : j <= Len(gt) + 1 /\ ~AllTrue(sn, j)

CodecInv ==
    /\ script \in Seq(Pdus) /\ wire \in Seq(Nat) /\ open \in BOOLEAN
    /\ sent \in Seq(Entries) /\ got \in Seq(Results)
    /\ \E fr, R : Aligned(sent, got, wire, open, fr, R)

LEMMA AllTrueDown ==
    ASSUME NEW sn, NEW i \in Nat, NEW j \in Nat, j <= i, AllTrue(sn, i)
    PROVE  AllTrue(sn, j)
  BY DEF AllTrue

\* The same entries, and one more.
LEMMA AllTrueAppend ==
    ASSUME NEW sn \in Seq(Entries), NEW e \in Entries, NEW i \in Nat, i <= Len(sn)
    PROVE  AllTrue(Append(sn, e), i) <=> AllTrue(sn, i)
  <1>1. \A j \in 1 .. i : Append(sn, e)[j] = sn[j]
    OBVIOUS
  <1> QED
    BY <1>1 DEF AllTrue

LEMMA TailsAppend ==
    ASSUME NEW fr \in Seq(Seq(Nat)), NEW R, Tails(fr, R), NEW o \in Seq(Nat)
    PROVE  LET n == Len(fr)
               Q == [i \in 0 .. n + 1 |-> IF i = n + 1 THEN <<>> ELSE Cat(R[i], o)]
           IN  Tails(Append(fr, o), Q)
  <1>1. PICK n \in Nat : n = Len(fr)
    OBVIOUS
  <1> DEFINE Q == [i \in 0 .. n + 1 |-> IF i = n + 1 THEN <<>> ELSE Cat(R[i], o)]
  <1>2. \A i \in 0 .. n : R[i] \in Seq(Nat)
    BY <1>1 DEF Tails
  <1>3. R[n] = <<>> /\ \A i \in 1 .. n : R[i - 1] = Cat(fr[i], R[i]) /\ fr[i] \in Seq(Nat)
    BY <1>1 DEF Tails
  <1>4. \A i \in 0 .. n : Cat(R[i], o) \in Seq(Nat)
    BY <1>2, CatLen, Zenon
  <1>5. <<>> \in Seq(Nat)
    BY EmptySeq
  <1>6. Q \in [0 .. n + 1 -> Seq(Nat)] /\ Q[n + 1] = <<>> /\ \A i \in 0 .. n : Q[i] = Cat(R[i], o)
    BY <1>4, <1>5
  <1> HIDE DEF Q
  <1>7. PICK ff \in Seq(Seq(Nat)) : ff = Append(fr, o)
    <2>1. Append(fr, o) \in Seq(Seq(Nat))
      BY AppendProperties
    <2> QED
      BY <2>1
  <1>8. Len(ff) = n + 1 /\ ff[n + 1] = o /\ \A i \in 1 .. n : ff[i] = fr[i]
    BY <1>1, <1>7
  <1>9. ASSUME NEW i \in 1 .. n + 1 PROVE Q[i - 1] = Cat(ff[i], Q[i])
    <2>1. CASE i = n + 1
      <3>1. Q[i - 1] = Cat(R[n], o) /\ ff[i] = o /\ Q[i] = <<>>
        BY <1>6, <1>8, <2>1
      <3>2. Cat(<<>>, o) = o /\ Cat(o, <<>>) = o
        BY CatEmpty, Zenon
      <3> QED
        BY <1>3, <3>1, <3>2
    <2>2. CASE i # n + 1
      <3>1. i \in 1 .. n /\ i - 1 \in 0 .. n /\ i \in 0 .. n
        BY <2>2
      <3>2. Q[i - 1] = Cat(Cat(fr[i], R[i]), o) /\ Q[i] = Cat(R[i], o) /\ ff[i] = fr[i]
        BY <1>3, <1>6, <1>8, <3>1
      <3>3. fr[i] \in Seq(Nat) /\ R[i] \in Seq(Nat)
        BY <1>2, <1>3, <3>1
      <3>4. Cat(Cat(fr[i], R[i]), o) = Cat(fr[i], Cat(R[i], o))
        BY <3>3, CatAssoc, Zenon
      <3> QED
        BY <3>2, <3>4
    <2> QED
      BY <2>1, <2>2
  <1>10. Tails(ff, Q)
    BY <1>6, <1>8, <1>9 DEF Tails
  <1> QED
    BY <1>1, <1>7, <1>10 DEF Q

\* The sender writes a frame.
LEMMA AlignedPut ==
    ASSUME NEW sn \in Seq(Entries), NEW gt \in Seq(Results), NEW w, NEW op, NEW fr, NEW R,
           Aligned(sn, gt, w, op, fr, R), NEW e \in Entries, NEW o \in Seq(Nat), FrameOf(e, o)
    PROVE  \E ff, Q : Aligned(Append(sn, e), gt, Cat(w, o), op, ff, Q)
  <1>1. PICK n \in Nat : n = Len(sn)
    OBVIOUS
  <1>2. PICK g \in Nat : g = Len(gt)
    OBVIOUS
  <1>3. /\ fr \in Seq(Seq(Nat)) /\ Len(fr) = n /\ Tails(fr, R)
        /\ \A i \in 1 .. n : FrameOf(sn[i], fr[i])
        /\ g <= n /\ AllTrue(sn, g) => w = R[g]
        /\ \A i \in 1 .. g : i <= n /\ AllTrue(sn, i) => gt[i] = Decode(fr[i])
        /\ g > n => ~AllTrue(sn, n)
        /\ ~op => \E j \in 1 .. n : j <= g + 1 /\ ~AllTrue(sn, j)
    BY <1>1, <1>2 DEF Aligned
  <1>4. PICK Q : Q = [i \in 0 .. n + 1 |-> IF i = n + 1 THEN <<>> ELSE Cat(R[i], o)]
    OBVIOUS
  <1>5. PICK ff : ff = Append(fr, o)
    OBVIOUS
  <1>6. Tails(ff, Q)
    BY <1>3, <1>4, <1>5, TailsAppend
  <1>7. /\ ff \in Seq(Seq(Nat)) /\ Len(ff) = n + 1 /\ ff[n + 1] = o
        /\ \A i \in 1 .. n : ff[i] = fr[i]
    BY <1>3, <1>5
  <1>8. PICK ns : ns = Append(sn, e)
    OBVIOUS
  <1>9. Len(ns) = n + 1 /\ ns[n + 1] = e /\ \A i \in 1 .. n : ns[i] = sn[i]
    BY <1>1, <1>8
  <1>10. \A i \in Nat : i <= n => (AllTrue(ns, i) <=> AllTrue(sn, i))
    BY <1>1, <1>8, AllTrueAppend
  <1>11. AllTrue(ns, n + 1) => AllTrue(sn, n)
    <2>1. AllTrue(ns, n + 1) => AllTrue(ns, n)
      BY AllTrueDown
    <2> QED
      BY <1>10, <2>1
  <1>12. \A i \in 1 .. n + 1 : FrameOf(ns[i], ff[i])
    <2> SUFFICES ASSUME NEW i \in 1 .. n + 1 PROVE FrameOf(ns[i], ff[i])
      OBVIOUS
    <2>1. CASE i = n + 1
      BY <1>7, <1>9, <2>1, Zenon
    <2>2. CASE i # n + 1
      <3>1. i \in 1 .. n
        BY <2>2
      <3> QED
        BY <1>3, <1>7, <1>9, <3>1, Zenon
    <2> QED
      BY <2>1, <2>2
  <1>13. ASSUME g <= n + 1, AllTrue(ns, g) PROVE Cat(w, o) = Q[g]
    <2>1. g <= n
      <3> SUFFICES ASSUME g = n + 1 PROVE FALSE
        BY <1>13
      <3>1. AllTrue(sn, n)
        BY <1>11, <1>13
      <3>2. g > n
        OBVIOUS
      <3> QED
        BY <1>3, <3>1, <3>2
    <2>2. w = R[g]
      BY <1>3, <1>10, <1>13, <2>1
    <2>3. g \in 0 .. n + 1 /\ g # n + 1
      BY <2>1
    <2>4. Q[g] = Cat(R[g], o)
      BY <1>4, <2>3
    <2> QED
      BY <2>2, <2>4
  <1>14. ASSUME NEW i \in 1 .. g, i <= n + 1, AllTrue(ns, i) PROVE gt[i] = Decode(ff[i])
    <2>1. CASE i <= n
      <3>1. AllTrue(sn, i) /\ i \in 1 .. n
        BY <1>10, <1>14, <2>1
      <3> QED
        BY <1>3, <1>7, <2>1, <3>1
    <2>2. CASE ~(i <= n)
      <3>1. i = n + 1 /\ g > n
        BY <1>14, <2>2
      <3> QED
        BY <1>3, <1>11, <1>14, <3>1
    <2> QED
      BY <2>1, <2>2
  <1>15. ASSUME g > n + 1 PROVE ~AllTrue(ns, n + 1)
    <2>1. g > n
      BY <1>15
    <2> QED
      BY <1>3, <1>11, <2>1
  <1>16. ASSUME ~op PROVE \E j \in 1 .. n + 1 : j <= g + 1 /\ ~AllTrue(ns, j)
    <2>1. PICK j \in 1 .. n : j <= g + 1 /\ ~AllTrue(sn, j)
      BY <1>3, <1>16
    <2>2. j \in 1 .. n + 1 /\ ~AllTrue(ns, j)
      BY <1>10, <2>1
    <2> QED
      BY <2>1, <2>2
  <1>17. Aligned(ns, gt, Cat(w, o), op, ff, Q)
    BY <1>2, <1>6, <1>7, <1>9, <1>12, <1>13, <1>14, <1>15, <1>16, Zenon DEF Aligned
  <1> QED
    BY <1>8, <1>17
\* What the receiver finds while every header it has read was true.
LEMMA NextFrame ==
    ASSUME sent \in Seq(Entries), got \in Seq(Results), NEW fr, NEW R,
           Aligned(sent, got, wire, open, fr, R),
           Len(got) <= Len(sent), AllTrue(sent, Len(got))
    PROVE  /\ Len(got) = Len(sent) => wire = <<>>
           /\ Len(got) < Len(sent) =>
                /\ fr[Len(got) + 1] \in Seq(Nat) /\ R[Len(got) + 1] \in Seq(Nat)
                /\ wire = Cat(fr[Len(got) + 1], R[Len(got) + 1])
                /\ TrueEntry(sent[Len(got) + 1]) =>
                     /\ Claimed = Len(fr[Len(got) + 1])
                     /\ Claimed \in 16 .. MaxPduLen /\ Claimed <= Len(wire) /\ Len(wire) >= 16
  <1>1. PICK n \in Nat : n = Len(sent)
    OBVIOUS
  <1>2. PICK g \in Nat : g = Len(got) /\ g <= n
    BY <1>1
  <1>3. /\ fr \in Seq(Seq(Nat)) /\ Len(fr) = n /\ Tails(fr, R)
        /\ \A i \in 1 .. n : FrameOf(sent[i], fr[i])
        /\ wire = R[g]
    BY <1>1, <1>2 DEF Aligned
  <1>4. /\ \A i \in 0 .. n : R[i] \in Seq(Nat)
        /\ R[n] = <<>> /\ \A i \in 1 .. n : R[i - 1] = Cat(fr[i], R[i]) /\ fr[i] \in Seq(Nat)
    <2>1. \A i \in 1 .. n : fr[i] \in Seq(Nat)
      BY <1>3
    <2>2. R \in [0 .. n -> Seq(Nat)] /\ R[n] = <<>> /\ \A i \in 1 .. n : R[i - 1] = Cat(fr[i], R[i])
      BY <1>3, Zenon DEF Tails
    <2> QED
      BY <2>1, <2>2, Zenon
  <1>5. ASSUME g < n
        PROVE  /\ fr[g + 1] \in Seq(Nat) /\ R[g + 1] \in Seq(Nat)
               /\ wire = Cat(fr[g + 1], R[g + 1])
               /\ TrueEntry(sent[g + 1]) =>
                    /\ Claimed = Len(fr[g + 1])
                    /\ Claimed \in 16 .. MaxPduLen /\ Claimed <= Len(wire) /\ Len(wire) >= 16
    <2>1. PICK k \in 1 .. n : k = g + 1 /\ k - 1 = g /\ k \in 0 .. n
      BY <1>5
    <2>2. fr[k] \in Seq(Nat) /\ R[k] \in Seq(Nat) /\ wire = Cat(fr[k], R[k])
      BY <1>3, <1>4, <2>1
    <2>3. sent[k] \in Entries /\ FrameOf(sent[k], fr[k])
      BY <1>1, <1>3
    <2>4. ASSUME TrueEntry(sent[k])
          PROVE  /\ Claimed = Len(fr[k])
                 /\ Claimed \in 16 .. MaxPduLen /\ Claimed <= Len(wire) /\ Len(wire) >= 16
      <3>1. HasHeader(fr[k], sent[k].pdu, Len(fr[k])) /\ 16 <= Len(fr[k])
            /\ Len(fr[k]) \in Nat /\ Len(fr[k]) <= MaxPduLen
        BY <2>3, <2>4, FrameIs, Zenon
      <3>2. Claimed = Len(fr[k])
        BY <2>2, <3>1, ClaimedIs, Zenon
      <3>3. Len(wire) = Len(fr[k]) + Len(R[k]) /\ Len(R[k]) \in Nat
        <4>1. Len(Cat(fr[k], R[k])) = Len(fr[k]) + Len(R[k])
          BY <2>2, CatLen, Zenon
        <4> QED
          BY <2>2, <4>1
      <3>4. PICK l, m, c \in Nat : l = Len(fr[k]) /\ m = Len(R[k]) /\ c = Claimed
        BY <3>1, <3>2, <3>3, Zenon
      <3>5. c = l /\ Len(wire) = l + m /\ 16 <= l /\ l <= MaxPduLen
        BY <3>1, <3>2, <3>3, <3>4, Zenon
      <3>6. c \in 16 .. MaxPduLen /\ c <= Len(wire) /\ Len(wire) >= 16
        <4>1. MaxPduLen \in Nat
          BY CodecAssumption
        <4> QED
          BY <3>5, <4>1
      <3> QED
        BY <3>2, <3>4, <3>6, Zenon
    <2> QED
      BY <2>1, <2>2, <2>4
  <1> QED
    BY <1>1, <1>2, <1>3, <1>4, <1>5

\* The receiver takes a frame.
LEMMA AlignedReceive ==
    ASSUME sent \in Seq(Entries), got \in Seq(Results), NEW fr, NEW R,
           Aligned(sent, got, wire, open, fr, R), Len(wire) >= 16,
           NEW r \in Results, r = Decode(SubSeq(wire, 1, Claimed))
    PROVE  Aligned(sent, Append(got, r), Skip(wire, Claimed), open, fr, R)
  <1>1. PICK n \in Nat : n = Len(sent)
    OBVIOUS
  <1>2. PICK g \in Nat : g = Len(got)
    OBVIOUS
  <1>3. /\ fr \in Seq(Seq(Nat)) /\ Len(fr) = n /\ Tails(fr, R)
        /\ \A i \in 1 .. n : FrameOf(sent[i], fr[i])
        /\ g <= n /\ AllTrue(sent, g) => wire = R[g]
        /\ \A i \in 1 .. g : i <= n /\ AllTrue(sent, i) => got[i] = Decode(fr[i])
        /\ g > n => ~AllTrue(sent, n)
        /\ ~open => \E j \in 1 .. n : j <= g + 1 /\ ~AllTrue(sent, j)
    BY <1>1, <1>2 DEF Aligned
  <1>4. PICK gg : gg = Append(got, r)
    OBVIOUS
  <1>5. Len(gg) = g + 1 /\ gg[g + 1] = r /\ \A i \in 1 .. g : gg[i] = got[i]
    BY <1>2, <1>4
  <1>6. ASSUME g + 1 <= n, AllTrue(sent, g + 1)
        PROVE  Skip(wire, Claimed) = R[g + 1] /\ r = Decode(fr[g + 1])
    <2>1. AllTrue(sent, g) /\ g < n
      BY <1>6, AllTrueDown
    <2>2. TrueEntry(sent[g + 1])
      BY <1>6 DEF AllTrue
    <2>3. /\ fr[g + 1] \in Seq(Nat) /\ R[g + 1] \in Seq(Nat)
          /\ wire = Cat(fr[g + 1], R[g + 1]) /\ Claimed = Len(fr[g + 1])
      BY <1>1, <1>2, <2>1, <2>2, NextFrame
    <2>4. /\ SubSeq(Cat(fr[g + 1], R[g + 1]), 1, Len(fr[g + 1])) = fr[g + 1]
          /\ Skip(Cat(fr[g + 1], R[g + 1]), Len(fr[g + 1])) = R[g + 1]
      BY <2>3, CatSplit, Zenon
    <2> QED
      BY <2>3, <2>4, Zenon
  <1>7. ASSUME NEW i \in 1 .. g + 1, i <= n, AllTrue(sent, i) PROVE gg[i] = Decode(fr[i])
    <2>1. CASE i = g + 1
      BY <1>5, <1>6, <1>7, <2>1
    <2>2. CASE i # g + 1
      <3>1. i \in 1 .. g
        BY <2>2
      <3> QED
        BY <1>3, <1>5, <1>7, <3>1
    <2> QED
      BY <2>1, <2>2
  <1>8. ASSUME g + 1 > n PROVE ~AllTrue(sent, n)
    <2>1. CASE g > n
      BY <1>3, <2>1
    <2>2. CASE g = n
      <3> SUFFICES ASSUME AllTrue(sent, n) PROVE FALSE
        OBVIOUS
      <3>1. wire = <<>>
        BY <1>1, <1>2, <2>2, NextFrame
      <3>2. Len(wire) = 0
        BY <3>1, EmptySeq
      <3> QED
        BY <3>2
    <2> QED
      BY <1>8, <2>1, <2>2
  <1>9. ASSUME ~open PROVE \E j \in 1 .. n : j <= (g + 1) + 1 /\ ~AllTrue(sent, j)
    <2>1. PICK j \in 1 .. n : j <= g + 1 /\ ~AllTrue(sent, j)
      BY <1>3, <1>9
    <2>2. j <= (g + 1) + 1
      BY <2>1
    <2> QED
      BY <2>1, <2>2
  <1>10. Aligned(sent, gg, Skip(wire, Claimed), open, fr, R)
    BY <1>1, <1>3, <1>5, <1>6, <1>7, <1>8, <1>9, Zenon DEF Aligned
  <1> QED
    BY <1>4, <1>10, Zenon

\* The receiver gives up.
LEMMA AlignedRefuse ==
    ASSUME sent \in Seq(Entries), got \in Seq(Results), NEW fr, NEW R,
           Aligned(sent, got, wire, open, fr, R), Len(wire) >= 16,
           Claimed \notin 16 .. MaxPduLen
    PROVE  Aligned(sent, got, wire, FALSE, fr, R)
  <1>1. PICK n \in Nat : n = Len(sent)
    OBVIOUS
  <1>2. PICK g \in Nat : g = Len(got)
    OBVIOUS
  <1>3. \E j \in 1 .. n : j <= g + 1 /\ ~AllTrue(sent, j)
    <2>1. CASE g <= n /\ AllTrue(sent, g)
      <3>1. g < n
        <4> SUFFICES ASSUME g = n PROVE FALSE
          BY <2>1
        <4>1. wire = <<>>
          BY <1>1, <1>2, <2>1, NextFrame
        <4>2. Len(wire) = 0
          BY <4>1, EmptySeq
        <4> QED
          BY <4>2
      <3>2. ~TrueEntry(sent[g + 1])
        BY <1>1, <1>2, <2>1, <3>1, NextFrame
      <3>3. g + 1 \in 1 .. n /\ g + 1 \in 1 .. g + 1
        BY <3>1
      <3>4. ~AllTrue(sent, g + 1)
        BY <3>2, <3>3 DEF AllTrue
      <3> QED
        BY <3>3, <3>4
    <2>2. CASE g <= n /\ ~AllTrue(sent, g)
      <3>1. g # 0
        BY <2>2 DEF AllTrue
      <3> QED
        BY <2>2, <3>1
    <2>3. CASE g > n
      <3>1. ~AllTrue(sent, n)
        BY <1>1, <1>2, <2>3 DEF Aligned
      <3>2. n # 0
        BY <3>1 DEF AllTrue
      <3> QED
        BY <2>3, <3>1, <3>2
    <2> QED
      BY <2>1, <2>2, <2>3
  <1> QED
    BY <1>1, <1>2, <1>3, Zenon DEF Aligned

\* Put, whatever the octets, is one step of the sender.
LEMMA PutKeeps ==
    ASSUME CodecInv, NEW p \in Pdus, NEW cut \in Nat, NEW octets \in Seq(Nat),
           Put(p, cut, octets), FrameOf([pdu |-> p, cut |-> cut], octets), script # <<>>
    PROVE  CodecInv'
  <1>1. PICK e : e = [pdu |-> p, cut |-> cut]
    OBVIOUS
  <1>2. e \in Entries /\ FrameOf(e, octets)
    BY <1>1 DEF Entries
  <1>3. PICK fr, R : Aligned(sent, got, wire, open, fr, R)
    BY DEF CodecInv
  <1>4. sent \in Seq(Entries) /\ got \in Seq(Results) /\ wire \in Seq(Nat)
    BY DEF CodecInv
  <1>5. \E ff, Q : Aligned(Append(sent, e), got, Cat(wire, octets), open, ff, Q)
    BY <1>2, <1>3, <1>4, AlignedPut
  <1>6. wire' = Cat(wire, octets) /\ sent' = Append(sent, e) /\ got' = got /\ open' = open
        /\ script' = Tail(script)
    BY <1>1, Zenon DEF Put, Cat
  <1>7. Cat(wire, octets) \in Seq(Nat)
    BY <1>4, CatLen, Zenon
  <1>8. script' \in Seq(Pdus)
    <2>1. script \in Seq(Pdus)
      BY DEF CodecInv
    <2> QED
      BY <1>6, <2>1, HeadTailProperties
  <1>9. sent' \in Seq(Entries)
    BY <1>2, <1>4, <1>6, AppendProperties
  <1>10. open' \in BOOLEAN /\ got' \in Seq(Results)
    BY <1>6 DEF CodecInv
  <1>11. \E ff, Q : Aligned(sent', got', wire', open', ff, Q)
    BY <1>5, <1>6, Zenon
  <1> QED
    BY <1>6, <1>7, <1>8, <1>9, <1>10, <1>11, Zenon DEF CodecInv
LEMMA InitCodec == Init => CodecInv
  <1> SUFFICES ASSUME Init PROVE CodecInv
    OBVIOUS
  <1>1. script \in Seq(Pdus) /\ wire = <<>> /\ sent = <<>> /\ got = <<>> /\ open = TRUE
    BY CodecAssumption DEF Init
  <1>2. <<>> \in Seq(Nat) /\ <<>> \in Seq(Entries) /\ <<>> \in Seq(Results)
        /\ <<>> \in Seq(Seq(Nat)) /\ Len(<<>>) = 0
    BY EmptySeq
  <1> DEFINE R == [i \in 0 .. 0 |-> <<>>]
  <1>3. R \in [0 .. 0 -> Seq(Nat)] /\ R[0] = <<>>
    BY <1>2
  <1> HIDE DEF R
  <1>4. Tails(<<>>, R)
    BY <1>2, <1>3 DEF Tails
  <1>5. Aligned(<<>>, <<>>, <<>>, TRUE, <<>>, R)
    BY <1>2, <1>3, <1>4 DEF Aligned
  <1> QED
    BY <1>1, <1>2, <1>5, Zenon DEF CodecInv

\* Send, SendCut and SendOldAlert put a frame of their PDU on the wire.
LEMMA SendsFrames ==
    ASSUME CodecInv, Send \/ SendCut \/ SendOldAlert
    PROVE  CodecInv'
  <1>1. script \in Seq(Pdus) /\ script # <<>>
    BY DEF CodecInv, Send, SendCut, SendOldAlert
  <1>2. PICK p \in Pdus : p = Head(script)
    BY <1>1
  <1>3. IsPdu(p)
    BY PdusAssumption
  <1>4. PICK body \in Seq(Nat) : body = BodyOctets(p)
    BY <1>3, BodyLen
  <1>5. ASSUME NEW cut \in Nat, NEW o, Put(p, cut, o), FrameOf([pdu |-> p, cut |-> cut], o)
        PROVE  CodecInv'
    <2>1. PICK e \in Entries : e = [pdu |-> p, cut |-> cut]
      BY DEF Entries
    <2>2. FrameOf(e, o)
      BY <1>5, <2>1, Zenon
    <2>3. o \in Seq(Nat)
      BY <2>2, FrameIs, Zenon
    <2> QED
      BY <1>1, <1>5, <2>3, PutKeeps
  <1>6. CASE Send
    <2>1. Put(p, 0, Encode(p)) /\ ~NewPanics(p)
      BY <1>2, <1>6, Zenon DEF Send
    <2>2. PICK e : e = [pdu |-> p, cut |-> 0]
      OBVIOUS
    <2>3. e.pdu = p /\ e.cut = 0
      BY <2>2
    <2>4. FrameOf(e, Encode(p))
      BY <2>1, <2>3, Zenon DEF FrameOf
    <2>5. 0 \in Nat
      OBVIOUS
    <2> QED
      BY <1>5, <2>1, <2>2, <2>4, <2>5, Zenon
  <1>7. CASE SendCut
    <2>1. PICK k \in 1 .. MaxCut :
            /\ ~NewPanics(p) /\ k <= Len(body)
            /\ Put(p, k, HeaderOctets(p, 16 + Len(body) - k) \o SubSeq(body, 1, Len(body) - k))
      BY <1>2, <1>4, <1>7, Zenon DEF SendCut
    <2>2. PICK o : o = HeaderOctets(p, 16 + Len(body) - k) \o Chop(body, k)
      OBVIOUS
    <2>3. Put(p, k, o)
      BY <2>1, <2>2, Zenon DEF Chop
    <2>4. k \in Nat /\ k > 0
      BY CodecAssumption
    <2>5. PICK e : e = [pdu |-> p, cut |-> k]
      OBVIOUS
    <2>6. e.pdu = p /\ e.cut = k
      BY <2>5
    <2>7. FrameOf(e, o)
      BY <1>4, <2>1, <2>2, <2>4, <2>6, Zenon DEF FrameOf
    <2> QED
      BY <1>5, <2>3, <2>4, <2>5, <2>7, Zenon
  <1>8. CASE SendOldAlert
    <2>1. /\ p.cmd = "alert_notification"
          /\ Put(p, 0, HeaderOctets(p, 16 + Len(OldBody(p))) \o OldBody(p))
      BY <1>2, <1>8, Zenon DEF SendOldAlert, OldBody
    <2>2. PICK e : e = [pdu |-> p, cut |-> 0]
      OBVIOUS
    <2>3. e.pdu = p /\ e.cut = 0
      BY <2>2
    <2>4. FrameOf(e, HeaderOctets(p, 16 + Len(OldBody(p))) \o OldBody(p))
      BY <2>1, <2>3, Zenon DEF FrameOf
    <2>5. 0 \in Nat
      OBVIOUS
    <2> QED
      BY <1>5, <2>1, <2>2, <2>4, <2>5, Zenon
  <1> QED
    BY <1>6, <1>7, <1>8

LEMMA NextCodec == CodecInv /\ [Next]_vars => CodecInv'
  <1> SUFFICES ASSUME CodecInv, [Next]_vars PROVE CodecInv'
    OBVIOUS
  <1>0. /\ script \in Seq(Pdus) /\ wire \in Seq(Nat) /\ open \in BOOLEAN
        /\ sent \in Seq(Entries) /\ got \in Seq(Results)
    BY DEF CodecInv
  <1>1. PICK fr, R : Aligned(sent, got, wire, open, fr, R)
    BY DEF CodecInv
  <1>2. CASE Send \/ SendCut \/ SendOldAlert
    BY <1>2, SendsFrames
  <1>3. CASE SendPanics
    <2>1. script' \in Seq(Pdus)
      BY <1>0, <1>3, HeadTailProperties DEF SendPanics
    <2> QED
      BY <1>3, <2>1, Zenon DEF SendPanics, CodecInv
  <1>4. CASE Receive
    <2>1. /\ Len(wire) >= 16 /\ Claimed \in 16 .. MaxPduLen /\ Claimed <= Len(wire)
          /\ got' = Append(got, Decode(SubSeq(wire, 1, Claimed)))
          /\ wire' = Skip(wire, Claimed)
          /\ script' = script /\ sent' = sent /\ open' = open
      BY <1>4 DEF Receive
    <2>2. PICK c \in Nat : c = Claimed /\ c <= Len(wire)
      BY <2>1, CodecAssumption
    <2>3. SubSeq(wire, 1, c) \in Seq(Nat) /\ Skip(wire, c) \in Seq(Nat)
      BY <1>0, <2>2 DEF Skip
    <2>4. PICK r \in Results : r = Decode(SubSeq(wire, 1, Claimed))
      BY <2>2, <2>3, Zenon DEF Results
    <2>5. Aligned(sent, Append(got, r), Skip(wire, Claimed), open, fr, R)
      BY <1>0, <1>1, <2>1, <2>4, AlignedReceive
    <2>6. Append(got, r) \in Seq(Results)
      BY <1>0, AppendProperties
    <2>7. got' = Append(got, r) /\ wire' \in Seq(Nat)
      BY <2>1, <2>2, <2>3, <2>4, Zenon
    <2> QED
      BY <1>0, <2>1, <2>5, <2>6, <2>7, Zenon DEF CodecInv
  <1>5. CASE Refuse
    <2>1. /\ Len(wire) >= 16 /\ Claimed \notin 16 .. MaxPduLen /\ open' = FALSE
          /\ script' = script /\ sent' = sent /\ got' = got /\ wire' = wire
      BY <1>5 DEF Refuse
    <2>2. Aligned(sent, got, wire, FALSE, fr, R)
      BY <1>0, <1>1, <2>1, AlignedRefuse
    <2> QED
      BY <1>0, <2>1, <2>2, Zenon DEF CodecInv
  <1>6. CASE UNCHANGED vars
    BY <1>6, Zenon DEF vars, CodecInv
  <1> QED
    BY <1>2, <1>3, <1>4, <1>5, <1>6, Zenon DEF Next

\* As long as the headers tell their frames' lengths, the receiver stands at
\* the start of a frame, and what it got is what decode makes of each frame.
THEOREM StandsAtAFrame == Spec => []CodecInv
  BY InitCodec, NextCodec, PTL DEF Spec

\* What the receiver has once it can do no more: every frame up to the i-th.
LEMMA QuietGot ==
    ASSUME CodecInv, Quiet, NEW i \in DOMAIN sent, TrueUpTo(i)
    PROVE  /\ i \in 1 .. Len(got) /\ sent[i] \in Entries
           /\ \E b : FrameOf(sent[i], b) /\ got[i] = Decode(b)
  <1>0. /\ wire \in Seq(Nat) /\ open \in BOOLEAN
        /\ sent \in Seq(Entries) /\ got \in Seq(Results)
    BY DEF CodecInv
  <1>1. PICK fr, R : Aligned(sent, got, wire, open, fr, R)
    BY DEF CodecInv
  <1>2. PICK n \in Nat : n = Len(sent)
    BY <1>0
  <1>3. PICK g \in Nat : g = Len(got)
    BY <1>0
  <1>4. i \in 1 .. n /\ sent[i] \in Entries
    BY <1>0, <1>2
  <1>5. AllTrue(sent, i)
    BY DEF TrueUpTo, AllTrue, TrueEntry
  <1>6. i <= g
    <2> SUFFICES ASSUME g < i PROVE FALSE
      BY <1>4
    <2>1. g < n /\ g <= n /\ g <= i /\ i \in Nat
      BY <1>4
    <2>2. AllTrue(sent, g)
      BY <1>5, <2>1, AllTrueDown
    <2>3. TrueEntry(sent[g + 1])
      BY <1>4, <1>5, <2>1 DEF AllTrue
    <2>4. Claimed \in 16 .. MaxPduLen /\ Claimed <= Len(wire) /\ Len(wire) >= 16
      BY <1>0, <1>1, <1>2, <1>3, <2>1, <2>2, <2>3, NextFrame
    <2>5. ~open
      <3>1. Len(wire) \in Nat /\ MaxPduLen \in Nat
        BY <1>0, CodecAssumption
      <3>2. ~(Len(wire) < 16) /\ ~(Claimed > Len(wire))
        BY <2>4, <3>1
      <3> QED
        BY <3>2, Zenon DEF Quiet
    <2>6. PICK j \in 1 .. n : j <= g + 1 /\ ~AllTrue(sent, j)
      BY <1>1, <1>2, <1>3, <2>5, Zenon DEF Aligned
    <2>7. j \in Nat /\ j <= i
      BY <1>4, <2>1, <2>6
    <2> QED
      BY <1>5, <2>1, <2>6, <2>7, AllTrueDown
  <1>7. i \in 1 .. g
    BY <1>4, <1>6
  <1>8. FrameOf(sent[i], fr[i]) /\ got[i] = Decode(fr[i])
    <2>1. i <= n
      BY <1>4
    <2> QED
      BY <1>1, <1>2, <1>3, <1>4, <1>5, <1>7, <2>1, Zenon DEF Aligned
  <1> QED
    BY <1>3, <1>4, <1>7, <1>8

LEMMA MadeHeader ==
    ASSUME NEW cmd, NEW ok, NEW seq, NEW body
    PROVE  /\ Made(cmd, ok, seq, body).cmd = cmd
           /\ Made(cmd, ok, seq, body).ok = ok
           /\ Made(cmd, ok, seq, body).seq = seq
  BY DEF Made

\* Whatever is in a PDU's fields, the damage stays in that PDU: the receiver
\* finds every later frame where it starts, with the command, the status and
\* the sequence_number it was sent with.
THEOREM LaterFramesAreFound == Spec => []InStep
  <1>1. CodecInv => InStep
    <2> SUFFICES ASSUME CodecInv, Quiet, NEW i \in DOMAIN sent, TrueUpTo(i)
                 PROVE  i <= Len(got) /\ SameHeader(got[i], sent[i].pdu)
      BY DEF InStep
    <2>1. /\ i \in 1 .. Len(got) /\ sent[i] \in Entries
          /\ \E b : FrameOf(sent[i], b) /\ got[i] = Decode(b)
      BY QuietGot
    <2>2. PICK b : FrameOf(sent[i], b) /\ got[i] = Decode(b)
      BY <2>1
    <2>3. PICK p : p = sent[i].pdu
      OBVIOUS
    <2>4. IsPdu(p)
      BY <2>1, <2>3, PdusAssumption DEF Entries
    <2>5. \E length : HasHeader(b, p, length)
      BY <2>1, <2>2, <2>3, FrameIs, Zenon
    <2>6. got[i] = Made(p.cmd, p.ok, p.seq, Skip(b, DecodeFrom(p.cmd) - 1))
      BY <2>2, <2>4, <2>5, DecodeIs, Zenon
    <2>7. SameHeader(got[i], p)
      <3>1. PICK m : m = Made(p.cmd, p.ok, p.seq, Skip(b, DecodeFrom(p.cmd) - 1))
        OBVIOUS
      <3>2. m.cmd = p.cmd /\ m.ok = p.ok /\ m.seq = p.seq
        BY <3>1, MadeHeader
      <3> QED
        BY <2>6, <3>1, <3>2, Zenon DEF SameHeader
    <2>8. i <= Len(got)
      <3>1. Len(got) \in Nat
        BY DEF CodecInv
      <3> QED
        BY <2>1, <3>1
    <2> QED
      BY <2>3, <2>7, <2>8, Zenon
  <1> QED
    BY <1>1, StandsAtAFrame, PTL

=============================================================================
