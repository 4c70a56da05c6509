--------------------------- MODULE FramingProofs ---------------------------
(***************************************************************************)
(* What is proved of Framing: the units TWS sends are cut into messages at *)
(* the right places, however the network delivers them.                    *)
(*                                                                         *)
(* What the flattening of a sequence of sequences yields is proved by      *)
(* induction, over a set of naturals and with the well-foundedness of <.   *)
(***************************************************************************)
EXTENDS Framing, SequenceTheorems, WellFoundedInduction, TLAPS

(***************************************************************************)
(* Induction                                                               *)
(***************************************************************************)

\* A set of naturals that holds 0, and n + 1 whenever it holds n, holds them all.
LEMMA Induction ==
  ASSUME NEW S \in SUBSET Nat, 0 \in S, \A n \in S : n + 1 \in S
  PROVE  S = Nat
<1>1. SUFFICES ASSUME Nat \ S # {} PROVE FALSE
  OBVIOUS
<1> DEFINE R == OpToRel(<, Nat)
<1>2. IsWellFoundedOn(R, Nat)
  BY NatLessThanWellFounded
<1>3. \A y, z \in Nat : y < z => <<y, z>> \in R
  BY DEF OpToRel
<1> HIDE DEF R
<1>4. PICK x \in Nat \ S : \A y \in Nat \ S : ~(<<y, x>> \in R)
  BY <1>1, <1>2, WFMin
<1>5. x # 0 /\ x - 1 \in Nat /\ x - 1 < x
  BY <1>4
<1>6. x - 1 \in S
  BY <1>3, <1>4, <1>5
<1> QED
  BY <1>4, <1>5, <1>6

(***************************************************************************)
(* Flattening                                                              *)
(***************************************************************************)

\* The function FlattenSeq computes: what the first i sequences flatten to.
Flattens(f, ss, n) ==
  f = [i \in 1..n |-> IF i = 1 THEN ss[i] ELSE f[i - 1] \o ss[i]]

LEMMA FlattensExists ==
  ASSUME NEW ss, NEW n \in Nat
  PROVE  \E f : Flattens(f, ss, n)
<1> DEFINE S == {k \in Nat : \E f : Flattens(f, ss, k)}
<1>1. 0 \in S
  <2> DEFINE f == [i \in 1..0 |-> {}]
  <2>1. f = [i \in 1..0 |-> IF i = 1 THEN ss[i] ELSE f[i - 1] \o ss[i]]
    OBVIOUS
  <2> HIDE DEF f
  <2> QED
    BY <2>1 DEF Flattens
<1>2. ASSUME NEW k \in S PROVE k + 1 \in S
  <2>1. PICK f : Flattens(f, ss, k)
    BY <1>2
  <2> DEFINE g == [i \in 1..k + 1 |->
                    IF i = k + 1 THEN IF i = 1 THEN ss[i] ELSE f[k] \o ss[i] ELSE f[i]]
  <2>2. \A i \in 1..k : g[i] = f[i]
    BY <1>2
  <2>3. \A i \in 1..k : f[i] = IF i = 1 THEN ss[i] ELSE f[i - 1] \o ss[i]
    BY <2>1 DEF Flattens
  <2>4. g = [i \in 1..k + 1 |-> IF i = 1 THEN ss[i] ELSE g[i - 1] \o ss[i]]
    <3>1. ASSUME NEW i \in 1..k + 1
          PROVE  g[i] = IF i = 1 THEN ss[i] ELSE g[i - 1] \o ss[i]
      <4>1. CASE i = k + 1 /\ i # 1
        <5>1. k \in 1..k /\ i - 1 = k
          BY <4>1, <1>2
        <5>2. g[i] = f[k] \o ss[i] /\ g[k] = f[k]
          BY <4>1, <5>1, <2>2, <1>2
        <5> HIDE DEF g
        <5> QED
          BY <4>1, <5>1, <5>2
      <4>2. CASE i = k + 1 /\ i = 1
        BY <4>2
      <4>3. CASE i # k + 1
        <5>1. i \in 1..k /\ (i # 1 => i - 1 \in 1..k)
          BY <4>3, <1>2
        <5> HIDE DEF g
        <5> QED
          BY <5>1, <2>2, <2>3
      <4> QED
        BY <4>1, <4>2, <4>3
    <3> QED
      BY <3>1
  <2> HIDE DEF g
  <2>5. Flattens(g, ss, k + 1)
    BY <2>4 DEF Flattens
  <2> QED
    BY <1>2, <2>5
<1> HIDE DEF S
<1>3. S \subseteq Nat
  BY DEF S
<1>4. S = Nat
  BY <1>1, <1>2, <1>3, Induction
<1> QED
  BY <1>4 DEF S

\* Two such functions agree as far as the sequences do.
LEMMA FlattensAgree ==
  ASSUME NEW ss, NEW tt, NEW m \in Nat, NEW n \in Nat, NEW f, NEW g,
         Flattens(f, ss, m), Flattens(g, tt, n), m <= n,
         \A i \in 1..m : ss[i] = tt[i]
  PROVE  \A i \in 1..m : f[i] = g[i]
<1> DEFINE S == {k \in Nat : k \in 1..m => f[k] = g[k]}
<1>1. /\ \A i \in 1..m : f[i] = IF i = 1 THEN ss[i] ELSE f[i - 1] \o ss[i]
      /\ \A i \in 1..n : g[i] = IF i = 1 THEN tt[i] ELSE g[i - 1] \o tt[i]
  BY DEF Flattens
<1>2. 0 \in S
  OBVIOUS
<1>3. ASSUME NEW k \in S PROVE k + 1 \in S
  <2>1. SUFFICES ASSUME k + 1 \in 1..m PROVE f[k + 1] = g[k + 1]
    BY <1>3
  <2>2. k \in Nat /\ (k # 0 => k \in 1..m /\ f[k] = g[k]) /\ (k + 1) - 1 = k
    BY <1>3, <2>1
  <2>3. k + 1 \in 1..n /\ ss[k + 1] = tt[k + 1]
    BY <2>1, <2>2
  <2> QED
    BY <1>1, <2>1, <2>2, <2>3
<1> HIDE DEF S
<1>4. S \subseteq Nat
  BY DEF S
<1>5. S = Nat
  BY <1>2, <1>3, <1>4, Induction
<1> QED
  BY <1>5 DEF S

LEMMA FlattenIs ==
  ASSUME NEW T, NEW ss \in Seq(T), ss # <<>>
  PROVE  \E f : Flattens(f, ss, Len(ss)) /\ FlattenSeq(ss) = f[Len(ss)]
<1>1. Len(ss) \in Nat \ {0}
  BY EmptySeq
<1>2. \E f : Flattens(f, ss, Len(ss))
  BY <1>1, FlattensExists
<1> QED
  BY <1>1, <1>2 DEF FlattenSeq, Flattens

LEMMA FlattenEmpty == FlattenSeq(<<>>) = <<>>
BY EmptySeq DEF FlattenSeq

\* Flattening one sequence more appends it.
LEMMA FlattenAppend ==
  ASSUME NEW T, NEW ss \in Seq(Seq(T)), NEW x \in Seq(T)
  PROVE  FlattenSeq(Append(ss, x)) = FlattenSeq(ss) \o x
<1> DEFINE tt == Append(ss, x)
<1>1. /\ tt \in Seq(Seq(T)) /\ tt # <<>> /\ Len(tt) = Len(ss) + 1
      /\ \A i \in 1..Len(ss) : tt[i] = ss[i]
      /\ tt[Len(ss) + 1] = x
  BY AppendProperties
<1> HIDE DEF tt
<1>2. Len(ss) \in Nat /\ (ss = <<>> <=> Len(ss) = 0)
  BY EmptySeq
<1>3. PICK g : Flattens(g, tt, Len(tt)) /\ FlattenSeq(tt) = g[Len(tt)]
  BY <1>1, FlattenIs
<1>4. g[Len(tt)] = IF Len(tt) = 1 THEN tt[Len(tt)] ELSE g[Len(tt) - 1] \o tt[Len(tt)]
  <2>1. Len(tt) \in 1..Len(tt)
    BY <1>1, <1>2
  <2> QED
    BY <1>3, <2>1 DEF Flattens
<1>5. CASE ss = <<>>
  <2>1. FlattenSeq(tt) = x
    BY <1>1, <1>2, <1>3, <1>4, <1>5
  <2>2. FlattenSeq(ss) \o x = x
    BY <1>5, FlattenEmpty, ConcatEmptySeq
  <2> QED
    BY <2>1, <2>2 DEF tt
<1>6. CASE ss # <<>>
  <2>1. PICK f : Flattens(f, ss, Len(ss)) /\ FlattenSeq(ss) = f[Len(ss)]
    BY <1>6, FlattenIs
  <2>2. \A i \in 1..Len(ss) : f[i] = g[i]
    <3>1. Len(tt) \in Nat /\ Len(ss) <= Len(tt)
      BY <1>1, <1>2
    <3>2. \A i \in 1..Len(ss) : ss[i] = tt[i]
      BY <1>1
    <3>3. Flattens(f, ss, Len(ss)) /\ Flattens(g, tt, Len(tt)) /\ Len(ss) \in Nat
      BY <1>2, <1>3, <2>1
    <3>4. PICK m \in Nat, n \in Nat : m = Len(ss) /\ n = Len(tt)
      BY <1>2, <3>1
    <3>5. /\ Flattens(f, ss, m) /\ Flattens(g, tt, n) /\ m <= n
          /\ \A i \in 1..m : ss[i] = tt[i]
      BY <3>1, <3>2, <3>3, <3>4
    <3>6. \A i \in 1..m : f[i] = g[i]
      BY <3>5, FlattensAgree, SMT
    <3> QED
      BY <3>4, <3>6
  <2>3. Len(ss) \in 1..Len(ss) /\ Len(tt) # 1 /\ Len(tt) - 1 = Len(ss)
    BY <1>1, <1>2, <1>6
  <2>4. g[Len(tt)] = f[Len(ss)] \o x
    BY <1>1, <1>4, <2>2, <2>3
  <2> QED
    BY <1>3, <1>6, <2>1, <2>4 DEF tt
<1> QED
  BY <1>5, <1>6

\* What sequences over T flatten to is a sequence over T.
LEMMA FlattenType ==
  ASSUME NEW T, NEW ss \in Seq(Seq(T))
  PROVE  FlattenSeq(ss) \in Seq(T)
<1> DEFINE S == {n \in Nat : \A tt \in Seq(Seq(T)) : Len(tt) = n => FlattenSeq(tt) \in Seq(T)}
<1>1. 0 \in S
  BY EmptySeq, FlattenEmpty
<1>2. ASSUME NEW n \in S PROVE n + 1 \in S
  <2>1. ASSUME NEW tt \in Seq(Seq(T)), Len(tt) = n + 1 PROVE FlattenSeq(tt) \in Seq(T)
    <3>1. tt # <<>>
      BY <1>2, <2>1, EmptySeq
    <3>2. PICK uu \in Seq(Seq(T)), x \in Seq(T) : tt = Append(uu, x)
      BY <3>1, SequenceEmptyOrAppend
    <3>3. Len(uu) = n
      BY <1>2, <2>1, <3>2, AppendProperties
    <3>4. FlattenSeq(uu) \in Seq(T)
      BY <1>2, <3>2, <3>3
    <3>5. FlattenSeq(uu) \o x \in Seq(T)
      BY <3>2, <3>4, ConcatProperties
    <3> HIDE DEF S
    <3> QED
      BY <3>2, <3>5, FlattenAppend
  <2> QED
    BY <1>2, <2>1
<1> HIDE DEF S
<1>3. S = Nat
  <2>1. S \subseteq Nat
    BY DEF S
  <2> QED
    BY <1>1, <1>2, <2>1, Induction
<1>4. Len(ss) \in S
  BY <1>3
<1> QED
  BY <1>4 DEF S

\* Concatenation is associative. It is named so that a proof can use it for
\* three given sequences, and no others.
Regrouped(a, b, c) == (a \o b) \o c = a \o (b \o c)

LEMMA Concats ==
  ASSUME NEW T, NEW a \in Seq(T), NEW b \in Seq(T), NEW c \in Seq(T)
  PROVE  Regrouped(a, b, c)
BY ConcatAssociative DEF Regrouped

\* It distributes over concatenation when it does for all sequences but the last.
LEMMA FlattenOneMore ==
  ASSUME NEW T, NEW ss \in Seq(Seq(T)), NEW vv \in Seq(Seq(T)), NEW y \in Seq(T),
         FlattenSeq(ss \o vv) = FlattenSeq(ss) \o FlattenSeq(vv)
  PROVE  FlattenSeq(ss \o Append(vv, y)) = FlattenSeq(ss) \o FlattenSeq(Append(vv, y))
<1>1. <<y>> \in Seq(Seq(T)) /\ ss \o vv \in Seq(Seq(T))
  BY ConcatProperties
<1>2. Append(vv, y) = vv \o <<y>> /\ Append(ss \o vv, y) = (ss \o vv) \o <<y>>
  BY <1>1, AppendIsConcat
<1>3. Regrouped(ss, vv, <<y>>)
  BY <1>1, Concats, Zenon
<1>4. FlattenSeq(ss \o Append(vv, y)) = FlattenSeq(ss \o vv) \o y
  <2>1. ss \o Append(vv, y) = Append(ss \o vv, y)
    BY <1>2, <1>3 DEF Regrouped
  <2>2. FlattenSeq(Append(ss \o vv, y)) = FlattenSeq(ss \o vv) \o y
    BY <1>1, FlattenAppend, Zenon
  <2> QED
    BY <2>1, <2>2
<1>5. FlattenSeq(Append(vv, y)) = FlattenSeq(vv) \o y
  BY FlattenAppend
<1>6. FlattenSeq(ss) \in Seq(T) /\ FlattenSeq(vv) \in Seq(T)
  BY FlattenType
<1>7. Regrouped(FlattenSeq(ss), FlattenSeq(vv), y)
  BY <1>6, Concats, Zenon
<1> QED
  BY <1>4, <1>5, <1>7 DEF Regrouped

\* Flattening distributes over concatenation.
LEMMA FlattenConcat ==
  ASSUME NEW T, NEW ss \in Seq(Seq(T)), NEW tt \in Seq(Seq(T))
  PROVE  FlattenSeq(ss \o tt) = FlattenSeq(ss) \o FlattenSeq(tt)
<1> DEFINE S == {n \in Nat : \A uu \in Seq(Seq(T)) :
                               Len(uu) = n => FlattenSeq(ss \o uu) = FlattenSeq(ss) \o FlattenSeq(uu)}
<1>1. 0 \in S
  <2>1. ASSUME NEW uu \in Seq(Seq(T)), Len(uu) = 0
        PROVE  FlattenSeq(ss \o uu) = FlattenSeq(ss) \o FlattenSeq(uu)
    <3>1. uu = <<>>
      BY <2>1, EmptySeq
    <3>2. FlattenSeq(ss) \in Seq(T)
      BY FlattenType
    <3> QED
      BY <3>1, <3>2, FlattenEmpty, ConcatEmptySeq
  <2> QED
    BY <2>1
<1>2. ASSUME NEW n \in S PROVE n + 1 \in S
  <2>1. ASSUME NEW uu \in Seq(Seq(T)), Len(uu) = n + 1
        PROVE  FlattenSeq(ss \o uu) = FlattenSeq(ss) \o FlattenSeq(uu)
    <3>1. uu # <<>>
      BY <1>2, <2>1, EmptySeq
    <3>2. PICK vv \in Seq(Seq(T)), y \in Seq(T) : uu = Append(vv, y)
      BY <3>1, SequenceEmptyOrAppend
    <3>3. Len(vv) = n
      BY <1>2, <2>1, <3>2, AppendProperties
    <3>4. FlattenSeq(ss \o vv) = FlattenSeq(ss) \o FlattenSeq(vv)
      BY <1>2, <3>2, <3>3
    <3> HIDE DEF S
    <3> QED
      BY <3>2, <3>4, FlattenOneMore
  <2>2. n + 1 \in Nat
    BY <1>2
  <2> QED
    BY <2>1, <2>2
<1> HIDE DEF S
<1>3. S = Nat
  <2>1. S \subseteq Nat
    BY DEF S
  <2> QED
    BY <1>1, <1>2, <2>1, Induction
<1>4. Len(tt) \in S
  BY <1>3
<1> QED
  BY <1>4 DEF S

LEMMA FlattenOne ==
  ASSUME NEW T, NEW x \in Seq(T)
  PROVE  FlattenSeq(<<x>>) = x
<1>1. <<>> \in Seq(Seq(T)) /\ Append(<<>>, x) = <<x>>
  BY EmptySeq
<1>2. FlattenSeq(<<x>>) = FlattenSeq(<<>>) \o x
  BY <1>1, FlattenAppend
<1> QED
  BY <1>2, FlattenEmpty, ConcatEmptySeq

(***************************************************************************)
(* Frames, and what is to be delivered of them                             *)
(***************************************************************************)

\* Division by the base.
LEMMA Division ==
  ASSUME NEW n \in Nat
  PROVE  n \div Base \in Nat /\ n % Base \in Units /\ (n \div Base) * Base + (n % Base) = n
BY BaseAssumption DEF Units

\* Each division leaves one digit less.
LEMMA FewerDigits ==
  ASSUME NEW n \in Nat, NEW m \in Nat, n < Base * m
  PROVE  n \div Base < m
<1> DEFINE q == n \div Base
           r == n % Base
<1>1. q \in Nat /\ r \in Nat /\ q * Base + r = n
  BY Division, BaseAssumption DEF Units
<1> HIDE DEF q, r
<1>2. SUFFICES ASSUME q >= m PROVE FALSE
  BY <1>1 DEF q
<1>3. PICK d \in Nat : q = m + d
  <2>1. q - m \in Nat /\ q = m + (q - m)
    BY <1>1, <1>2
  <2> QED
    BY <2>1
<1>4. (m + d) * Base = m * Base + d * Base /\ d * Base \in Nat /\ m * Base \in Nat
  BY BaseAssumption
<1>5. m * Base = Base * m
  BY BaseAssumption
<1> QED
  BY <1>1, <1>3, <1>4, <1>5

\* The digits of a length are units, and the reader puts them together again.
LEMMA DigitsProperties ==
  ASSUME NEW n \in Nat, n < Base * (Base * (Base * Base))
  PROVE  Digits(n) \in Seq(Units) /\ Len(Digits(n)) = 4 /\ Size(Digits(n)) = n
<1> DEFINE n1 == n \div Base
           n2 == n1 \div Base
           n3 == n2 \div Base
<1>1. Base \in Nat /\ Base * Base \in Nat /\ Base * (Base * Base) \in Nat
  BY BaseAssumption
<1>2. n1 \in Nat /\ n1 < Base * (Base * Base) /\ n % Base \in Units /\ n1 * Base + (n % Base) = n
  BY <1>1, Division, FewerDigits
<1> HIDE DEF n1
<1>3. n2 \in Nat /\ n2 < Base * Base /\ n1 % Base \in Units /\ n2 * Base + (n1 % Base) = n1
  BY <1>1, <1>2, Division, FewerDigits
<1> HIDE DEF n2
<1>4. n3 \in Nat /\ n3 < Base /\ n2 % Base \in Units /\ n3 * Base + (n2 % Base) = n2
  BY <1>1, <1>3, Division, FewerDigits
<1> HIDE DEF n3
<1>5. n3 \in Units
  BY <1>1, <1>4 DEF Units
<1>6. Digits(n) = <<n3, n2 % Base, n1 % Base, n % Base>>
  BY DEF Digits, n1, n2, n3
<1>7. /\ Digits(n) \in Seq(Units) /\ Len(Digits(n)) = 4
      /\ Digits(n)[1] = n3 /\ Digits(n)[2] = n2 % Base
      /\ Digits(n)[3] = n1 % Base /\ Digits(n)[4] = n % Base
  BY <1>2, <1>3, <1>4, <1>5, <1>6
<1>8. Size(Digits(n)) = ((n3 * Base + (n2 % Base)) * Base + (n1 % Base)) * Base + (n % Base)
  BY <1>7 DEF Size
<1>9. Size(Digits(n)) = n
  BY <1>2, <1>3, <1>4, <1>8
<1> QED
  BY <1>7, <1>9

LEMMA FrameProperties ==
  ASSUME NEW b \in Bodies
  PROVE  /\ b \in Seq(Units) /\ Len(b) \in Nat
         /\ Frame(b) \in Seq(Units)
         /\ Len(Frame(b)) = Prefix + Len(b)
         /\ Size(Frame(b)) = Len(b)
         /\ \A i \in 1..Len(b) : Frame(b)[Prefix + i] = b[i]
<1>1. b \in Seq(Units) /\ Len(b) \in Nat
  BY BodiesAssumption
<1>2. PICK p \in Seq(Units) : p = Digits(Len(b)) /\ Len(p) = 4 /\ Size(p) = Len(b)
  BY <1>1, BodiesAssumption, DigitsProperties
<1>3. /\ p \o b \in Seq(Units)
      /\ Len(p \o b) = 4 + Len(b)
      /\ \A i \in 1..4 + Len(b) : (p \o b)[i] = IF i <= 4 THEN p[i] ELSE b[i - 4]
  <2>1. /\ p \o b \in Seq(Units)
        /\ Len(p \o b) = Len(p) + Len(b)
        /\ \A i \in 1..Len(p) + Len(b) : (p \o b)[i] = IF i <= Len(p) THEN p[i] ELSE b[i - Len(p)]
    BY <1>1, ConcatProperties
  <2> QED
    BY <1>2, <2>1
<1>4. Size(p \o b) = Len(b)
  <2>1. \A i \in 1..4 : i \in 1..4 + Len(b) /\ i <= 4
    BY <1>1
  <2>2. \A i \in 1..4 : (p \o b)[i] = p[i]
    BY <1>3, <2>1
  <2> DEFINE q == p \o b
  <2> HIDE DEF q
  <2>3. q[1] = p[1] /\ q[2] = p[2] /\ q[3] = p[3] /\ q[4] = p[4]
    <3>1. \A i \in 1..4 : q[i] = p[i]
      BY <2>2 DEF q
    <3>2. 1 \in 1..4 /\ 2 \in 1..4 /\ 3 \in 1..4 /\ 4 \in 1..4
      OBVIOUS
    <3> QED
      BY <3>1, <3>2
  <2>4. Size(p \o b) = Size(p)
    BY <2>3 DEF Size, q
  <2> QED
    BY <1>2, <2>4
<1>5. \A i \in 1..Len(b) : (p \o b)[4 + i] = b[i]
  BY <1>1, <1>3
<1>6. Frame(b) = p \o b
  BY <1>2 DEF Frame
<1> QED
  BY <1>1, <1>3, <1>4, <1>5, <1>6 DEF Prefix

Framed(bs) == [i \in 1..Len(bs) |-> Frame(bs[i])]
Kept(bs) == [i \in 1..Len(bs) |-> IF Deliverable(bs[i]) THEN <<bs[i]>> ELSE <<>>]
Messages == {b \in Bodies : Deliverable(b)}

LEMMA SequenceOf ==
  ASSUME NEW T, NEW n \in Nat, NEW f \in [1..n -> T]
  PROVE  f \in Seq(T) /\ Len(f) = n
OBVIOUS

LEMMA FramedProperties ==
  ASSUME NEW bs \in Seq(Bodies)
  PROVE  /\ Framed(bs) \in Seq(Seq(Units))
         /\ Kept(bs) \in Seq(Seq(Messages))
         /\ Len(Framed(bs)) = Len(bs) /\ Len(Kept(bs)) = Len(bs)
<1>1. Len(bs) \in Nat /\ \A i \in 1..Len(bs) : bs[i] \in Bodies
  BY ElementOfSeq
<1>2. \A i \in 1..Len(bs) : Frame(bs[i]) \in Seq(Units)
  BY <1>1, FrameProperties
<1>3. \A i \in 1..Len(bs) : (IF Deliverable(bs[i]) THEN <<bs[i]>> ELSE <<>>) \in Seq(Messages)
  <2>1. ASSUME NEW i \in 1..Len(bs), Deliverable(bs[i]) PROVE <<bs[i]>> \in Seq(Messages)
    <3>1. bs[i] \in Messages
      BY <1>1, <2>1 DEF Messages
    <3> QED
      BY <3>1
  <2>2. <<>> \in Seq(Messages)
    BY EmptySeq
  <2> QED
    BY <2>1, <2>2
<1>4. Framed(bs) \in [1..Len(bs) -> Seq(Units)]
  BY <1>2 DEF Framed
<1>5. Kept(bs) \in [1..Len(bs) -> Seq(Messages)]
  BY <1>3 DEF Kept
<1>6. Framed(bs) \in Seq(Seq(Units)) /\ Len(Framed(bs)) = Len(bs)
  BY <1>1, <1>4, SequenceOf
<1>7. Kept(bs) \in Seq(Seq(Messages)) /\ Len(Kept(bs)) = Len(bs)
  BY <1>1, <1>5, SequenceOf
<1> QED
  BY <1>6, <1>7

LEMMA FramesType ==
  ASSUME NEW bs \in Seq(Bodies)
  PROVE  Frames(bs) \in Seq(Units) /\ ToDeliver(bs) \in Seq(Messages)
<1>1. Frames(bs) = FlattenSeq(Framed(bs)) /\ ToDeliver(bs) = FlattenSeq(Kept(bs))
  BY DEF Frames, Framed, ToDeliver, Kept
<1>2. FlattenSeq(Framed(bs)) \in Seq(Units) /\ FlattenSeq(Kept(bs)) \in Seq(Messages)
  BY FramedProperties, FlattenType
<1> QED
  BY <1>1, <1>2

LEMMA FramesEmpty == Frames(<<>>) = <<>> /\ ToDeliver(<<>>) = <<>>
<1>1. <<>> \in Seq(Bodies) /\ Len(<<>>) = 0
  BY EmptySeq
<1>2. Framed(<<>>) = <<>> /\ Kept(<<>>) = <<>>
  BY <1>1, FramedProperties, EmptySeq
<1>3. Frames(<<>>) = FlattenSeq(Framed(<<>>)) /\ ToDeliver(<<>>) = FlattenSeq(Kept(<<>>))
  BY DEF Frames, Framed, ToDeliver, Kept
<1> QED
  BY <1>2, <1>3, FlattenEmpty

LEMMA FramesOne ==
  ASSUME NEW b \in Bodies
  PROVE  /\ Frames(<<b>>) = Frame(b)
         /\ ToDeliver(<<b>>) = IF Deliverable(b) THEN <<b>> ELSE <<>>
<1> DEFINE k == IF Deliverable(b) THEN <<b>> ELSE <<>>
<1>1. <<b>> \in Seq(Bodies) /\ Len(<<b>>) = 1 /\ <<b>>[1] = b
  OBVIOUS
<1>2. Framed(<<b>>) = <<Frame(b)>> /\ Kept(<<b>>) = <<k>>
  BY <1>1 DEF Framed, Kept
<1>3. Frames(<<b>>) = FlattenSeq(Framed(<<b>>)) /\ ToDeliver(<<b>>) = FlattenSeq(Kept(<<b>>))
  BY DEF Frames, Framed, ToDeliver, Kept
<1>4. Frame(b) \in Seq(Units)
  BY FrameProperties
<1>5. k \in Seq(Messages)
  <2>1. Deliverable(b) => b \in Messages
    BY DEF Messages
  <2> QED
    BY <2>1, EmptySeq
<1> HIDE DEF k
<1>6. FlattenSeq(<<Frame(b)>>) = Frame(b) /\ FlattenSeq(<<k>>) = k
  BY <1>4, <1>5, FlattenOne
<1> QED
  BY <1>2, <1>3, <1>6 DEF k

LEMMA FramesConcat ==
  ASSUME NEW bs \in Seq(Bodies), NEW cs \in Seq(Bodies)
  PROVE  /\ Frames(bs \o cs) = Frames(bs) \o Frames(cs)
         /\ ToDeliver(bs \o cs) = ToDeliver(bs) \o ToDeliver(cs)
<1> DEFINE ds == bs \o cs
<1>1. /\ ds \in Seq(Bodies)
      /\ Len(ds) = Len(bs) + Len(cs)
      /\ \A i \in 1..Len(bs) + Len(cs) :
           ds[i] = IF i <= Len(bs) THEN bs[i] ELSE cs[i - Len(bs)]
  BY ConcatProperties
<1> HIDE DEF ds
<1>2. Len(bs) \in Nat /\ Len(cs) \in Nat
  OBVIOUS
<1>3. Framed(ds) = Framed(bs) \o Framed(cs)
  <2>1. /\ Framed(bs) \o Framed(cs) \in Seq(Seq(Units))
        /\ Len(Framed(bs) \o Framed(cs)) = Len(Framed(bs)) + Len(Framed(cs))
        /\ \A i \in 1..Len(Framed(bs)) + Len(Framed(cs)) :
             (Framed(bs) \o Framed(cs))[i] =
               IF i <= Len(Framed(bs)) THEN Framed(bs)[i] ELSE Framed(cs)[i - Len(Framed(bs))]
    BY FramedProperties, ConcatProperties
  <2>2. Framed(ds) \in Seq(Seq(Units)) /\ Len(Framed(ds)) = Len(bs) + Len(cs)
    BY <1>1, FramedProperties
  <2>3. Len(Framed(bs)) = Len(bs) /\ Len(Framed(cs)) = Len(cs)
    BY FramedProperties
  <2>4. ASSUME NEW i \in 1..Len(bs) + Len(cs)
        PROVE  Framed(ds)[i] = IF i <= Len(bs) THEN Framed(bs)[i] ELSE Framed(cs)[i - Len(bs)]
    BY <1>1, <1>2 DEF Framed
  <2>5. \A i \in 1..Len(Framed(ds)) : Framed(ds)[i] = (Framed(bs) \o Framed(cs))[i]
    BY <2>1, <2>2, <2>3, <2>4
  <2>6. Len(Framed(ds)) = Len(Framed(bs) \o Framed(cs))
    BY <2>1, <2>2, <2>3
  <2> QED
    BY <2>1, <2>2, <2>5, <2>6, SeqEqual
<1>4. Kept(ds) = Kept(bs) \o Kept(cs)
  <2>1. /\ Kept(bs) \o Kept(cs) \in Seq(Seq(Messages))
        /\ Len(Kept(bs) \o Kept(cs)) = Len(Kept(bs)) + Len(Kept(cs))
        /\ \A i \in 1..Len(Kept(bs)) + Len(Kept(cs)) :
             (Kept(bs) \o Kept(cs))[i] =
               IF i <= Len(Kept(bs)) THEN Kept(bs)[i] ELSE Kept(cs)[i - Len(Kept(bs))]
    BY FramedProperties, ConcatProperties
  <2>2. Kept(ds) \in Seq(Seq(Messages)) /\ Len(Kept(ds)) = Len(bs) + Len(cs)
    BY <1>1, FramedProperties
  <2>3. Len(Kept(bs)) = Len(bs) /\ Len(Kept(cs)) = Len(cs)
    BY FramedProperties
  <2>4. ASSUME NEW i \in 1..Len(bs) + Len(cs)
        PROVE  Kept(ds)[i] = IF i <= Len(bs) THEN Kept(bs)[i] ELSE Kept(cs)[i - Len(bs)]
    BY <1>1, <1>2 DEF Kept
  <2>5. \A i \in 1..Len(Kept(ds)) : Kept(ds)[i] = (Kept(bs) \o Kept(cs))[i]
    BY <2>1, <2>2, <2>3, <2>4
  <2>6. Len(Kept(ds)) = Len(Kept(bs) \o Kept(cs))
    BY <2>1, <2>2, <2>3
  <2> QED
    BY <2>1, <2>2, <2>5, <2>6, SeqEqual
<1>5. /\ FlattenSeq(Framed(bs) \o Framed(cs)) = FlattenSeq(Framed(bs)) \o FlattenSeq(Framed(cs))
      /\ FlattenSeq(Kept(bs) \o Kept(cs)) = FlattenSeq(Kept(bs)) \o FlattenSeq(Kept(cs))
  BY FramedProperties, FlattenConcat
<1>6. \A es : Frames(es) = FlattenSeq(Framed(es)) /\ ToDeliver(es) = FlattenSeq(Kept(es))
  BY DEF Frames, Framed, ToDeliver, Kept
<1> QED
  BY <1>3, <1>4, <1>5, <1>6 DEF ds

(***************************************************************************)
(* Cutting sequences                                                       *)
(***************************************************************************)

LEMMA Cut ==
  ASSUME NEW T, NEW s \in Seq(T), NEW i \in 1..Len(s)
  PROVE  /\ SubSeq(s, i, Len(s)) \in Seq(T) /\ SubSeq(s, i + 1, Len(s)) \in Seq(T)
         /\ SubSeq(s, 1, i) \in Seq(T) /\ SubSeq(s, 1, i - 1) \in Seq(T)
         /\ s[i] \in T
         /\ SubSeq(s, i, Len(s)) = <<s[i]>> \o SubSeq(s, i + 1, Len(s))
         /\ SubSeq(s, 1, i) = SubSeq(s, 1, i - 1) \o <<s[i]>>
<1>1. \A m, n \in Int : 1 <= m /\ n <= Len(s) => SubSeq(s, m, n) \in Seq(T)
  <2>1. ASSUME NEW m \in Int, NEW n \in Int, 1 <= m, n <= Len(s)
        PROVE  SubSeq(s, m, n) \in Seq(T)
    <3>1. \A k \in m..n : s[k] \in T
      BY <2>1, ElementOfSeq
    <3> QED
      BY <3>1, SubSeqProperties
  <2> QED
    BY <2>1
<1>2. Len(s) \in Nat /\ i \in Int /\ 1 <= i /\ i <= Len(s)
  OBVIOUS
<1>3. SubSeq(s, i, Len(s)) = <<s[i]>> \o SubSeq(s, i + 1, Len(s))
  <2>1. Len(s) \in i..Len(s)
    BY <1>2
  <2> QED
    BY <2>1, SubSeqRecursiveFirst
<1>4. SubSeq(s, 1, i) = SubSeq(s, 1, i - 1) \o <<s[i]>>
  <2>1. 1 \in 1..Len(s) /\ i \in 1..i
    BY <1>2
  <2> QED
    BY <2>1, SubSeqRecursiveSecond
<1>5. s[i] \in T
  BY ElementOfSeq
<1>6. /\ SubSeq(s, i, Len(s)) \in Seq(T) /\ SubSeq(s, i + 1, Len(s)) \in Seq(T)
      /\ SubSeq(s, 1, i) \in Seq(T) /\ SubSeq(s, 1, i - 1) \in Seq(T)
  BY <1>1, <1>2
<1> QED
  BY <1>3, <1>4, <1>5, <1>6

LEMMA CutAppend ==
  ASSUME NEW T, NEW s \in Seq(T), NEW x \in T, NEW i \in 0..Len(s)
  PROVE  /\ SubSeq(s, i + 1, Len(s)) \in Seq(T)
         /\ SubSeq(Append(s, x), i + 1, Len(s) + 1) = SubSeq(s, i + 1, Len(s)) \o <<x>>
         /\ SubSeq(Append(s, x), 1, i) = SubSeq(s, 1, i)
<1> DEFINE t == Append(s, x)
<1>1. /\ t \in Seq(T) /\ Len(t) = Len(s) + 1
      /\ \A k \in 1..Len(s) : t[k] = s[k]
      /\ t[Len(s) + 1] = x
  BY AppendProperties
<1> HIDE DEF t
<1>2. Len(s) \in Nat /\ i \in Nat /\ i <= Len(s)
  OBVIOUS
<1>3. \A m, n \in Int : 1 <= m /\ n <= Len(s) => SubSeq(s, m, n) \in Seq(T) /\ SubSeq(t, m, n) = SubSeq(s, m, n)
  <2>1. ASSUME NEW m \in Int, NEW n \in Int, 1 <= m, n <= Len(s)
        PROVE  SubSeq(s, m, n) \in Seq(T) /\ SubSeq(t, m, n) = SubSeq(s, m, n)
    <3>1. \A k \in m..n : s[k] \in T /\ t[k] \in T /\ s[k] = t[k]
      <4>1. \A k \in m..n : k \in 1..Len(s)
        BY <1>2, <2>1
      <4>2. \A k \in 1..Len(s) : s[k] \in T
        BY ElementOfSeq
      <4> QED
        BY <1>1, <4>1, <4>2
    <3>2. /\ SubSeq(s, m, n) \in Seq(T)
          /\ Len(SubSeq(s, m, n)) = IF m <= n THEN n - m + 1 ELSE 0
          /\ \A k \in 1..n - m + 1 : SubSeq(s, m, n)[k] = s[m + k - 1]
      BY <3>1, SubSeqProperties
    <3>3. /\ SubSeq(t, m, n) \in Seq(T)
          /\ Len(SubSeq(t, m, n)) = IF m <= n THEN n - m + 1 ELSE 0
          /\ \A k \in 1..n - m + 1 : SubSeq(t, m, n)[k] = t[m + k - 1]
      BY <3>1, SubSeqProperties
    <3>4. \A k \in 1..Len(SubSeq(s, m, n)) : SubSeq(s, m, n)[k] = SubSeq(t, m, n)[k]
      <4>1. ASSUME NEW k \in 1..Len(SubSeq(s, m, n)) PROVE k \in 1..n - m + 1 /\ m + k - 1 \in m..n
        BY <3>2
      <4> QED
        BY <3>1, <3>2, <3>3, <4>1
    <3> QED
      BY <3>2, <3>3, <3>4, SeqEqual
  <2> QED
    BY <2>1
<1>4. SubSeq(t, i + 1, Len(s) + 1) = SubSeq(t, i + 1, Len(s)) \o <<t[Len(s) + 1]>>
  <2>1. i + 1 \in 1..Len(t) /\ Len(t) \in i + 1..Len(t) /\ Len(t) - 1 = Len(s)
    BY <1>1, <1>2
  <2>2. SubSeq(t, i + 1, Len(t)) = SubSeq(t, i + 1, Len(t) - 1) \o <<t[Len(t)]>>
    BY <1>1, <2>1, SubSeqRecursiveSecond
  <2> QED
    BY <1>1, <2>1, <2>2
<1>5. /\ SubSeq(s, i + 1, Len(s)) \in Seq(T)
      /\ SubSeq(t, i + 1, Len(s)) = SubSeq(s, i + 1, Len(s))
      /\ SubSeq(t, 1, i) = SubSeq(s, 1, i)
  BY <1>2, <1>3
<1> QED
  BY <1>1, <1>4, <1>5 DEF t

(***************************************************************************)
(* Taking a message                                                        *)
(***************************************************************************)

\* Units that begin with a whole message, and with what follows are the frames of
\* some bodies, yield the first of the bodies and leave the others.
LEMMA Taking ==
  ASSUME NEW u \in Seq(Units), NEW w \in Seq(Units), NEW bs \in Seq(Bodies),
         u \o w = Frames(bs), Complete(u)
  PROVE  /\ Len(bs) \in Nat /\ 1 <= Len(bs)
         /\ Body(u) = bs[1]
         /\ Rest(u) \in Seq(Units)
         /\ Rest(u) \o w = Frames(SubSeq(bs, 2, Len(bs)))
<1>1. /\ u \o w \in Seq(Units)
      /\ Len(u \o w) = Len(u) + Len(w)
      /\ \A i \in 1..Len(u) + Len(w) : (u \o w)[i] = IF i <= Len(u) THEN u[i] ELSE w[i - Len(u)]
  BY ConcatProperties
<1>2. Len(u) \in Nat /\ Len(w) \in Nat /\ Len(u) >= 4 /\ Len(u) >= 4 + Size(u)
  BY DEF Complete, Prefix
<1>3. Len(bs) \in Nat /\ 1 <= Len(bs)
  <2>1. SUFFICES ASSUME Len(bs) = 0 PROVE FALSE
    OBVIOUS
  <2>2. bs = <<>>
    BY <2>1, EmptySeq
  <2>3. u \o w = <<>>
    BY <2>2, FramesEmpty
  <2> QED
    BY <1>1, <1>2, <2>3, EmptySeq
<1> DEFINE rs == SubSeq(bs, 2, Len(bs))
<1>4. /\ bs[1] \in Bodies /\ rs \in Seq(Bodies) /\ <<bs[1]>> \in Seq(Bodies)
      /\ bs = <<bs[1]>> \o rs
  <2>1. 1 \in 1..Len(bs) /\ 1 + 1 = 2
    BY <1>3
  <2>2. SubSeq(bs, 1, Len(bs)) = bs
    BY SubSeqFull
  <2> QED
    BY <2>1, <2>2, Cut
<1> HIDE DEF rs
<1>5. PICK b \in Bodies : b = bs[1]
  BY <1>4
<1> DEFINE F == Frame(b)
           R == Frames(rs)
<1>6. F \in Seq(Units) /\ R \in Seq(Units) /\ u \o w = F \o R
  <2>1. Frames(bs) = Frames(<<bs[1]>>) \o Frames(rs)
    BY <1>4, FramesConcat
  <2> QED
    BY <1>4, <1>5, <2>1, FramesOne, FramesType, FrameProperties
<1>7. /\ b \in Seq(Units) /\ Len(b) \in Nat /\ Len(F) = 4 + Len(b)
      /\ Size(F) = Len(b)
      /\ \A i \in 1..Len(b) : F[4 + i] = b[i]
  BY FrameProperties DEF Prefix
<1> HIDE DEF F, R
<1>8. /\ Len(u) + Len(w) = Len(F) + Len(R)
      /\ \A i \in 1..Len(u) + Len(w) : (u \o w)[i] = IF i <= Len(F) THEN F[i] ELSE R[i - Len(F)]
  <2>1. /\ Len(F \o R) = Len(F) + Len(R)
        /\ \A i \in 1..Len(F) + Len(R) : (F \o R)[i] = IF i <= Len(F) THEN F[i] ELSE R[i - Len(F)]
    BY <1>6, ConcatProperties
  <2> QED
    BY <1>1, <1>6, <2>1
<1>9. Size(u) = Len(b)
  <2>1. \A i \in 1..4 : u[i] = F[i]
    <3>1. \A i \in 1..4 : i \in 1..Len(u) + Len(w) /\ i <= Len(u) /\ i <= Len(F)
      BY <1>2, <1>7
    <3> QED
      BY <1>1, <1>8, <3>1
  <2> QED
    BY <1>7, <2>1 DEF Size
<1>10. \A i \in 1..Len(F) : u[i] = F[i]
  <2>1. \A i \in 1..Len(F) : i \in 1..Len(u) + Len(w) /\ i <= Len(u) /\ i <= Len(F)
    BY <1>2, <1>7, <1>9
  <2> QED
    BY <1>1, <1>8, <2>1
<1>11. Body(u) = b
  <2>1. \A i \in 5..4 + Len(b) : u[i] \in Units
    BY <1>2, <1>9, ElementOfSeq
  <2>2. /\ SubSeq(u, 5, 4 + Len(b)) \in Seq(Units)
        /\ Len(SubSeq(u, 5, 4 + Len(b))) = IF 5 <= 4 + Len(b) THEN (4 + Len(b)) - 5 + 1 ELSE 0
        /\ \A i \in 1..(4 + Len(b)) - 5 + 1 : SubSeq(u, 5, 4 + Len(b))[i] = u[5 + i - 1]
    BY <1>7, <2>1, SubSeqProperties
  <2>3. Len(SubSeq(u, 5, 4 + Len(b))) = Len(b)
    BY <1>7, <2>2
  <2>4. \A i \in 1..Len(b) : SubSeq(u, 5, 4 + Len(b))[i] = b[i]
    <3>1. ASSUME NEW i \in 1..Len(b) PROVE SubSeq(u, 5, 4 + Len(b))[i] = b[i]
      <4>1. i \in 1..(4 + Len(b)) - 5 + 1 /\ 5 + i - 1 = 4 + i /\ 4 + i \in 1..Len(F)
        BY <1>7
      <4> QED
        BY <1>7, <1>10, <2>2, <4>1
    <3> QED
      BY <3>1
  <2>5. SubSeq(u, 5, 4 + Len(b)) = b
    BY <1>7, <2>2, <2>3, <2>4, SeqEqual
  <2> QED
    BY <1>9, <2>5 DEF Body, Prefix
<1> DEFINE v == SubSeq(u, 5 + Len(b), Len(u))
<1>12. v \in Seq(Units) /\ Len(v) = Len(u) - Len(F) /\ \A i \in 1..Len(v) : v[i] = u[Len(F) + i]
  <2>1. \A i \in 5 + Len(b)..Len(u) : u[i] \in Units
    BY <1>7, ElementOfSeq
  <2>2. /\ v \in Seq(Units)
        /\ Len(v) = IF 5 + Len(b) <= Len(u) THEN Len(u) - (5 + Len(b)) + 1 ELSE 0
        /\ \A i \in 1..Len(u) - (5 + Len(b)) + 1 : v[i] = u[(5 + Len(b)) + i - 1]
    BY <1>2, <1>7, <2>1, SubSeqProperties
  <2> HIDE DEF v
  <2>3. Len(v) = Len(u) - Len(F)
    BY <1>2, <1>7, <1>9, <2>2
  <2>4. ASSUME NEW i \in 1..Len(v) PROVE v[i] = u[Len(F) + i]
    <3>1. i \in 1..Len(u) - (5 + Len(b)) + 1 /\ (5 + Len(b)) + i - 1 = Len(F) + i
      BY <1>2, <1>7, <2>3
    <3> QED
      BY <2>2, <3>1
  <2> QED
    BY <2>2, <2>3, <2>4
<1>13. Rest(u) = v
  BY <1>7, <1>9 DEF Rest, Prefix
<1> HIDE DEF v
<1>14. /\ v \o w \in Seq(Units)
       /\ Len(v \o w) = Len(v) + Len(w)
       /\ \A i \in 1..Len(v) + Len(w) : (v \o w)[i] = IF i <= Len(v) THEN v[i] ELSE w[i - Len(v)]
  BY <1>12, ConcatProperties
<1>15. Len(v \o w) = Len(R) /\ Len(R) \in Nat /\ Len(F) \in Nat /\ Len(v) \in Nat
  BY <1>2, <1>6, <1>7, <1>8, <1>12, <1>14
<1>16. ASSUME NEW i \in 1..Len(v \o w) PROVE (v \o w)[i] = R[i]
  <2> DEFINE j == Len(F) + i
  <2>1. j \in 1..Len(u) + Len(w) /\ ~(j <= Len(F)) /\ j - Len(F) = i
    BY <1>2, <1>7, <1>12, <1>14, <1>15
  <2>2. (u \o w)[j] = R[i]
    BY <1>8, <2>1
  <2>3. CASE i <= Len(v)
    <3>1. (v \o w)[i] = u[j]
      BY <1>12, <1>14, <1>15, <2>3
    <3>2. j <= Len(u)
      BY <1>2, <1>12, <1>15, <2>3
    <3> HIDE DEF j
    <3> QED
      BY <1>1, <2>1, <2>2, <3>1, <3>2
  <2>4. CASE ~(i <= Len(v))
    <3>1. (v \o w)[i] = w[i - Len(v)]
      BY <1>14, <2>4
    <3>2. ~(j <= Len(u)) /\ j - Len(u) = i - Len(v)
      BY <1>2, <1>12, <1>15, <2>4
    <3> HIDE DEF j
    <3> QED
      BY <1>1, <2>1, <2>2, <3>1, <3>2
  <2> QED
    BY <2>3, <2>4
<1>17. v \o w = R
  BY <1>6, <1>14, <1>15, <1>16, SeqEqual
<1> QED
  BY <1>3, <1>5, <1>11, <1>12, <1>13, <1>17 DEF R, rs

LEMMA SizeType ==
  ASSUME NEW u \in Seq(Units), Len(u) >= 4
  PROVE  Size(u) \in Nat
<1>1. \A i \in 1..4 : u[i] \in Nat
  <2>1. \A i \in 1..4 : u[i] \in Units
    BY ElementOfSeq
  <2>2. Units \subseteq Nat
    BY BaseAssumption DEF Units
  <2> QED
    BY <2>1, <2>2
<1>2. PICK a \in Nat, b \in Nat, c \in Nat, d \in Nat :
        a = u[1] /\ b = u[2] /\ c = u[3] /\ d = u[4]
  BY <1>1
<1>3. a * Base + b \in Nat
  BY BaseAssumption
<1>4. PICK x \in Nat : x = a * Base + b
  BY <1>3
<1>5. x * Base + c \in Nat
  BY BaseAssumption
<1>6. PICK y \in Nat : y = x * Base + c
  BY <1>5
<1>7. y * Base + d \in Nat
  BY BaseAssumption
<1>8. Size(u) = y * Base + d
  BY <1>2, <1>4, <1>6 DEF Size
<1> QED
  BY <1>7, <1>8

LEMMA RestType ==
  ASSUME NEW u \in Seq(Units), Complete(u)
  PROVE  Rest(u) \in Seq(Units)
<1>1. Len(u) \in Nat /\ Len(u) >= 4
  BY DEF Complete, Prefix
<1>2. Size(u) \in Nat
  BY <1>1, SizeType
<1>3. PICK m \in Nat : m = Prefix + Size(u) + 1 /\ 1 <= m
  BY <1>2 DEF Prefix
<1>4. \A i \in m..Len(u) : u[i] \in Units
  BY <1>1, <1>3, ElementOfSeq
<1>5. SubSeq(u, m, Len(u)) \in Seq(Units)
  BY <1>1, <1>3, <1>4, SubSeqProperties
<1> QED
  BY <1>3, <1>5 DEF Rest

LEMMA Associative == \A s, t, u \in Seq(Units) : (s \o t) \o u = s \o (t \o u)
BY ConcatAssociative

\* A read moves units from the wire to the buffer.
LEMMA Reading ==
  ASSUME NEW n \in 1..ReadSize, wire \in Seq(Units), buf \in Seq(Units), Reads(n)
  PROVE  wire' \in Seq(Units) /\ Buffered(n) \in Seq(Units) /\ Buffered(n) \o wire' = buf \o wire
<1>1. ReadSize \in Nat /\ Len(wire) \in Nat /\ n \in Nat /\ 1 <= n /\ n <= Len(wire)
  BY BoundsAssumption DEF Reads
<1>2. n \in 1..Len(wire)
  BY <1>1
<1>3. PICK c \in Seq(Units), r \in Seq(Units) : c = SubSeq(wire, 1, n) /\ r = SubSeq(wire, n + 1, Len(wire))
  BY <1>2, Cut
<1>4. c \o r = wire
  <2>1. 1 \in 1..Len(wire) + 1 /\ n \in 1 - 1..Len(wire) /\ Len(wire) \in n..Len(wire)
    BY <1>1
  <2>2. SubSeq(wire, 1, n) \o SubSeq(wire, n + 1, Len(wire)) = SubSeq(wire, 1, Len(wire))
    BY <2>1, ConcatAdjacentSubSeq
  <2> QED
    BY <1>3, <2>2, SubSeqFull
<1>5. wire' = r /\ Buffered(n) = buf \o c
  BY <1>3 DEF Reads, Buffered
<1>6. buf \o c \in Seq(Units)
  BY <1>3, ConcatProperties
<1>7. (buf \o c) \o r = buf \o (c \o r)
  BY Associative, Zenon
<1> QED
  BY <1>3, <1>4, <1>5, <1>6, <1>7

(***************************************************************************)
(* Type correctness                                                        *)
(***************************************************************************)

LEMMA InitType == Init => TypeOK
<1> SUFFICES ASSUME Init PROVE TypeOK
  OBVIOUS
<1>1. <<>> \in Seq(Units) /\ <<>> \in Seq(Bodies)
  BY EmptySeq
<1>2. 0 \in 0..MaxEarly
  BY BoundsAssumption
<1> QED
  BY <1>1, <1>2 DEF Init, TypeOK

LEMMA SendType ==
  ASSUME NEW b \in Bodies, wire \in Seq(Units)
  PROVE  wire \o Frame(b) \in Seq(Units)
BY FrameProperties, ConcatProperties

LEMMA TypeStep == TypeOK /\ [Next]_vars => TypeOK'
<1> SUFFICES ASSUME TypeOK, [Next]_vars PROVE TypeOK'
  OBVIOUS
<1> USE DEF TypeOK
<1>1. ASSUME NEW b \in Bodies, SendEarly(b) PROVE TypeOK'
  BY <1>1, SendType, BoundsAssumption DEF SendEarly
<1>2. ASSUME NEW b \in Bodies, Send(b) PROVE TypeOK'
  <2>1. Append(sent, b) \in Seq(Bodies)
    BY AppendProperties
  <2> QED
    BY <1>2, <2>1, SendType DEF Send
<1>3. CASE SendHello
  BY <1>3, SendType, BodiesAssumption DEF SendHello
<1>4. CASE ServerCloses
  BY <1>4 DEF ServerCloses
<1>5. ASSUME NEW n \in 1..ReadSize, HandshakeRead(n) PROVE TypeOK'
  <2>1. wire' \in Seq(Units) /\ Buffered(n) \in Seq(Units)
    BY <1>5, Reading DEF HandshakeRead
  <2>2. Complete(Buffered(n)) => Rest(Buffered(n)) \in Seq(Units)
    BY <2>1, RestType
  <2>3. <<>> \in Seq(Units)
    BY EmptySeq
  <2> QED
    BY <1>5, <2>1, <2>2, <2>3 DEF HandshakeRead
<1>6. CASE HandshakeFails
  BY <1>6 DEF HandshakeFails
<1>7. ASSUME NEW n \in 1..ReadSize, Read(n) PROVE TypeOK'
  <2>1. wire' \in Seq(Units) /\ Buffered(n) \in Seq(Units)
    BY <1>7, Reading DEF Read
  <2> QED
    BY <1>7, <2>1 DEF Read
<1>8. CASE Dispatch
  <2>1. Rest(buf) \in Seq(Units)
    BY <1>8, RestType DEF Dispatch
  <2>2. Body(buf) \in Decodable => Append(decoded, Body(buf)) \in Seq(Bodies)
    BY BodiesAssumption, AppendProperties
  <2> QED
    BY <1>8, <2>1, <2>2 DEF Dispatch
<1>9. CASE StopExtracting
  <2>1. Complete(buf) => Rest(buf) \in Seq(Units)
    BY RestType
  <2> QED
    BY <1>9, <2>1 DEF StopExtracting
<1>10. CASE ReadEof
  BY <1>10 DEF ReadEof
<1>11. CASE StopReading
  BY <1>11 DEF StopReading
<1>12. CASE UNCHANGED vars
  BY <1>12 DEF vars
<1> QED
  BY <1>1, <1>2, <1>3, <1>4, <1>5, <1>6, <1>7, <1>8, <1>9, <1>10, <1>11, <1>12 DEF Next, ReadLoop

\* The reader's variables keep their types, whatever TWS sends and however it
\* arrives: what is decoded is always a body.
THEOREM TypeCorrect == Spec => []TypeOK
BY InitType, TypeStep, PTL DEF Spec

(***************************************************************************)
(* The handshake                                                           *)
(***************************************************************************)

\* What TWS has sent of the handshake behind what connect has taken: messages
\* other than the hello, then the hello.
HandshakeSent(e, g) == IF g THEN Append(e, Hello) ELSE e

HandshakeInv ==
  /\ phase = "handshake" =>
       /\ sent = <<>> /\ decoded = <<>>
       /\ \E e \in Seq(Bodies \ {Hello}) : /\ buf \o wire = Frames(HandshakeSent(e, greeted))
                                           /\ early = 0 => e = <<>>
  /\ phase \in {"reading", "extracting", "ended"} => greeted

FInv == TypeOK /\ HandshakeInv /\ Aligned

\* What follows on the wire, one body more.
LEMMA Sending ==
  ASSUME NEW bs \in Seq(Bodies), NEW b \in Bodies, NEW u \in Seq(Units), NEW w \in Seq(Units),
         u \o w = Frames(bs)
  PROVE  u \o (w \o Frame(b)) = Frames(Append(bs, b))
<1>1. Frame(b) \in Seq(Units) /\ <<b>> \in Seq(Bodies)
  BY FrameProperties
<1>2. (u \o w) \o Frame(b) = u \o (w \o Frame(b))
  BY <1>1, Associative
<1>3. Append(bs, b) = bs \o <<b>>
  BY AppendIsConcat
<1>4. Frames(bs \o <<b>>) = Frames(bs) \o Frames(<<b>>)
  BY <1>1, FramesConcat
<1> QED
  BY <1>2, <1>3, <1>4, FramesOne

LEMMA GreetingProperties ==
  ASSUME NEW e \in Seq(Bodies \ {Hello}), NEW g \in BOOLEAN
  PROVE  HandshakeSent(e, g) \in Seq(Bodies)
<1>1. e \in Seq(Bodies) /\ Hello \in Bodies
  BY BodiesAssumption, SeqMonotonic
<1> QED
  BY <1>1, AppendProperties DEF HandshakeSent

\* The first message of a greeting is the hello and the last one, or is not the
\* hello and leaves a greeting.
LEMMA GreetingFirst ==
  ASSUME NEW e \in Seq(Bodies \ {Hello}), NEW g \in BOOLEAN, NEW bs,
         bs = HandshakeSent(e, g), 1 <= Len(bs)
  PROVE  /\ bs[1] = Hello => g /\ SubSeq(bs, 2, Len(bs)) = <<>>
         /\ bs[1] # Hello => \E d \in Seq(Bodies \ {Hello}) : SubSeq(bs, 2, Len(bs)) = HandshakeSent(d, g)
<1>1. e \in Seq(Bodies) /\ Hello \in Bodies /\ Len(e) \in Nat
  BY BodiesAssumption, SeqMonotonic
<1>2. /\ Len(Append(e, Hello)) = Len(e) + 1
      /\ \A i \in 1..Len(e) : Append(e, Hello)[i] = e[i]
      /\ Append(e, Hello)[Len(e) + 1] = Hello
  BY <1>1, AppendProperties
<1>3. CASE Len(e) = 0
  <2>1. g
    BY <1>1, <1>3 DEF HandshakeSent
  <2>2. bs[1] = Hello /\ Len(bs) = 1
    BY <1>2, <1>3, <2>1 DEF HandshakeSent
  <2>3. SubSeq(bs, 2, 1) = <<>>
    BY SubSeqEmpty
  <2> QED
    BY <2>1, <2>2, <2>3
<1>4. CASE Len(e) # 0
  <2>1. 1 \in 1..Len(e) /\ 1 \in 0..Len(e) /\ 1 + 1 = 2
    BY <1>1, <1>4
  <2>2. bs[1] = e[1]
    BY <1>2, <2>1 DEF HandshakeSent
  <2>3. e[1] # Hello
    BY <2>1, ElementOfSeq
  <2> DEFINE d == SubSeq(e, 2, Len(e))
  <2>4. d \in Seq(Bodies \ {Hello})
    BY <2>1, Cut
  <2>5. d \in Seq(Bodies)
    BY <1>1, <2>1, Cut
  <2>6. SubSeq(Append(e, Hello), 2, Len(e) + 1) = d \o <<Hello>>
    BY <1>1, <2>1, CutAppend
  <2> HIDE DEF d
  <2>7. d \o <<Hello>> = Append(d, Hello)
    BY <1>1, <2>5, AppendIsConcat
  <2>8. SubSeq(bs, 2, Len(bs)) = HandshakeSent(d, g)
    <3>1. CASE g
      BY <3>1, <1>2, <2>6, <2>7 DEF HandshakeSent
    <3>2. CASE ~g
      BY <3>2 DEF HandshakeSent, d
    <3> QED
      BY <3>1, <3>2
  <2> QED
    BY <2>2, <2>3, <2>4, <2>8
<1> QED
  BY <1>3, <1>4

LEMMA InitHandshake == Init => FInv
<1> SUFFICES ASSUME Init PROVE FInv
  OBVIOUS
<1>1. <<>> \in Seq(Bodies \ {Hello}) /\ <<>> \in Seq(Units)
  BY EmptySeq
<1>2. buf \o wire = Frames(HandshakeSent(<<>>, greeted))
  <2>1. <<>> \o <<>> = <<>>
    BY <1>1, ConcatEmptySeq
  <2> QED
    BY <2>1, FramesEmpty DEF Init, HandshakeSent
<1>3. HandshakeInv
  BY <1>1, <1>2 DEF Init, HandshakeInv
<1> QED
  BY <1>3, InitType DEF Init, FInv, Aligned

\* When no other message was sent, a whole message in the buffer is the hello.
LEMMA HelloFirst ==
  ASSUME NEW u \in Seq(Units), NEW w \in Seq(Units), NEW g \in BOOLEAN,
         u \o w = Frames(HandshakeSent(<<>>, g)), Complete(u)
  PROVE  Body(u) = Hello /\ Hello # <<>>
<1>1. /\ <<>> \in Seq(Bodies \ {Hello}) /\ <<>> \in Seq(Bodies)
      /\ Hello \in Bodies /\ Hello # <<>>
  BY EmptySeq, BodiesAssumption
<1>2. PICK bs \in Seq(Bodies) : bs = HandshakeSent(<<>>, g)
  BY <1>1, GreetingProperties
<1>3. 1 <= Len(bs) /\ Body(u) = bs[1]
  BY <1>2, Taking
<1>4. CASE g
  <2>1. bs = Append(<<>>, Hello)
    BY <1>2, <1>4 DEF HandshakeSent
  <2>2. bs[1] = Hello
    BY <2>1
  <2> QED
    BY <1>1, <1>3, <2>2
<1>5. CASE ~g
  <2>1. Len(bs) = 0
    BY <1>2, <1>5, EmptySeq DEF HandshakeSent
  <2> QED
    BY <1>3, <2>1
<1> QED
  BY <1>4, <1>5

\* A message taken by connect.
LEMMA HandshakeReading ==
  ASSUME TypeOK, HandshakeInv, NEW n \in 1..ReadSize, HandshakeRead(n)
  PROVE  /\ sent' = <<>> /\ decoded' = <<>> /\ greeted' = greeted
         /\ phase' = "handshake" =>
              /\ \E e \in Seq(Bodies \ {Hello}) :
                   /\ buf' \o wire' = Frames(HandshakeSent(e, greeted'))
                   /\ early' = 0 => e = <<>>
              /\ early' = 0 => ~Complete(buf')
         /\ phase' = "reading" => greeted' /\ buf' = <<>> /\ wire' = <<>>
         /\ phase' \in {"handshake", "reading"}
<1> DEFINE raw == Buffered(n)
<1>1. wire' \in Seq(Units) /\ raw \in Seq(Units) /\ raw \o wire' = buf \o wire
  BY Reading DEF HandshakeRead, TypeOK
<1>2. /\ sent = <<>> /\ decoded = <<>> /\ phase = "handshake"
      /\ sent' = sent /\ decoded' = decoded /\ greeted' = greeted /\ early' = early
  BY DEF HandshakeRead, HandshakeInv
<1>3. PICK e \in Seq(Bodies \ {Hello}) : /\ buf \o wire = Frames(HandshakeSent(e, greeted))
                                         /\ early = 0 => e = <<>>
  BY <1>2 DEF HandshakeInv
<1>4. PICK u \in Seq(Units), w \in Seq(Units), g \in BOOLEAN : u = raw /\ w = wire' /\ g = greeted
  BY <1>1 DEF TypeOK
<1>5. /\ \/ ~(Complete(u) /\ Body(u) # <<>>) /\ buf' = u /\ phase' = phase
         \/ Complete(u) /\ Body(u) # Hello /\ buf' = Rest(u) /\ phase' = phase
         \/ Complete(u) /\ Body(u) = Hello /\ buf' = <<>> /\ phase' = "reading"
  BY <1>4 DEF HandshakeRead
<1> HIDE DEF raw
<1>6. PICK bs \in Seq(Bodies) : bs = HandshakeSent(e, g)
  BY GreetingProperties
<1>7. u \o w = Frames(bs)
  BY <1>1, <1>3, <1>4, <1>6
<1>8. ASSUME Complete(u), early = 0 PROVE Body(u) = Hello /\ Hello # <<>>
  <2>1. bs = HandshakeSent(<<>>, g)
    BY <1>3, <1>6, <1>8
  <2>2. g = greeted /\ u \o w = Frames(bs)
    BY <1>4, <1>7
  <2> QED
    BY <1>8, <2>1, <2>2, HelloFirst
<1>9. CASE ~(Complete(u) /\ Body(u) # <<>>) /\ buf' = u /\ phase' = phase
  <2>1. buf' \o wire' = Frames(HandshakeSent(e, greeted'))
    BY <1>2, <1>4, <1>6, <1>7, <1>9
  <2>2. early' = 0 => e = <<>> /\ ~Complete(buf')
    <3>1. Complete(buf') <=> Complete(u)
      BY <1>9 DEF Complete, Size
    <3> QED
      BY <1>2, <1>3, <1>8, <1>9, <3>1
  <2> QED
    BY <1>2, <1>9, <2>1, <2>2
<1>10. CASE Complete(u) /\ Body(u) # Hello /\ buf' = Rest(u) /\ phase' = phase
  <2>1. /\ 1 <= Len(bs) /\ Body(u) = bs[1]
        /\ Rest(u) \o w = Frames(SubSeq(bs, 2, Len(bs)))
    BY <1>7, <1>10, Taking
  <2>2. \E d \in Seq(Bodies \ {Hello}) : SubSeq(bs, 2, Len(bs)) = HandshakeSent(d, g)
    BY <1>6, <1>10, <2>1, GreetingFirst
  <2>3. \E d \in Seq(Bodies \ {Hello}) : buf' \o wire' = Frames(HandshakeSent(d, greeted'))
    BY <1>2, <1>4, <1>10, <2>1, <2>2
  <2>4. early' # 0
    BY <1>2, <1>8, <1>10
  <2> QED
    BY <1>2, <1>10, <2>3, <2>4
<1>11. CASE Complete(u) /\ Body(u) = Hello /\ buf' = <<>> /\ phase' = "reading"
  <2>1. /\ 1 <= Len(bs) /\ Body(u) = bs[1] /\ Rest(u) \in Seq(Units)
        /\ Rest(u) \o w = Frames(SubSeq(bs, 2, Len(bs)))
    BY <1>7, <1>11, Taking
  <2>2. g /\ SubSeq(bs, 2, Len(bs)) = <<>>
    BY <1>6, <1>11, <2>1, GreetingFirst
  <2>3. Rest(u) \o w = <<>>
    BY <2>1, <2>2, FramesEmpty
  <2>4. w = <<>>
    BY <2>1, <2>3, ConcatEqualIffEmpty
  <2> QED
    BY <1>2, <1>4, <1>11, <2>2, <2>4
<1> QED
  BY <1>5, <1>9, <1>10, <1>11

(***************************************************************************)
(* Alignment                                                               *)
(***************************************************************************)

\* The buffer and the wire hold what follows the first i bodies, and the decoder
\* has what came before.
AlignedAt(i) ==
  /\ buf \o wire = Frames(SubSeq(sent, i + 1, Len(sent)))
  /\ decoded = ToDeliver(SubSeq(sent, 1, i))

\* A message taken by the read loop is the next body sent.
LEMMA TakingNext ==
  ASSUME TypeOK, NEW i \in 0..Len(sent), AlignedAt(i), Complete(buf)
  PROVE  /\ i + 1 \in 1..Len(sent)
         /\ Body(buf) = sent[i + 1] /\ sent[i + 1] \in Bodies
         /\ Rest(buf) \o wire = Frames(SubSeq(sent, (i + 1) + 1, Len(sent)))
         /\ ToDeliver(SubSeq(sent, 1, i + 1)) =
              decoded \o IF Deliverable(sent[i + 1]) THEN <<sent[i + 1]>> ELSE <<>>
<1>1. PICK s \in Seq(Bodies), u \in Seq(Units), w \in Seq(Units) : s = sent /\ u = buf /\ w = wire
  BY DEF TypeOK
<1>2. Len(s) \in Nat /\ i \in Nat /\ i <= Len(s)
  BY <1>1
<1>3. PICK bs \in Seq(Bodies) : bs = SubSeq(s, i + 1, Len(s))
  <2>1. CASE i = Len(s)
    <3>1. SubSeq(s, i + 1, Len(s)) = <<>>
      BY <1>2, <2>1, SubSeqEmpty
    <3> QED
      BY <3>1, EmptySeq
  <2>2. CASE i # Len(s)
    <3>1. i + 1 \in 1..Len(s)
      BY <1>2, <2>2
    <3> QED
      BY <3>1, Cut
  <2> QED
    BY <2>1, <2>2
<1>4. u \o w = Frames(bs) /\ Complete(u)
  BY <1>1, <1>3 DEF AlignedAt
<1>5. /\ Len(bs) \in Nat /\ 1 <= Len(bs) /\ Body(u) = bs[1]
      /\ Rest(u) \o w = Frames(SubSeq(bs, 2, Len(bs)))
  BY <1>4, Taking
<1>6. i + 1 \in 1..Len(s)
  <2>1. CASE i = Len(s)
    <3>1. SubSeq(s, i + 1, Len(s)) = <<>>
      BY <1>2, <2>1, SubSeqEmpty
    <3> QED
      BY <1>3, <1>5, <3>1, EmptySeq
  <2> QED
    BY <1>2, <2>1
<1>7. /\ SubSeq(s, (i + 1) + 1, Len(s)) \in Seq(Bodies) /\ s[i + 1] \in Bodies
      /\ bs = <<s[i + 1]>> \o SubSeq(s, (i + 1) + 1, Len(s))
      /\ SubSeq(s, 1, (i + 1) - 1) \in Seq(Bodies)
      /\ SubSeq(s, 1, i + 1) = SubSeq(s, 1, (i + 1) - 1) \o <<s[i + 1]>>
  BY <1>3, <1>6, Cut
<1>8. bs[1] = s[i + 1] /\ SubSeq(bs, 2, Len(bs)) = SubSeq(s, (i + 1) + 1, Len(s))
  <2>1. i + 1 \in 1..Len(s) /\ Len(s) \in i + 1..Len(s)
    BY <1>2, <1>6
  <2>2. Head(bs) = s[i + 1] /\ Tail(bs) = SubSeq(s, (i + 1) + 1, Len(s))
    BY <1>3, <2>1, HeadTailOfSubSeq
  <2>3. bs # <<>>
    BY <1>5, EmptySeq
  <2> QED
    BY <2>2, <2>3, TailIsSubSeq
<1>9. ToDeliver(SubSeq(s, 1, i + 1)) =
        decoded \o IF Deliverable(s[i + 1]) THEN <<s[i + 1]>> ELSE <<>>
  <2>1. PICK c \in Seq(Bodies), b \in Bodies : c = SubSeq(s, 1, i) /\ b = s[i + 1]
    <3>1. (i + 1) - 1 = i
      BY <1>2
    <3> QED
      BY <1>7, <3>1
  <2>2. <<b>> \in Seq(Bodies)
    OBVIOUS
  <2>3. ToDeliver(c \o <<b>>) = ToDeliver(c) \o ToDeliver(<<b>>)
    BY <2>2, FramesConcat
  <2>4. SubSeq(s, 1, i + 1) = c \o <<b>> /\ decoded = ToDeliver(c)
    BY <1>1, <1>2, <1>7, <2>1 DEF AlignedAt
  <2> QED
    BY <2>1, <2>3, <2>4, FramesOne
<1> QED
  BY <1>1, <1>5, <1>6, <1>7, <1>8, <1>9

LEMMA HandshakeStep == FInv /\ [Next]_vars => HandshakeInv'
<1> SUFFICES ASSUME FInv, [Next]_vars PROVE HandshakeInv'
  OBVIOUS
<1>1. TypeOK /\ HandshakeInv /\ TypeOK'
  BY TypeStep DEF FInv
<1>2. ASSUME NEW b \in Bodies, SendEarly(b) PROVE HandshakeInv'
  <2>1. SUFFICES ASSUME phase = "handshake"
                 PROVE  \E e \in Seq(Bodies \ {Hello}) : buf \o wire' = Frames(HandshakeSent(e, greeted))
    <3>1. early' # 0
      BY <1>1, <1>2 DEF SendEarly, TypeOK
    <3> QED
      BY <1>1, <1>2, <2>1, <3>1 DEF SendEarly, HandshakeInv
  <2>2. PICK e \in Seq(Bodies \ {Hello}) : buf \o wire = Frames(HandshakeSent(e, greeted))
    BY <1>1, <2>1 DEF HandshakeInv
  <2>3. PICK u \in Seq(Units), w \in Seq(Units) : u = buf /\ w = wire
    BY <1>1 DEF TypeOK
  <2>4. ~greeted /\ b # Hello /\ wire' = w \o Frame(b)
    BY <1>2, <2>3 DEF SendEarly
  <2>5. e \in Seq(Bodies) /\ Append(e, b) \in Seq(Bodies \ {Hello})
    BY <2>4, SeqMonotonic, AppendProperties
  <2>6. u \o w = Frames(e)
    BY <2>2, <2>3, <2>4 DEF HandshakeSent
  <2>7. u \o (w \o Frame(b)) = Frames(Append(e, b))
    BY <2>5, <2>6, Sending
  <2> QED
    BY <2>3, <2>4, <2>5, <2>7 DEF HandshakeSent
<1>3. CASE SendHello
  <2>1. SUFFICES ASSUME phase = "handshake"
                 PROVE  \E e \in Seq(Bodies \ {Hello}) :
                          /\ buf \o wire' = Frames(Append(e, Hello))
                          /\ early = 0 => e = <<>>
    BY <1>1, <1>3, <2>1 DEF SendHello, HandshakeInv, HandshakeSent
  <2>2. PICK e \in Seq(Bodies \ {Hello}) : /\ buf \o wire = Frames(HandshakeSent(e, greeted))
                                           /\ early = 0 => e = <<>>
    BY <1>1, <2>1 DEF HandshakeInv
  <2>3. PICK u \in Seq(Units), w \in Seq(Units) : u = buf /\ w = wire
    BY <1>1 DEF TypeOK
  <2>4. ~greeted /\ wire' = w \o Frame(Hello) /\ Hello \in Bodies
    BY <1>3, <2>3, BodiesAssumption DEF SendHello
  <2>5. e \in Seq(Bodies)
    BY SeqMonotonic
  <2>6. u \o w = Frames(e)
    BY <2>2, <2>3, <2>4 DEF HandshakeSent
  <2>7. u \o (w \o Frame(Hello)) = Frames(Append(e, Hello))
    BY <2>4, <2>5, <2>6, Sending
  <2> QED
    BY <2>2, <2>3, <2>4, <2>7
<1>4. ASSUME NEW n \in 1..ReadSize, HandshakeRead(n) PROVE HandshakeInv'
  BY <1>1, <1>4, HandshakeReading DEF HandshakeInv
<1>5. CASE /\ phase' # "handshake"
           /\ phase' \in {"reading", "extracting", "ended"} => phase \in {"reading", "extracting", "ended"}
           /\ greeted' = greeted
  BY <1>1, <1>5 DEF HandshakeInv
<1>6. CASE UNCHANGED <<phase, wire, buf, greeted, early, sent, decoded>>
  BY <1>1, <1>6 DEF HandshakeInv, HandshakeSent
<1> QED
  BY <1>2, <1>3, <1>4, <1>5, <1>6
     DEF Next, ReadLoop, Send, ServerCloses, HandshakeFails, Read, Dispatch, StopExtracting, ReadEof,
         StopReading, vars

LEMMA CutSent ==
  ASSUME NEW s \in Seq(Bodies), NEW b \in Bodies, NEW i \in 0..Len(s)
  PROVE  /\ SubSeq(s, i + 1, Len(s)) \in Seq(Bodies)
         /\ SubSeq(Append(s, b), i + 1, Len(s) + 1) = SubSeq(s, i + 1, Len(s)) \o <<b>>
         /\ SubSeq(Append(s, b), 1, i) = SubSeq(s, 1, i)
BY CutAppend, Zenon

LEMMA AlignedStep == FInv /\ [Next]_vars => Aligned'
<1> SUFFICES ASSUME FInv, [Next]_vars, phase' \in {"reading", "extracting", "ended"}
             PROVE  \E i \in 0..Len(sent') : AlignedAt(i)'
  BY DEF Aligned, AlignedAt
<1>1. TypeOK /\ HandshakeInv /\ Len(sent) \in Nat
  BY DEF FInv, TypeOK
<1>2. phase \in {"reading", "extracting", "ended"} => \E i \in 0..Len(sent) : AlignedAt(i)
  BY DEF FInv, Aligned, AlignedAt
<1>3. ASSUME phase \in {"reading", "extracting", "ended"}, buf' \o wire' = buf \o wire,
             UNCHANGED <<sent, decoded>>
      PROVE  \E i \in 0..Len(sent') : AlignedAt(i)'
  BY <1>2, <1>3 DEF AlignedAt
<1>4. ASSUME NEW n \in 1..ReadSize, HandshakeRead(n)
      PROVE  \E i \in 0..Len(sent') : AlignedAt(i)'
  <2>1. sent' = <<>> /\ decoded' = <<>> /\ buf' = <<>> /\ wire' = <<>>
    BY <1>1, <1>4, HandshakeReading
  <2>2. <<>> \o <<>> = <<>> /\ Len(<<>>) = 0
    BY EmptySeq, ConcatEmptySeq
  <2>3. SubSeq(<<>>, 1, 0) = <<>> /\ SubSeq(<<>>, 0 + 1, 0) = <<>>
    BY SubSeqEmpty
  <2>4. AlignedAt(0)'
    BY <2>1, <2>2, <2>3, FramesEmpty DEF AlignedAt
  <2> QED
    BY <2>1, <2>2, <2>4
<1>5. ASSUME NEW b \in Bodies, Send(b)
      PROVE  \E i \in 0..Len(sent') : AlignedAt(i)'
  <2>1. phase \in {"reading", "extracting", "ended"}
    BY <1>5 DEF Send
  <2>2. PICK i \in 0..Len(sent) : AlignedAt(i)
    BY <1>2, <2>1
  <2>3. PICK s \in Seq(Bodies), u \in Seq(Units), w \in Seq(Units) : s = sent /\ u = buf /\ w = wire
    BY <1>1 DEF TypeOK
  <2>4. /\ sent' = Append(s, b) /\ wire' = w \o Frame(b) /\ buf' = u /\ decoded' = decoded
        /\ Len(sent') = Len(s) + 1
    <3>1. Len(Append(s, b)) = Len(s) + 1
      BY AppendProperties
    <3> QED
      BY <1>5, <2>3, <3>1 DEF Send
  <2>5. i \in 0..Len(s)
    BY <2>3
  <2>6. /\ SubSeq(s, i + 1, Len(s)) \in Seq(Bodies)
        /\ SubSeq(Append(s, b), i + 1, Len(s) + 1) = SubSeq(s, i + 1, Len(s)) \o <<b>>
        /\ SubSeq(Append(s, b), 1, i) = SubSeq(s, 1, i)
    BY <2>5, CutSent
  <2>7. PICK bs \in Seq(Bodies) : bs = SubSeq(s, i + 1, Len(s))
    BY <2>6
  <2>8. u \o w = Frames(bs)
    BY <2>2, <2>3, <2>7 DEF AlignedAt
  <2>9. u \o (w \o Frame(b)) = Frames(Append(bs, b))
    BY <2>8, Sending
  <2>10. Append(bs, b) = bs \o <<b>>
    BY AppendIsConcat
  <2>11. AlignedAt(i)'
    BY <2>2, <2>3, <2>4, <2>6, <2>7, <2>9, <2>10 DEF AlignedAt
  <2>12. i \in 0..Len(sent')
    BY <2>3, <2>4, <1>1
  <2> QED
    BY <2>11, <2>12
<1>6. ASSUME NEW n \in 1..ReadSize, Read(n)
      PROVE  \E i \in 0..Len(sent') : AlignedAt(i)'
  <2>1. Buffered(n) \o wire' = buf \o wire
    BY <1>1, <1>6, Reading DEF Read, TypeOK
  <2> QED
    BY <1>3, <1>6, <2>1 DEF Read
<1>7. ASSUME NEW i \in 0..Len(sent), AlignedAt(i), Complete(buf), buf' = Rest(buf),
             UNCHANGED <<wire, sent>>,
             decoded' = decoded \o IF Deliverable(Body(buf)) THEN <<Body(buf)>> ELSE <<>>
      PROVE  \E k \in 0..Len(sent') : AlignedAt(k)'
  <2>1. /\ i + 1 \in 1..Len(sent)
        /\ Body(buf) = sent[i + 1]
        /\ Rest(buf) \o wire = Frames(SubSeq(sent, (i + 1) + 1, Len(sent)))
        /\ ToDeliver(SubSeq(sent, 1, i + 1)) =
             decoded \o IF Deliverable(sent[i + 1]) THEN <<sent[i + 1]>> ELSE <<>>
    BY <1>1, <1>7, TakingNext
  <2>2. AlignedAt(i + 1)'
    BY <1>7, <2>1 DEF AlignedAt
  <2> QED
    BY <1>1, <1>7, <2>1, <2>2
<1>8. CASE Dispatch
  <2>1. PICK i \in 0..Len(sent) : AlignedAt(i)
    BY <1>2, <1>8 DEF Dispatch
  <2>2. Deliverable(Body(buf)) <=> Len(Body(buf)) <= MaxMsgLen /\ Body(buf) \in Decodable
    <3>1. Body(buf) \in Bodies
      BY <1>1, <1>8, <2>1, TakingNext DEF Dispatch
    <3>2. Len(Body(buf)) \in Nat /\ Len(Body(buf)) # 0
      BY <1>8, <3>1, EmptySeq, FrameProperties DEF Dispatch
    <3> QED
      BY <3>2, BoundsAssumption DEF Deliverable
  <2>3. decoded' = decoded \o IF Deliverable(Body(buf)) THEN <<Body(buf)>> ELSE <<>>
    <3>1. decoded \o <<>> = decoded
      BY <1>1, ConcatEmptySeq DEF TypeOK
    <3>2. Deliverable(Body(buf)) => Append(decoded, Body(buf)) = decoded \o <<Body(buf)>>
      BY <1>1, <2>2, BodiesAssumption, AppendIsConcat DEF TypeOK
    <3> QED
      BY <1>8, <2>2, <3>1, <3>2 DEF Dispatch
  <2> QED
    BY <1>7, <1>8, <2>1, <2>3 DEF Dispatch
<1>9. CASE StopExtracting
  <2>1. phase = "extracting" /\ UNCHANGED <<wire, sent, decoded>>
    BY <1>9 DEF StopExtracting
  <2>2. CASE buf' = buf
    BY <1>3, <2>1, <2>2
  <2>3. CASE Complete(buf) /\ Body(buf) = <<>> /\ buf' = Rest(buf)
    <3>1. PICK i \in 0..Len(sent) : AlignedAt(i)
      BY <1>2, <2>1
    <3>2. ~Deliverable(Body(buf))
      BY <2>3, EmptySeq DEF Deliverable
    <3>3. decoded \o <<>> = decoded
      BY <1>1, ConcatEmptySeq DEF TypeOK
    <3>4. decoded' = decoded \o IF Deliverable(Body(buf)) THEN <<Body(buf)>> ELSE <<>>
      BY <2>1, <3>2, <3>3
    <3> QED
      BY <1>7, <2>1, <2>3, <3>1, <3>4
  <2> QED
    BY <1>9, <2>2, <2>3 DEF StopExtracting
<1>10. ASSUME NEW b \in Bodies, SendEarly(b)
       PROVE  \E i \in 0..Len(sent') : AlignedAt(i)'
  BY <1>1, <1>10 DEF SendEarly, HandshakeInv
<1>11. CASE SendHello
  BY <1>1, <1>11 DEF SendHello, HandshakeInv
<1>12. CASE ServerCloses \/ ReadEof \/ StopReading \/ UNCHANGED vars
  BY <1>3, <1>12 DEF ServerCloses, ReadEof, StopReading, vars
<1>13. CASE HandshakeFails
  BY <1>13 DEF HandshakeFails
<1> QED
  BY <1>4, <1>5, <1>6, <1>8, <1>9, <1>10, <1>11, <1>12, <1>13 DEF Next, ReadLoop

LEMMA FInvariance == Spec => []FInv
<1>1. FInv /\ [Next]_vars => FInv'
  BY TypeStep, HandshakeStep, AlignedStep DEF FInv
<1> QED
  BY <1>1, InitHandshake, PTL DEF Spec

\* However the network cuts the stream, the buffer begins where a message begins,
\* no unit is lost or taken twice, and the decoder has had exactly the messages
\* before it that can be decoded, in order.
THEOREM StreamStaysAligned == Spec => []Aligned
<1>1. FInv => Aligned
  BY DEF FInv
<1> QED
  BY <1>1, FInvariance, PTL

(***************************************************************************)
(* Promptness                                                              *)
(***************************************************************************)

LEMMA PromptStep == FInv /\ Prompt /\ [Next]_vars => Prompt'
<1> SUFFICES ASSUME FInv, Prompt, [Next]_vars PROVE Prompt'
  OBVIOUS
<1>1. TypeOK /\ HandshakeInv /\ TypeOK'
  BY TypeStep DEF FInv
<1>2. ASSUME phase' = "reading", Complete(buf)', ~stalled' PROVE FALSE
  <2>1. CASE phase = "reading" /\ buf' = buf /\ stalled' = stalled
    BY <1>2, <2>1 DEF Prompt, Complete, Size
  <2>2. ASSUME NEW n \in 1..ReadSize, HandshakeRead(n) PROVE FALSE
    <3>1. buf' = <<>>
      BY <1>2, <2>2 DEF HandshakeRead
    <3>2. Len(buf') = 0
      BY <3>1, EmptySeq
    <3> QED
      BY <1>2, <3>2 DEF Complete, Prefix
  <2>3. CASE StopExtracting
    <3>1. Complete(buf)' = Complete(buf) \/ stalled'
      BY <2>3 DEF StopExtracting, Complete, Size
    <3> QED
      BY <1>2, <2>3, <3>1 DEF StopExtracting, Complete, Size
  <2>4. (phase = "reading" /\ buf' = buf /\ stalled' = stalled) \/ StopExtracting
          \/ \E n \in 1..ReadSize : HandshakeRead(n)
    BY <1>2 DEF Next, ReadLoop, SendEarly, Send, SendHello, ServerCloses, HandshakeFails, Read,
                Dispatch, ReadEof, StopReading, vars
  <2> QED
    BY <2>1, <2>2, <2>3, <2>4
<1>3. ASSUME phase' = "handshake", Complete(buf)', early' = 0 PROVE FALSE
  <2>1. CASE phase = "handshake" /\ buf' = buf /\ early = 0
    BY <1>3, <2>1 DEF Prompt, Complete, Size
  <2>2. ASSUME NEW n \in 1..ReadSize, HandshakeRead(n) PROVE FALSE
    BY <1>1, <1>3, <2>2, HandshakeReading
  <2>3. ASSUME NEW b \in Bodies, SendEarly(b) PROVE FALSE
    BY <1>1, <1>3, <2>3 DEF SendEarly, TypeOK
  <2>4. (phase = "handshake" /\ buf' = buf /\ early = 0)
          \/ (\E n \in 1..ReadSize : HandshakeRead(n)) \/ \E b \in Bodies : SendEarly(b)
    BY <1>3 DEF Next, ReadLoop, Send, SendHello, ServerCloses, HandshakeFails, Read, Dispatch,
                StopExtracting, ReadEof, StopReading, vars
  <2> QED
    BY <2>1, <2>2, <2>3, <2>4
<1>4. early' \in Nat /\ (early' # 0 => early' > 0)
  BY <1>1, BoundsAssumption DEF TypeOK
<1> QED
  BY <1>1, <1>2, <1>3, <1>4 DEF Prompt, TypeOK

\* The loop never waits for the network with a whole message in its buffer,
\* except behind an empty one; connect does not with its hello, unless another
\* message came first.
THEOREM ReadsPromptly == Spec => []Prompt
<1>1. Init => Prompt
  BY DEF Init, Prompt, Complete, Prefix
<1> QED
  BY <1>1, PromptStep, FInvariance, PTL DEF Spec

(***************************************************************************)
(* The channel                                                             *)
(***************************************************************************)

LEMMA SendImplements ==
  ASSUME TypeOK, NEW b \in Bodies, Send(b)
  PROVE  [Channel!Next]_(Channel!vars)
<1>1. PICK s \in Seq(Bodies) : s = sent
  BY DEF TypeOK
<1>2. sent' = Append(s, b) /\ decoded' = decoded
  BY <1>1 DEF Send
<1>3. PICK t \in Seq(Messages) : t = ToDeliver(s)
  BY FramesType
<1>4. ToDeliver(Append(s, b)) = t \o IF Deliverable(b) THEN <<b>> ELSE <<>>
  <2>1. Append(s, b) = s \o <<b>> /\ <<b>> \in Seq(Bodies)
    BY AppendIsConcat
  <2>2. ToDeliver(s \o <<b>>) = ToDeliver(s) \o ToDeliver(<<b>>)
    BY <2>1, FramesConcat
  <2> QED
    BY <1>3, <2>1, <2>2, FramesOne
<1>5. CASE Deliverable(b)
  <2>1. b \in Messages
    BY <1>5 DEF Messages
  <2>2. Append(t, b) = t \o <<b>>
    BY <2>1, AppendIsConcat
  <2>3. ToDeliver(sent)' = Append(ToDeliver(sent), b)
    BY <1>1, <1>2, <1>3, <1>4, <1>5, <2>2
  <2> QED
    BY <1>2, <2>1, <2>3 DEF Channel!Next, Channel!Send, Messages
<1>6. CASE ~Deliverable(b)
  <2>1. t \o <<>> = t
    BY ConcatEmptySeq
  <2>2. ToDeliver(sent)' = ToDeliver(sent)
    BY <1>1, <1>2, <1>3, <1>4, <1>6, <2>1
  <2> QED
    BY <1>2, <2>2 DEF Channel!vars
<1> QED
  BY <1>5, <1>6

LEMMA DispatchImplements ==
  ASSUME FInv, Dispatch
  PROVE  [Channel!Next]_(Channel!vars)
<1>1. TypeOK /\ \E i \in 0..Len(sent) : AlignedAt(i)
  BY DEF FInv, Aligned, AlignedAt, Dispatch
<1>2. PICK i \in 0..Len(sent) : AlignedAt(i)
  BY <1>1
<1>3. Complete(buf) /\ sent' = sent
  BY DEF Dispatch
<1>4. /\ i + 1 \in 1..Len(sent)
      /\ Body(buf) = sent[i + 1] /\ sent[i + 1] \in Bodies
      /\ ToDeliver(SubSeq(sent, 1, i + 1)) =
           decoded \o IF Deliverable(sent[i + 1]) THEN <<sent[i + 1]>> ELSE <<>>
  BY <1>1, <1>2, <1>3, TakingNext
<1>5. CASE decoded' = decoded
  BY <1>3, <1>5 DEF Channel!vars
<1>6. CASE decoded' # decoded
  <2>1. PICK s \in Seq(Bodies), d \in Seq(Bodies), b \in Bodies :
          s = sent /\ d = decoded /\ b = sent[i + 1]
    BY <1>1, <1>4 DEF TypeOK
  <2>2. Deliverable(b) /\ decoded' = Append(d, b)
    <3>1. Len(b) \in Nat /\ Len(b) # 0
      BY <1>4, <2>1, EmptySeq, FrameProperties DEF Dispatch
    <3> QED
      BY <1>4, <1>6, <2>1, <3>1, BoundsAssumption DEF Dispatch, Deliverable
  <2>3. PICK c \in Seq(Bodies), r \in Seq(Bodies) :
          /\ c = SubSeq(s, 1, i + 1) /\ r = SubSeq(s, (i + 1) + 1, Len(s))
    BY <1>4, <2>1, Cut
  <2>4. c \o r = s
    <3>1. /\ 1 \in 1..Len(s) + 1 /\ i + 1 \in 1 - 1..Len(s) /\ Len(s) \in i + 1..Len(s)
      BY <1>4, <2>1
    <3>2. SubSeq(s, 1, i + 1) \o SubSeq(s, (i + 1) + 1, Len(s)) = SubSeq(s, 1, Len(s))
      BY <3>1, ConcatAdjacentSubSeq
    <3> QED
      BY <2>3, <3>2, SubSeqFull
  <2>5. ToDeliver(s) = ToDeliver(c) \o ToDeliver(r)
    BY <2>4, FramesConcat
  <2>6. ToDeliver(c) = Append(d, b)
    <3>1. ToDeliver(c) = d \o <<b>>
      BY <1>4, <2>1, <2>2, <2>3
    <3> QED
      BY <3>1, AppendIsConcat
  <2>7. PICK t \in Seq(Bodies), q \in Seq(Bodies) : t = ToDeliver(c) /\ q = ToDeliver(r)
    <3>1. Messages \subseteq Bodies
      BY DEF Messages
    <3> QED
      BY <3>1, FramesType, SeqMonotonic
  <2>8. Len(t) = Len(d) + 1 /\ t[Len(d) + 1] = b /\ Len(d) \in Nat
    BY <2>6, <2>7, AppendProperties
  <2>9. /\ Len(t \o q) = Len(t) + Len(q) /\ Len(q) \in Nat
        /\ \A k \in 1..Len(t) + Len(q) : (t \o q)[k] = IF k <= Len(t) THEN t[k] ELSE q[k - Len(t)]
    BY ConcatProperties
  <2>10. Len(d) < Len(t \o q) /\ (t \o q)[Len(d) + 1] = b
    BY <2>8, <2>9
  <2>11. ToDeliver(sent) = t \o q /\ ToDeliver(sent)' = ToDeliver(sent)
    BY <1>3, <2>1, <2>5, <2>7
  <2>12. Channel!Decode
    BY <2>1, <2>2, <2>10, <2>11 DEF Channel!Decode
  <2> QED
    BY <2>12 DEF Channel!Next
<1> QED
  BY <1>5, <1>6

\* The reader implements a channel of messages: each decodable message TWS sends
\* reaches the decoder once, whole and in order, and nothing else does.
THEOREM ReaderImplementsChannel == Spec => ImplementsChannel
<1>1. Init => Channel!Init
  BY FramesEmpty DEF Init, Channel!Init
<1>2. FInv /\ [Next]_vars => [Channel!Next]_(Channel!vars)
  <2> SUFFICES ASSUME FInv, [Next]_vars PROVE [Channel!Next]_(Channel!vars)
    OBVIOUS
  <2>1. TypeOK
    BY DEF FInv
  <2>2. ASSUME NEW b \in Bodies, Send(b) PROVE [Channel!Next]_(Channel!vars)
    BY <2>1, <2>2, SendImplements
  <2>3. CASE Dispatch
    BY <2>3, DispatchImplements
  <2>4. CASE UNCHANGED <<sent, decoded>>
    BY <2>4 DEF Channel!vars
  <2> QED
    BY <2>2, <2>3, <2>4
       DEF Next, ReadLoop, SendEarly, SendHello, ServerCloses, HandshakeRead, HandshakeFails, Read,
           StopExtracting, ReadEof, StopReading, vars
<1>3. FInv /\ [Next]_vars => FInv'
  BY TypeStep, HandshakeStep, AlignedStep DEF FInv
<1> QED
  BY <1>1, <1>2, <1>3, InitHandshake, PTL DEF Spec, ImplementsChannel, Channel!Spec
=============================================================================
