--------------------------- MODULE RespWireProofs ---------------------------
(***************************************************************************)
(* Proofs about RespWire, for streams of any number of commands of any     *)
(* size, cut into reads in any way, for any answers of the server, and for *)
(* any widths of usize and i64.                                            *)
(***************************************************************************)
EXTENDS RespWire, FiniteSums, SequenceTheorems, TLAPS

-----------------------------------------------------------------------------
(* Sequences of sequences, one after the other.                            *)

(* f gives what the first sequences of ss make, up to the n-th. *)
FlatUpTo(ss, n, f) ==
  f = [i \in 1..n |-> IF i = 1 THEN ss[i] ELSE f[i - 1] \o ss[i]]

(* There is such a function. *)
LEMMA FlatExists ==
  ASSUME NEW ss, NEW m \in Nat
  PROVE  \E f : FlatUpTo(ss, m, f)
<1> DEFINE Good == {n \in Nat : \E f : FlatUpTo(ss, n, f)}
<1>1. 0 \in Good
  <2> DEFINE f == [i \in 1..0 |-> <<>>]
  <2>1. FlatUpTo(ss, 0, f)
    BY DEF FlatUpTo
  <2> QED
    BY <2>1
<1>2. ASSUME NEW n \in Nat, n \in Good PROVE n + 1 \in Good
  <2>1. PICK f : FlatUpTo(ss, n, f)
    BY <1>2
  <2> DEFINE new == IF n = 0 THEN ss[1] ELSE f[n] \o ss[n + 1]
             h == [i \in 1..(n + 1) |-> IF i = n + 1 THEN new ELSE f[i]]
  <2>2. \A i \in 1..n : f[i] = IF i = 1 THEN ss[i] ELSE f[i - 1] \o ss[i]
    BY <2>1 DEF FlatUpTo
  <2>3. ASSUME NEW i \in 1..(n + 1)
        PROVE  h[i] = IF i = 1 THEN ss[i] ELSE h[i - 1] \o ss[i]
    <3>1. CASE i = n + 1
      <4>1. CASE n = 0
        BY <3>1, <4>1
      <4>2. CASE n # 0
        <5>1. i # 1 /\ i - 1 = n
          BY <3>1, <4>2
        <5>3. new = f[n] \o ss[n + 1]
          BY <4>2, Zenon
        <5>4. h[i] = new
          BY <3>1
        <5>2. h[n] = f[n]
          BY <4>2
        <5> QED
          BY <3>1, <5>1, <5>2, <5>3, <5>4
      <4> QED
        BY <4>1, <4>2
    <3>2. CASE i # n + 1
      <4>1. i \in 1..n /\ h[i] = f[i]
        BY <3>2
      <4>2. CASE i = 1
        BY <2>2, <4>1, <4>2
      <4>3. CASE i # 1
        <5>1. h[i - 1] = f[i - 1]
          BY <4>1, <4>3
        <5> QED
          BY <2>2, <4>1, <4>3, <5>1
      <4> QED
        BY <4>2, <4>3
    <3> QED
      BY <3>1, <3>2
  <2>4. h = [i \in 1..(n + 1) |-> h[i]]
    OBVIOUS
  <2> HIDE DEF h
  <2>5. FlatUpTo(ss, n + 1, h)
    BY <2>3, <2>4 DEF FlatUpTo
  <2> QED
    BY <2>5
<1> HIDE DEF Good
<1>3. Nat \subseteq Good
  BY <1>1, <1>2, NatSetInduction
<1> QED
  BY <1>3 DEF Good

(* What FlattenSeq computes. *)
LEMMA FlattenIs ==
  ASSUME NEW S, NEW ss \in Seq(Seq(S)), ss # <<>>
  PROVE  \E f : /\ FlattenSeq(ss) = f[Len(ss)]
                /\ \A i \in 1..Len(ss) : f[i] = IF i = 1 THEN ss[i] ELSE f[i - 1] \o ss[i]
<1> DEFINE g == CHOOSE f : FlatUpTo(ss, Len(ss), f)
<1>2. Len(ss) \in Nat /\ Len(ss) # 0
  OBVIOUS
<1>1. FlatUpTo(ss, Len(ss), g)
  BY <1>2, FlatExists
<1>3. FlattenSeq(ss) = g[Len(ss)]
  BY <1>2 DEF FlattenSeq, FlatUpTo
<1> HIDE DEF g
<1>4. \A i \in 1..Len(ss) : g[i] = IF i = 1 THEN ss[i] ELSE g[i - 1] \o ss[i]
  BY <1>1 DEF FlatUpTo
<1> QED
  BY <1>3, <1>4

(* No sequence makes none. *)
LEMMA FlattenEmpty == FlattenSeq(<<>>) = <<>>
BY DEF FlattenSeq

(* The pieces of f are sequences. *)
LEMMA FlattenSteps ==
  ASSUME NEW S, NEW ss \in Seq(Seq(S)), NEW f,
         \A i \in 1..Len(ss) : f[i] = IF i = 1 THEN ss[i] ELSE f[i - 1] \o ss[i]
  PROVE  \A i \in 1..Len(ss) : f[i] \in Seq(S)
<1> DEFINE Good == {n \in Nat : n \in 1..Len(ss) => f[n] \in Seq(S)}
<1>1. 0 \in Good
  OBVIOUS
<1>2. ASSUME NEW n \in Nat, n \in Good PROVE n + 1 \in Good
  <2>1. SUFFICES ASSUME n + 1 \in 1..Len(ss) PROVE f[n + 1] \in Seq(S)
    OBVIOUS
  <2>2. ss[n + 1] \in Seq(S)
    BY <2>1
  <2>3. CASE n = 0
    BY <2>1, <2>2, <2>3
  <2>4. CASE n # 0
    <3>1. n \in 1..Len(ss) /\ n + 1 # 1 /\ (n + 1) - 1 = n
      BY <2>1, <2>4
    <3>2. f[n] \in Seq(S)
      BY <1>2, <3>1
    <3>3. f[n + 1] = f[n] \o ss[n + 1]
      BY <2>1, <3>1, Zenon
    <3>4. f[n] \o ss[n + 1] \in Seq(S)
      BY <2>2, <3>2, ConcatProperties
    <3> QED
      BY <3>3, <3>4
  <2> QED
    BY <2>3, <2>4
<1> HIDE DEF Good
<1>3. Nat \subseteq Good
  BY <1>1, <1>2, NatSetInduction
<1>4. ASSUME NEW i \in 1..Len(ss) PROVE f[i] \in Seq(S)
  <2>1. i \in Nat
    OBVIOUS
  <2>2. i \in Good
    BY <1>3, <2>1
  <2> QED
    BY <2>2 DEF Good
<1> QED
  BY <1>4

(* Sequences over S make a sequence over S. *)
LEMMA FlattenType ==
  ASSUME NEW S, NEW ss \in Seq(Seq(S))
  PROVE  FlattenSeq(ss) \in Seq(S)
<1>1. CASE ss = <<>>
  BY <1>1, FlattenEmpty, EmptySeq
<1>2. CASE ss # <<>>
  <2>1. PICK f : /\ FlattenSeq(ss) = f[Len(ss)]
                 /\ \A i \in 1..Len(ss) : f[i] = IF i = 1 THEN ss[i] ELSE f[i - 1] \o ss[i]
    BY <1>2, FlattenIs
  <2>2. Len(ss) \in 1..Len(ss)
    BY <1>2
  <2>3. \A i \in 1..Len(ss) : f[i] \in Seq(S)
    BY <2>1, FlattenSteps
  <2> QED
    BY <2>1, <2>2, <2>3
<1> QED
  BY <1>1, <1>2

(* A sequence in front. *)
LEMMA FlattenCons ==
  ASSUME NEW S, NEW x \in Seq(S), NEW ss \in Seq(Seq(S))
  PROVE  FlattenSeq(<<x>> \o ss) = x \o FlattenSeq(ss)
<1> DEFINE tt == <<x>> \o ss
<1>1. <<x>> \in Seq(Seq(S)) /\ Len(<<x>>) = 1 /\ <<x>>[1] = x
  OBVIOUS
<1>2. /\ tt \in Seq(Seq(S)) /\ Len(tt) = Len(ss) + 1
      /\ \A i \in 1..(1 + Len(ss)) : tt[i] = IF i <= 1 THEN <<x>>[i] ELSE ss[i - 1]
  BY <1>1, ConcatProperties
<1>3. tt[1] = x /\ \A i \in 1..Len(ss) : tt[i + 1] = ss[i]
  <2>1. Len(ss) \in Nat
    OBVIOUS
  <2>2. ASSUME NEW i \in 1..Len(ss) PROVE tt[i + 1] = ss[i]
    <3>1. i + 1 \in 1..(1 + Len(ss)) /\ ~(i + 1 <= 1) /\ (i + 1) - 1 = i
      BY <2>1
    <3> QED
      BY <1>2, <3>1, Zenon
  <2>3. tt[1] = x
    BY <1>1, <1>2, <2>1
  <2> QED
    BY <2>2, <2>3
<1> HIDE DEF tt
<1>4. tt # <<>>
  BY <1>2
<1>5. PICK g : /\ FlattenSeq(tt) = g[Len(tt)]
               /\ \A i \in 1..Len(tt) : g[i] = IF i = 1 THEN tt[i] ELSE g[i - 1] \o tt[i]
  BY <1>2, <1>4, FlattenIs
<1>6. g[1] = x
  BY <1>2, <1>3, <1>5
<1>7. CASE ss = <<>>
  <2>1. FlattenSeq(tt) = x
    BY <1>2, <1>5, <1>6, <1>7
  <2>2. x \o <<>> = x
    BY ConcatEmptySeq
  <2> QED
    BY <1>7, <2>1, <2>2, FlattenEmpty DEF tt
<1>8. CASE ss # <<>>
  <2>1. PICK f : /\ FlattenSeq(ss) = f[Len(ss)]
                 /\ \A i \in 1..Len(ss) : f[i] = IF i = 1 THEN ss[i] ELSE f[i - 1] \o ss[i]
    BY <1>8, FlattenIs
  <2>2. \A i \in 1..Len(ss) : f[i] \in Seq(S)
    BY <2>1, FlattenSteps
  <2> DEFINE Good == {n \in Nat : n \in 1..Len(ss) => g[n + 1] = x \o f[n]}
  <2>3. 0 \in Good
    OBVIOUS
  <2>4. ASSUME NEW n \in Nat, n \in Good PROVE n + 1 \in Good
    <3>1. SUFFICES ASSUME n + 1 \in 1..Len(ss) PROVE g[(n + 1) + 1] = x \o f[n + 1]
      OBVIOUS
    <3>2. /\ (n + 1) + 1 \in 1..Len(tt) /\ (n + 1) + 1 # 1 /\ ((n + 1) + 1) - 1 = n + 1
      BY <1>2, <3>1
    <3>3. g[(n + 1) + 1] = g[n + 1] \o tt[(n + 1) + 1]
      BY <1>5, <3>2, Zenon
    <3>4. tt[(n + 1) + 1] = ss[n + 1] /\ ss[n + 1] \in Seq(S)
      BY <1>3, <3>1
    <3>5. CASE n = 0
      <4>1. g[n + 1] = x /\ f[n + 1] = ss[n + 1]
        BY <1>6, <2>1, <3>1, <3>5
      <4> QED
        BY <3>3, <3>4, <4>1
    <3>6. CASE n # 0
      <4>1. n \in 1..Len(ss) /\ n + 1 # 1 /\ (n + 1) - 1 = n
        BY <3>1, <3>6
      <4>2. g[n + 1] = x \o f[n]
        BY <2>4, <4>1
      <4>3. f[n + 1] = f[n] \o ss[n + 1]
        BY <2>1, <3>1, <4>1, Zenon
      <4>4. f[n] \in Seq(S)
        BY <2>2, <4>1
      <4>5. (x \o f[n]) \o ss[n + 1] = x \o (f[n] \o ss[n + 1])
        <5> DEFINE a == f[n]
                   b == ss[n + 1]
        <5>1. a \in Seq(S) /\ b \in Seq(S)
          BY <3>4, <4>4
        <5> HIDE DEF a, b
        <5>2. (x \o a) \o b = x \o (a \o b)
          BY <5>1, ConcatAssociative
        <5> QED
          BY <5>2 DEF a, b
      <4> QED
        BY <3>3, <3>4, <4>2, <4>3, <4>5
    <3> QED
      BY <3>5, <3>6
  <2> HIDE DEF Good
  <2>5. Nat \subseteq Good
    BY <2>3, <2>4, NatSetInduction
  <2>6. Len(ss) \in Nat /\ Len(ss) \in 1..Len(ss)
    BY <1>8
  <2>7. g[Len(ss) + 1] = x \o f[Len(ss)]
    BY <2>5, <2>6 DEF Good
  <2> QED
    BY <1>2, <1>5, <2>1, <2>7 DEF tt
<1> QED
  BY <1>7, <1>8

(* A sequence at the end. *)
LEMMA FlattenSnoc ==
  ASSUME NEW S, NEW ss \in Seq(Seq(S)), NEW x \in Seq(S)
  PROVE  FlattenSeq(Append(ss, x)) = FlattenSeq(ss) \o x
<1> DEFINE tt == Append(ss, x)
<1>1. /\ tt \in Seq(Seq(S)) /\ tt # <<>> /\ Len(tt) = Len(ss) + 1
      /\ \A i \in 1..Len(ss) : tt[i] = ss[i]
      /\ tt[Len(ss) + 1] = x
  BY AppendProperties
<1> HIDE DEF tt
<1>2. PICK g : /\ FlattenSeq(tt) = g[Len(tt)]
               /\ \A i \in 1..Len(tt) : g[i] = IF i = 1 THEN tt[i] ELSE g[i - 1] \o tt[i]
  BY <1>1, FlattenIs
<1>3. CASE ss = <<>>
  <2>1. FlattenSeq(tt) = x
    BY <1>1, <1>2, <1>3
  <2>2. <<>> \o x = x
    BY ConcatEmptySeq
  <2> QED
    BY <1>3, <2>1, <2>2, FlattenEmpty DEF tt
<1>4. CASE ss # <<>>
  <2>1. PICK f : /\ FlattenSeq(ss) = f[Len(ss)]
                 /\ \A i \in 1..Len(ss) : f[i] = IF i = 1 THEN ss[i] ELSE f[i - 1] \o ss[i]
    BY <1>4, FlattenIs
  <2> DEFINE Good == {n \in Nat : n \in 1..Len(ss) => g[n] = f[n]}
  <2>3. 0 \in Good
    OBVIOUS
  <2>4. ASSUME NEW n \in Nat, n \in Good PROVE n + 1 \in Good
    <3>1. SUFFICES ASSUME n + 1 \in 1..Len(ss) PROVE g[n + 1] = f[n + 1]
      OBVIOUS
    <3>2. n + 1 \in 1..Len(tt) /\ tt[n + 1] = ss[n + 1]
      BY <1>1, <3>1
    <3>5. CASE n = 0
      BY <1>2, <2>1, <3>1, <3>2, <3>5
    <3>6. CASE n # 0
      <4>1. n \in 1..Len(ss) /\ n + 1 # 1 /\ (n + 1) - 1 = n
        BY <3>1, <3>6
      <4>2. g[n] = f[n]
        BY <2>4, <4>1
      <4>3. f[n + 1] = f[n] \o ss[n + 1] /\ g[n + 1] = g[n] \o tt[n + 1]
        BY <1>2, <2>1, <3>1, <3>2, <4>1, Zenon
      <4> QED
        BY <3>2, <4>2, <4>3
    <3> QED
      BY <3>5, <3>6
  <2> HIDE DEF Good
  <2>5. Nat \subseteq Good
    BY <2>3, <2>4, NatSetInduction
  <2>6. Len(ss) \in Nat /\ Len(ss) \in 1..Len(ss)
    BY <1>4
  <2>7. g[Len(ss)] = f[Len(ss)]
    BY <2>5, <2>6 DEF Good
  <2>8. Len(ss) + 1 \in 1..Len(tt) /\ Len(ss) + 1 # 1 /\ (Len(ss) + 1) - 1 = Len(ss)
    BY <1>1, <2>6
  <2>9. g[Len(ss) + 1] = g[Len(ss)] \o tt[Len(ss) + 1]
    BY <1>2, <2>8, Zenon
  <2> QED
    BY <1>1, <1>2, <2>1, <2>7, <2>9 DEF tt
<1> QED
  BY <1>3, <1>4

-----------------------------------------------------------------------------
(* Numbers.                                                                *)

Capped(n, max) == IF n > max THEN max ELSE n

(* v gives the value of the first digits, up to the n-th. *)
ValueUpTo(digits, max, n, v) ==
  v = [i \in 0..n |->
         IF i = 0 THEN 0
         ELSE Capped(Capped(v[i - 1] * 10, max) + (digits[i] - Zero), max)]

(* There is such a function. *)
LEMMA ValuesExist ==
  ASSUME NEW digits, NEW max, NEW m \in Nat
  PROVE  \E v : ValueUpTo(digits, max, m, v)
<1> DEFINE Good == {n \in Nat : \E v : ValueUpTo(digits, max, n, v)}
<1>1. 0 \in Good
  <2> DEFINE v == [i \in 0..0 |-> 0]
  <2>1. ValueUpTo(digits, max, 0, v)
    BY DEF ValueUpTo
  <2> QED
    BY <2>1
<1>2. ASSUME NEW n \in Nat, n \in Good PROVE n + 1 \in Good
  <2>1. PICK v : ValueUpTo(digits, max, n, v)
    BY <1>2
  <2> DEFINE Next1(u, i) == Capped(Capped(u[i - 1] * 10, max) + (digits[i] - Zero), max)
             h == [i \in 0..(n + 1) |-> IF i = n + 1 THEN Next1(v, n + 1) ELSE v[i]]
  <2>2. \A i \in 0..n : v[i] = IF i = 0 THEN 0 ELSE Next1(v, i)
    BY <2>1 DEF ValueUpTo
  <2>3. ASSUME NEW i \in 0..(n + 1)
        PROVE  h[i] = IF i = 0 THEN 0 ELSE Next1(h, i)
    <3>1. CASE i = 0
      BY <2>2, <3>1
    <3>2. CASE i # 0
      <4>1. i - 1 \in 0..n /\ h[i - 1] = v[i - 1]
        BY <3>2
      <4>2. Next1(h, i) = Next1(v, i)
        BY <4>1
      <4>3. h[i] = Next1(v, i)
        BY <2>2, <3>2
      <4> QED
        BY <3>2, <4>2, <4>3
    <3> QED
      BY <3>1, <3>2
  <2>4. h = [i \in 0..(n + 1) |-> h[i]]
    OBVIOUS
  <2> HIDE DEF h
  <2>5. ValueUpTo(digits, max, n + 1, h)
    BY <2>3, <2>4 DEF ValueUpTo
  <2> QED
    BY <2>5
<1> HIDE DEF Good
<1>3. Nat \subseteq Good
  BY <1>1, <1>2, NatSetInduction
<1> QED
  BY <1>3 DEF Good

(* Saturating is the last of its values. *)
LEMMA SaturatingIs ==
  ASSUME NEW S, NEW digits \in Seq(S), NEW max
  PROVE  \E v : /\ Saturating(digits, max) = v[Len(digits)]
                /\ v[0] = 0
                /\ \A i \in 1..Len(digits) :
                     v[i] = Capped(Capped(v[i - 1] * 10, max) + (digits[i] - Zero), max)
<1> DEFINE v == CHOOSE f : ValueUpTo(digits, max, Len(digits), f)
<1>1. Len(digits) \in Nat
  OBVIOUS
<1>2. ValueUpTo(digits, max, Len(digits), v)
  BY <1>1, ValuesExist
<1>3. Saturating(digits, max) = v[Len(digits)]
  BY DEF Saturating, ValueUpTo, Capped
<1> HIDE DEF v
<1>4. \A i \in 0..Len(digits) :
        v[i] = IF i = 0 THEN 0
               ELSE Capped(Capped(v[i - 1] * 10, max) + (digits[i] - Zero), max)
  BY <1>2 DEF ValueUpTo
<1>5. v[0] = 0
  BY <1>1, <1>4
<1>6. ASSUME NEW i \in 1..Len(digits)
      PROVE  v[i] = Capped(Capped(v[i - 1] * 10, max) + (digits[i] - Zero), max)
  <2>1. i \in 0..Len(digits) /\ i # 0
    BY <1>1
  <2> QED
    BY <1>4, <2>1, Zenon
<1> QED
  BY <1>3, <1>5, <1>6

(* One more digit. *)
LEMMA SaturatingAppend ==
  ASSUME NEW S, NEW digits \in Seq(S), NEW x \in S, NEW max
  PROVE  Saturating(Append(digits, x), max)
           = Capped(Capped(Saturating(digits, max) * 10, max) + (x - Zero), max)
<1> DEFINE more == Append(digits, x)
           L == Len(digits)
<1>1. /\ more \in Seq(S) /\ Len(more) = L + 1 /\ L \in Nat
      /\ \A i \in 1..L : more[i] = digits[i]
      /\ more[L + 1] = x
  BY AppendProperties
<1> HIDE DEF more
<1>2. PICK w : /\ Saturating(more, max) = w[Len(more)]
               /\ w[0] = 0
               /\ \A i \in 1..Len(more) :
                    w[i] = Capped(Capped(w[i - 1] * 10, max) + (more[i] - Zero), max)
  BY <1>1, SaturatingIs
<1>3. PICK v : /\ Saturating(digits, max) = v[Len(digits)]
               /\ v[0] = 0
               /\ \A i \in 1..Len(digits) :
                    v[i] = Capped(Capped(v[i - 1] * 10, max) + (digits[i] - Zero), max)
  BY SaturatingIs
<1> HIDE DEF L
<1> DEFINE Good == {n \in Nat : n <= L => w[n] = v[n]}
<1>4. 0 \in Good
  BY <1>2, <1>3
<1>5. ASSUME NEW n \in Nat, n \in Good PROVE n + 1 \in Good
  <2>1. SUFFICES ASSUME n + 1 <= L PROVE w[n + 1] = v[n + 1]
    OBVIOUS
  <2>2. n + 1 \in 1..L /\ n + 1 \in 1..(L + 1) /\ n <= L /\ (n + 1) - 1 = n
    BY <1>1, <2>1
  <2>3. w[n] = v[n]
    BY <1>5, <2>2
  <2>4. more[n + 1] = digits[n + 1]
    BY <1>1, <2>2
  <2>5. w[n + 1] = Capped(Capped(w[n] * 10, max) + (more[n + 1] - Zero), max)
    BY <1>1, <1>2, <2>2, Zenon
  <2>6. v[n + 1] = Capped(Capped(v[n] * 10, max) + (digits[n + 1] - Zero), max)
    BY <1>3, <2>2, Zenon DEF L
  <2> QED
    BY <2>3, <2>4, <2>5, <2>6
<1> HIDE DEF Good
<1>6. Nat \subseteq Good
  BY <1>4, <1>5, NatSetInduction
<1>7. w[L] = v[L]
  BY <1>1, <1>6 DEF Good
<1>8. L + 1 \in 1..(L + 1) /\ (L + 1) - 1 = L
  BY <1>1
<1>9. w[L + 1] = Capped(Capped(w[L] * 10, max) + (more[L + 1] - Zero), max)
  BY <1>1, <1>2, <1>8, Zenon
<1> QED
  BY <1>1, <1>2, <1>3, <1>7, <1>9 DEF more, L

(* No digits are 0. *)
LEMMA SaturatingEmpty ==
  ASSUME NEW max
  PROVE  Saturating(<<>>, max) = 0
<1>1. <<>> \in Seq(Nat) /\ Len(<<>>) = 0
  BY EmptySeq
<1>2. \E v : Saturating(<<>>, max) = v[Len(<<>>)] /\ v[0] = 0
  <2> DEFINE e == <<>>
  <2>1. e \in Seq(Nat)
    BY <1>1
  <2> HIDE DEF e
  <2>2. \E v : /\ Saturating(e, max) = v[Len(e)]
               /\ v[0] = 0
               /\ \A i \in 1..Len(e) :
                    v[i] = Capped(Capped(v[i - 1] * 10, max) + (e[i] - Zero), max)
    BY <2>1, SaturatingIs
  <2> QED
    BY <2>2 DEF e
<1> QED
  BY <1>1, <1>2

(* f gives the text of each number up to n. *)
TextUpTo(n, f) ==
  f = [k \in 0..n |->
         IF k < 10 THEN <<Zero + k>> ELSE Append(f[k \div 10], Zero + (k % 10))]

LEMMA DivTen ==
  ASSUME NEW n \in Nat
  PROVE  /\ n \div 10 \in Nat /\ n % 10 \in 0..9
         /\ n = (n \div 10) * 10 + (n % 10)
         /\ n >= 10 => n \div 10 < n
OBVIOUS

(* There is such a function. *)
LEMMA TextsExist ==
  ASSUME NEW m \in Nat
  PROVE  \E f : TextUpTo(m, f)
<1> DEFINE Good == {n \in Nat : \E f : TextUpTo(n, f)}
           Text(u, k) == IF k < 10 THEN <<Zero + k>> ELSE Append(u[k \div 10], Zero + (k % 10))
<1>1. 0 \in Good
  <2> DEFINE f == [k \in 0..0 |-> <<Zero + k>>]
  <2>1. TextUpTo(0, f)
    BY DEF TextUpTo
  <2> QED
    BY <2>1
<1>2. ASSUME NEW n \in Nat, n \in Good PROVE n + 1 \in Good
  <2>1. PICK f : TextUpTo(n, f)
    BY <1>2
  <2> DEFINE h == [k \in 0..(n + 1) |-> IF k = n + 1 THEN Text(f, n + 1) ELSE f[k]]
  <2>2. \A k \in 0..n : f[k] = Text(f, k)
    BY <2>1 DEF TextUpTo
  <2>3. ASSUME NEW k \in 0..(n + 1)
        PROVE  h[k] = Text(h, k)
    <3>1. h[k] = Text(f, k)
      <4> HIDE DEF Text
      <4> QED
        BY <2>2
    <3>2. Text(f, k) = Text(h, k)
      <4>1. CASE k < 10
        BY <4>1
      <4>2. CASE ~(k < 10)
        <5>1. k \div 10 \in 0..n
          BY <4>2, DivTen
        <5>2. h[k \div 10] = f[k \div 10]
          <6> HIDE DEF Text
          <6> QED
            BY <5>1
        <5> HIDE DEF h
        <5> QED
          BY <4>2, <5>2
      <4> QED
        BY <4>1, <4>2
    <3> QED
      BY <3>1, <3>2
  <2>4. h = [k \in 0..(n + 1) |-> h[k]]
    OBVIOUS
  <2> HIDE DEF h
  <2>5. TextUpTo(n + 1, h)
    BY <2>3, <2>4 DEF TextUpTo
  <2> QED
    BY <2>5
<1> HIDE DEF Good
<1>3. Nat \subseteq Good
  BY <1>1, <1>2, NatSetInduction
<1> QED
  BY <1>3 DEF Good

(* push_usize writes a number in digits, and reading them gives it back    *)
(* unless it is too large.                                                 *)
LEMMA PushedIs ==
  ASSUME NEW n \in Nat
  PROVE  /\ push_usize(n) \in Seq(Zero..(Zero + 9))
         /\ push_usize(n) # <<>>
         /\ \A max \in Nat : n <= max => Saturating(push_usize(n), max) = n
<1> DEFINE Digit == Zero..(Zero + 9)
           f == CHOOSE g : TextUpTo(n, g)
<1>1. TextUpTo(n, f)
  BY TextsExist
<1>2. push_usize(n) = f[n]
  BY DEF push_usize, TextUpTo
<1> HIDE DEF f
<1>3. \A k \in 0..n :
        f[k] = IF k < 10 THEN <<Zero + k>> ELSE Append(f[k \div 10], Zero + (k % 10))
  BY <1>1 DEF TextUpTo
<1> DEFINE Right(k) == /\ f[k] \in Seq(Digit)
                       /\ f[k] # <<>>
                       /\ \A max \in Nat : k <= max => Saturating(f[k], max) = k
           Good == {m \in Nat : \A k \in 0..m : k <= n => Right(k)}
<1> HIDE DEF Right
<1>4. ASSUME NEW k \in 0..n, k < 10 PROVE Right(k)
  <2>1. f[k] = <<Zero + k>>
    BY <1>3, <1>4
  <2>2. Zero + k \in Digit
    BY <1>4 DEF Zero
  <2>3. f[k] \in Seq(Digit) /\ f[k] # <<>>
    BY <2>1, <2>2
  <2>4. ASSUME NEW max \in Nat, k <= max PROVE Saturating(f[k], max) = k
    <3>1. <<>> \in Seq(Digit)
      BY EmptySeq
    <3>2. f[k] = Append(<<>>, Zero + k)
      BY <2>1
    <3> DEFINE e == <<>>
               x == Zero + k
    <3> HIDE DEF e, x
    <3>3. Saturating(Append(e, x), max)
            = Capped(Capped(Saturating(e, max) * 10, max) + (x - Zero), max)
      BY <2>2, <3>1, SaturatingAppend DEF e, x
    <3>4. Saturating(e, max) = 0
      BY SaturatingEmpty DEF e
    <3>5. x - Zero = k
      BY DEF x, Zero
    <3>6. Capped(Capped(0 * 10, max) + k, max) = k
      BY <2>4 DEF Capped
    <3> QED
      BY <3>2, <3>3, <3>4, <3>5, <3>6 DEF e, x
  <2> QED
    BY <2>3, <2>4 DEF Right
<1>5. ASSUME NEW k \in 0..n, ~(k < 10), Right(k \div 10) PROVE Right(k)
  <2> DEFINE d == f[k \div 10]
             q == k \div 10
             r == k % 10
             x == Zero + (k % 10)
  <2>1. f[k] = Append(d, x)
    BY <1>3, <1>5
  <2>2. q \in Nat /\ r \in 0..9 /\ k = q * 10 + r
    BY DivTen
  <2>3. x \in Digit /\ x - Zero = r
    BY <2>2 DEF Zero
  <2>4. d \in Seq(Digit) /\ \A max \in Nat : q <= max => Saturating(d, max) = q
    BY <1>5 DEF Right
  <2> HIDE DEF d, q, r, x
  <2>5. Append(d, x) \in Seq(Digit) /\ Append(d, x) # <<>>
    BY <2>3, <2>4, AppendProperties
  <2>6. ASSUME NEW max \in Nat, k <= max PROVE Saturating(Append(d, x), max) = k
    <3>1. Saturating(Append(d, x), max)
            = Capped(Capped(Saturating(d, max) * 10, max) + (x - Zero), max)
      BY <2>3, <2>4, SaturatingAppend
    <3>2. q <= max /\ q * 10 <= max
      BY <2>2, <2>6
    <3>3. Saturating(d, max) = q
      BY <2>4, <3>2
    <3>4. Capped(q * 10, max) = q * 10 /\ Capped(q * 10 + r, max) = k
      BY <2>2, <2>6, <3>2 DEF Capped
    <3> QED
      BY <2>3, <3>1, <3>3, <3>4
  <2> QED
    BY <2>1, <2>5, <2>6 DEF Right
<1>6. 0 \in Good
  <2>1. 0 \in 0..n /\ 0 < 10
    OBVIOUS
  <2>2. Right(0)
    BY <1>4, <2>1
  <2> QED
    BY <2>2
<1>7. ASSUME NEW m \in Nat, m \in Good PROVE m + 1 \in Good
  <2>1. SUFFICES ASSUME m + 1 <= n PROVE Right(m + 1)
    BY <1>7
  <2>2. m + 1 \in 0..n
    BY <2>1
  <2>3. CASE m + 1 < 10
    BY <1>4, <2>2, <2>3
  <2>4. CASE ~(m + 1 < 10)
    <3>1. (m + 1) \div 10 \in 0..m /\ (m + 1) \div 10 <= n
      <4>1. m + 1 \in Nat /\ m + 1 >= 10
        BY <2>4
      <4>2. (m + 1) \div 10 \in Nat /\ (m + 1) \div 10 < m + 1
        BY <4>1, DivTen
      <4> QED
        BY <2>1, <4>2
    <3>2. Right((m + 1) \div 10)
      BY <1>7, <3>1
    <3> QED
      BY <1>5, <2>2, <2>4, <3>2
  <2> QED
    BY <2>3, <2>4
<1> HIDE DEF Good
<1>8. Nat \subseteq Good
  BY <1>6, <1>7, NatSetInduction
<1>9. Right(n)
  BY <1>8 DEF Good
<1> QED
  BY <1>2, <1>9 DEF Right

(* A length on a line. *)
LEMMA UsizeReadBack ==
  ASSUME NEW n \in Nat, n <= UsizeMax
  PROVE  /\ push_usize(n) \in Seq(Nat) /\ is_usize(push_usize(n))
         /\ \A i \in 1..Len(push_usize(n)) : push_usize(n)[i] \in Zero..(Zero + 9)
         /\ parse_usize(push_usize(n)) = n
<1> DEFINE d == push_usize(n)
<1>1. /\ d \in Seq(Zero..(Zero + 9)) /\ d # <<>>
      /\ \A max \in Nat : n <= max => Saturating(d, max) = n
  BY PushedIs
<1> HIDE DEF d
<1>2. parse_usize(d) = n
  BY <1>1, WireAssumption DEF parse_usize
<1>3. d \in Seq(Nat)
  <2>1. Zero..(Zero + 9) \subseteq Nat
    BY DEF Zero
  <2> QED
    BY <1>1, <2>1, SeqMonotonic
<1>4. ASSUME NEW i \in 1..Len(d) PROVE d[i] \in Zero..(Zero + 9)
  <2> DEFINE D == Zero..(Zero + 9)
  <2>1. d \in Seq(D)
    BY <1>1
  <2> HIDE DEF D
  <2>2. d[i] \in D
    BY <2>1, ElementOfSeq
  <2> QED
    BY <2>2 DEF D
<1>5. is_usize(d)
  BY <1>1, <1>4 DEF is_usize, AllDigits, is_digit
<1> QED
  BY <1>2, <1>3, <1>4, <1>5 DEF d

-----------------------------------------------------------------------------
(* Lines.                                                                  *)

LEMMA MinIs ==
  ASSUME NEW S, S \subseteq Nat, NEW m \in S, \A y \in S : m <= y
  PROVE  Min(S) = m
<1>1. \A x \in S : (\A y \in S : x <= y) => x = m
  OBVIOUS
<1> QED
  BY <1>1 DEF Min

LEMMA MinLineEnd ==
  ASSUME NEW s \in Seq(Nat), HasLine(s)
  PROVE  /\ Min(LineEnds(s)) \in 2..Len(s)
         /\ s[Min(LineEnds(s))] = LF /\ s[Min(LineEnds(s)) - 1] = CR
         /\ \A i \in LineEnds(s) : Min(LineEnds(s)) <= i
<1>1. LineEnds(s) \subseteq Nat /\ LineEnds(s) # {}
  BY DEF HasLine, LineEnds
<1>2. PICK m \in LineEnds(s) : \A i \in LineEnds(s) : m <= i
  BY <1>1, LeastElement
<1>3. Min(LineEnds(s)) = m
  BY <1>1, <1>2, MinIs
<1> QED
  BY <1>2, <1>3 DEF LineEnds

(* A line is found in the same place when more bytes follow. *)
LEMMA LineThenMore ==
  ASSUME NEW s \in Seq(Nat), NEW t \in Seq(Nat), HasLine(s)
  PROVE  HasLine(s \o t) /\ Min(LineEnds(s \o t)) = Min(LineEnds(s))
<1> DEFINE m == Min(LineEnds(s))
           st == s \o t
<1>1. /\ m \in 2..Len(s) /\ s[m] = LF /\ s[m - 1] = CR
      /\ \A i \in LineEnds(s) : m <= i
  BY MinLineEnd
<1>2. /\ st \in Seq(Nat) /\ Len(st) = Len(s) + Len(t)
      /\ Len(s) \in Nat /\ Len(t) \in Nat
      /\ \A i \in 1..Len(s) : st[i] = s[i]
  BY ConcatProperties
<1> HIDE DEF m, st
<1>3. m \in LineEnds(st)
  <2>1. m \in 2..Len(st) /\ m \in 1..Len(s) /\ m - 1 \in 1..Len(s)
    BY <1>1, <1>2
  <2>2. st[m] = LF /\ st[m - 1] = CR
    BY <1>1, <1>2, <2>1
  <2> QED
    BY <2>1, <2>2 DEF LineEnds
<1>4. ASSUME NEW i \in LineEnds(st) PROVE m <= i
  <2>1. i \in 2..Len(st) /\ st[i] = LF /\ st[i - 1] = CR
    BY DEF LineEnds
  <2>2. CASE i <= Len(s)
    <3>2. i \in 2..Len(s) /\ i \in 1..Len(s) /\ i - 1 \in 1..Len(s)
      BY <1>2, <2>1, <2>2
    <3>1. i \in 2..Len(s) /\ s[i] = LF /\ s[i - 1] = CR
      BY <1>2, <2>1, <3>2
    <3> QED
      BY <1>1, <3>1 DEF LineEnds
  <2>3. CASE ~(i <= Len(s))
    BY <1>1, <1>2, <2>1, <2>3
  <2> QED
    BY <2>2, <2>3
<1>5. LineEnds(st) \subseteq Nat
  BY DEF LineEnds
<1>6. Min(LineEnds(st)) = m
  BY <1>3, <1>4, <1>5, MinIs
<1> QED
  BY <1>3, <1>6 DEF HasLine, st, m

(* line has no line break, nor makes one with the one after it. *)
OneLine(line) == LineEnds(line \o CRLF) = {Len(line) + 2}

LEMMA WholeLine ==
  ASSUME NEW line \in Seq(Nat), OneLine(line), NEW rest \in Seq(Nat)
  PROVE  /\ HasLine((line \o CRLF) \o rest)
         /\ Min(LineEnds((line \o CRLF) \o rest)) = Len(line) + 2
<1> DEFINE s == line \o CRLF
<1>1. CRLF \in Seq(Nat)
  BY DEF CRLF, CR, LF
<1>2. s \in Seq(Nat) /\ Len(line) \in Nat
  BY <1>1, ConcatProperties
<1>3. LineEnds(s) = {Len(line) + 2}
  BY DEF OneLine
<1> HIDE DEF s
<1>4. HasLine(s) /\ Min(LineEnds(s)) = Len(line) + 2
  <2> DEFINE m == Len(line) + 2
             S == LineEnds(s)
  <2>1. m \in Nat /\ S = {m}
    BY <1>2, <1>3
  <2> HIDE DEF m, S
  <2>2. S \subseteq Nat /\ m \in S /\ \A y \in S : m <= y
    BY <2>1
  <2>3. Min(S) = m
    BY <2>2, MinIs
  <2> QED
    BY <2>2, <2>3 DEF HasLine, S, m
<1> QED
  BY <1>2, <1>4, LineThenMore DEF s

(* Two sequences that make the same as two others. *)
LEMMA SplitAt ==
  ASSUME NEW b \in Seq(Nat), NEW u \in Seq(Nat), NEW x \in Seq(Nat), NEW y \in Seq(Nat),
         b \o u = x \o y, Len(x) <= Len(b)
  PROVE  /\ Keep(b, Len(x)) = x
         /\ Drop(b, Len(x)) \in Seq(Nat)
         /\ Drop(b, Len(x)) \o u = y
<1> DEFINE n == Len(x)
           d == Drop(b, n)
<1>1. /\ n \in Nat /\ Len(b) \in Nat /\ n <= Len(b)
      /\ \A i \in 1..Len(b) : b[i] \in Nat
  OBVIOUS
<1>2. /\ d \in Seq(Nat) /\ Len(d) = Len(b) - n
      /\ \A i \in 1..(Len(b) - n) : d[i] = b[n + i]
  BY <1>1 DEF Drop
<1>3. /\ \A i \in 1..(Len(b) + Len(u)) : (b \o u)[i] = IF i <= Len(b) THEN b[i] ELSE u[i - Len(b)]
      /\ \A i \in 1..(n + Len(y)) : (x \o y)[i] = IF i <= n THEN x[i] ELSE y[i - n]
      /\ \A i \in 1..(Len(d) + Len(u)) : (d \o u)[i] = IF i <= Len(d) THEN d[i] ELSE u[i - Len(d)]
      /\ Len(b \o u) = Len(b) + Len(u) /\ Len(x \o y) = n + Len(y)
      /\ d \o u \in Seq(Nat) /\ Len(d \o u) = Len(d) + Len(u)
  BY <1>2, ConcatProperties
<1>4. Len(u) \in Nat /\ Len(y) \in Nat /\ Len(y) = Len(d \o u)
  BY <1>1, <1>2, <1>3
<1>5. Keep(b, n) = x
  <2> DEFINE k == Keep(b, n)
  <2>1. /\ k \in Seq(Nat) /\ Len(k) = n /\ \A i \in 1..n : k[i] = b[i]
    BY <1>1 DEF Keep
  <2>2. ASSUME NEW i \in 1..n PROVE b[i] = x[i]
    <3> HIDE DEF n, d
    <3>1. i \in 1..(Len(b) + Len(u)) /\ i \in 1..(n + Len(y)) /\ i <= Len(b) /\ i <= n
      BY <1>1, <1>4
    <3>2. (b \o u)[i] = b[i] /\ (x \o y)[i] = x[i]
      BY <1>3, <3>1
    <3> QED
      BY <3>2
  <2> HIDE DEF k
  <2> QED
    BY <2>1, <2>2, SeqEqual DEF k
<1>6. ASSUME NEW i \in 1..Len(y) PROVE (d \o u)[i] = y[i]
  <2> HIDE DEF d, n
  <2> DEFINE j == n + i
  <2>1. /\ j \in 1..(Len(b) + Len(u)) /\ j \in 1..(n + Len(y)) /\ ~(j <= n) /\ j - n = i
        /\ i \in 1..(Len(d) + Len(u)) /\ j - Len(b) = i - Len(d)
        /\ (i <= Len(d)) <=> (j <= Len(b))
    BY <1>1, <1>2, <1>3, <1>4
  <2>4. CASE i <= Len(d)
    <3>1. i \in 1..(Len(b) - n)
      BY <1>2, <2>4
    <3> QED
      BY <1>2, <1>3, <2>1, <2>4, <3>1
  <2>5. CASE ~(i <= Len(d))
    BY ZenonT(60), <1>3, <2>1, <2>5
  <2> QED
    BY <2>4, <2>5
<1>7. d \o u = y
  BY <1>3, <1>4, <1>6, SeqEqual
<1> QED
  BY <1>2, <1>5, <1>7

(* CR LF. *)
LEMMA CrLf == CRLF \in Seq(Nat) /\ Len(CRLF) = 2 /\ CRLF[1] = CR /\ CRLF[2] = LF
BY DEF CRLF, CR, LF

(* A line and its end. *)
LEMMA PlusCrLf ==
  ASSUME NEW x \in Seq(Nat)
  PROVE  /\ x \o CRLF \in Seq(Nat) /\ Len(x \o CRLF) = Len(x) + 2 /\ Len(x) \in Nat
         /\ \A i \in 1..(Len(x) + 2) :
              (x \o CRLF)[i] = IF i <= Len(x) THEN x[i] ELSE CRLF[i - Len(x)]
<1> DEFINE e == CRLF
<1>1. e \in Seq(Nat) /\ Len(e) = 2
  BY CrLf
<1> HIDE DEF e
<1>2. /\ x \o e \in Seq(Nat) /\ Len(x \o e) = Len(x) + Len(e)
      /\ \A i \in 1..(Len(x) + Len(e)) : (x \o e)[i] = IF i <= Len(x) THEN x[i] ELSE e[i - Len(x)]
  BY <1>1, ConcatProperties
<1>3. \A i \in 1..(Len(x) + 2) : (x \o e)[i] = IF i <= Len(x) THEN x[i] ELSE e[i - Len(x)]
  BY <1>1, <1>2, Zenon
<1> QED
  BY <1>1, <1>2, <1>3 DEF e

(* b starts with x and CR LF. *)
LEMMA StartsWith ==
  ASSUME NEW b \in Seq(Nat), NEW x \in Seq(Nat), Len(x) + 2 <= Len(b),
         Keep(b, Len(x) + 2) = x \o CRLF
  PROVE  Keep(b, Len(x)) = x /\ SubSeq(b, Len(x) + 1, Len(x) + 2) = CRLF
<1> DEFINE n == Len(x)
           k == Keep(b, n)
           e == SubSeq(b, n + 1, n + 2)
           w == x \o CRLF
<1>1. n \in Nat /\ Len(b) \in Nat
  OBVIOUS
<1>2. k \in Seq(Nat) /\ Len(k) = n /\ \A i \in 1..n : k[i] = b[i]
  BY <1>1 DEF Keep
<1>3. e \in Seq(Nat) /\ Len(e) = 2 /\ e[1] = b[n + 1] /\ e[2] = b[n + 2]
  BY <1>1
<1>4. /\ w \in Seq(Nat)
      /\ \A i \in 1..(n + 2) : w[i] = IF i <= n THEN x[i] ELSE CRLF[i - n]
  BY PlusCrLf
<1>5. \A i \in 1..(n + 2) : w[i] = b[i]
  <2>1. \A i \in 1..(n + 2) : Keep(b, n + 2)[i] = b[i]
    BY <1>1 DEF Keep
  <2> QED
    BY <2>1
<1> HIDE DEF n, k, e, w
<1>6. ASSUME NEW i \in 1..n PROVE k[i] = x[i]
  <2>1. i \in 1..(n + 2) /\ i <= n
    BY <1>1
  <2> QED
    BY <1>2, <1>4, <1>5, <2>1
<1>7. k = x
  <2>1. Len(k) = Len(x)
    BY <1>2 DEF n
  <2> QED
    BY <1>2, <1>6, <2>1, SeqEqual
<1>8. e = CRLF
  <2>1. /\ n + 1 \in 1..(n + 2) /\ ~(n + 1 <= n) /\ (n + 1) - n = 1
        /\ n + 2 \in 1..(n + 2) /\ ~(n + 2 <= n) /\ (n + 2) - n = 2
    BY <1>1
  <2>2. w[n + 1] = CRLF[(n + 1) - n] /\ w[n + 2] = CRLF[(n + 2) - n]
    BY <1>4, <2>1
  <2>3. e[1] = CRLF[1] /\ e[2] = CRLF[2]
    BY <1>3, <1>5, <2>1, <2>2
  <2>4. \A i \in 1..2 : e[i] = CRLF[i]
    BY <2>3
  <2> QED
    BY <1>3, <2>4, CrLf, SeqEqual
<1> QED
  BY <1>7, <1>8 DEF n, k, e

(* read_line, on a buffer in which the line has arrived. *)
LEMMA TakeLine ==
  ASSUME NEW b \in Seq(Nat), NEW u \in Seq(Nat), NEW line \in Seq(Nat),
         NEW rest \in Seq(Nat), OneLine(line), HasLine(b),
         b \o u = (line \o CRLF) \o rest
  PROVE  /\ Line(b) = line
         /\ AfterLine(b) \in Seq(Nat)
         /\ AfterLine(b) \o u = rest
<1> DEFINE m == Min(LineEnds(b))
           x == line \o CRLF
<1>1. m = Len(line) + 2
  <2>1. Min(LineEnds(b \o u)) = m
    BY LineThenMore
  <2> QED
    BY <2>1, WholeLine
<1>2. m \in 2..Len(b)
  BY MinLineEnd
<1>3. x \in Seq(Nat) /\ Len(x) = Len(line) + 2 /\ Len(line) \in Nat
  BY PlusCrLf
<1>4. Len(x) = m /\ m - 2 = Len(line)
  BY <1>1, <1>2, <1>3
<1>7. b \o u = x \o rest /\ Len(x) <= Len(b)
  BY <1>2, <1>4
<1> HIDE DEF x, m
<1>5. /\ Keep(b, Len(x)) = x /\ Drop(b, Len(x)) \in Seq(Nat)
      /\ Drop(b, Len(x)) \o u = rest
  BY ZenonT(60), <1>3, <1>7, SplitAt
<1>6. Keep(b, Len(line)) = line
  BY ZenonT(60), <1>1, <1>3, <1>7, <1>5, StartsWith DEF x
<1> QED
  BY <1>4, <1>5, <1>6 DEF Line, AfterLine, m

(* data is next in b and what follows b. *)
DataNext(b, u, data, rest) == b \o u = (data \o CRLF) \o rest

(* The data of a bulk string, on a buffer in which it has arrived. *)
LEMMA TakeData ==
  ASSUME NEW b \in Seq(Nat), NEW u \in Seq(Nat), NEW data \in Seq(Nat),
         NEW rest \in Seq(Nat), Len(data) + 2 <= Len(b), DataNext(b, u, data, rest)
  PROVE  /\ Keep(b, Len(data)) = data
         /\ SubSeq(b, Len(data) + 1, Len(data) + 2) = CRLF
         /\ Drop(b, Len(data) + 2) \in Seq(Nat)
         /\ Drop(b, Len(data) + 2) \o u = rest
<1> DEFINE x == data \o CRLF
<1>1. x \in Seq(Nat) /\ Len(x) = Len(data) + 2
  BY PlusCrLf
<1>2. b \o u = x \o rest /\ Len(x) <= Len(b)
  BY <1>1 DEF DataNext
<1> HIDE DEF x
<1>3. /\ Keep(b, Len(x)) = x /\ Drop(b, Len(x)) \in Seq(Nat)
      /\ Drop(b, Len(x)) \o u = rest
  BY <1>1, <1>2, SplitAt
<1>4. Keep(b, Len(data)) = data /\ SubSeq(b, Len(data) + 1, Len(data) + 2) = CRLF
  BY <1>1, <1>3, StartsWith DEF x
<1> QED
  BY <1>1, <1>3, <1>4

(* A line of one byte and a number. *)
LEMMA NumberLine ==
  ASSUME NEW c \in {Star, Dollar}, NEW n \in Nat, n <= UsizeMax
  PROVE  LET line == <<c>> \o push_usize(n) IN
         /\ line \in Seq(Nat) /\ OneLine(line)
         /\ line # <<>> /\ line[1] = c /\ Tail(line) = push_usize(n)
<1> DEFINE d == push_usize(n)
           line == <<c>> \o d
           s == line \o CRLF
           L == Len(line)
<1>1. d \in Seq(Nat) /\ \A i \in 1..Len(d) : d[i] \in Zero..(Zero + 9)
  BY UsizeReadBack
<1>2. c \in Nat /\ c # CR /\ c # LF
  BY DEF Star, Dollar, CR, LF
<1> HIDE DEF d
<1>3. <<c>> \in Seq(Nat) /\ Len(<<c>>) = 1 /\ <<c>>[1] = c
  BY <1>2
<1>4. /\ line \in Seq(Nat) /\ L = Len(d) + 1 /\ Len(d) \in Nat
      /\ \A i \in 1..(1 + Len(d)) : line[i] = IF i <= 1 THEN <<c>>[i] ELSE d[i - 1]
  BY <1>1, <1>3, ConcatProperties
<1>5. line # <<>> /\ line[1] = c
  BY <1>3, <1>4
<1>6. Tail(line) = d
  <2>1. /\ Tail(line) \in Seq(Nat) /\ Len(Tail(line)) = L - 1
        /\ \A i \in 1..Len(Tail(line)) : Tail(line)[i] = line[i + 1]
    BY <1>4, <1>5, HeadTailProperties
  <2>2. ASSUME NEW i \in 1..Len(d) PROVE Tail(line)[i] = d[i]
    <3> HIDE DEF line
    <3>1. i \in 1..Len(Tail(line)) /\ i + 1 \in 1..(1 + Len(d)) /\ ~(i + 1 <= 1) /\ (i + 1) - 1 = i
      BY <1>4, <2>1
    <3>2. Tail(line)[i] = line[i + 1]
      BY <2>1, <3>1
    <3>3. line[i + 1] = d[(i + 1) - 1]
      BY <1>4, <3>1
    <3> QED
      BY <3>1, <3>2, <3>3
  <2> HIDE DEF line
  <2> QED
    BY SMTT(30), <1>1, <1>4, <2>1, <2>2, SeqEqual
<1> HIDE DEF line, L
<1>7. ASSUME NEW i \in 1..L PROVE line[i] # CR /\ line[i] # LF
  <2>1. CASE i = 1
    BY <1>2, <1>5, <2>1
  <2>2. CASE i # 1
    <3>1. i \in 1..(1 + Len(d)) /\ ~(i <= 1) /\ i - 1 \in 1..Len(d)
      BY <1>4, <2>2
    <3>2. line[i] = d[i - 1] /\ d[i - 1] \in Zero..(Zero + 9)
      BY <1>1, <1>4, <3>1
    <3> QED
      BY <3>2 DEF Zero, CR, LF
  <2> QED
    BY <2>1, <2>2
<1>8. /\ s \in Seq(Nat) /\ Len(s) = L + 2 /\ L \in Nat
      /\ \A i \in 1..(L + 2) : s[i] = IF i <= L THEN line[i] ELSE CRLF[i - L]
  BY <1>4, PlusCrLf DEF L
<1> HIDE DEF s
<1>9. s[L + 1] = CR /\ s[L + 2] = LF
  <2>1. /\ L + 1 \in 1..(L + 2) /\ ~(L + 1 <= L) /\ (L + 1) - L = 1
        /\ L + 2 \in 1..(L + 2) /\ ~(L + 2 <= L) /\ (L + 2) - L = 2
    BY <1>8
  <2>2. s[L + 1] = CRLF[(L + 1) - L] /\ s[L + 2] = CRLF[(L + 2) - L]
    BY <1>8, <2>1
  <2> QED
    BY <2>1, <2>2, CrLf
<1>10. ASSUME NEW i \in 2..(L + 2), s[i] = LF PROVE i = L + 2
  <2>1. CASE i <= L
    <3>1. i \in 1..(L + 2) /\ i \in 1..L
      BY <1>8, <2>1
    <3>2. s[i] = line[i]
      BY <1>8, <2>1, <3>1
    <3> QED
      BY <1>7, <1>10, <3>1, <3>2
  <2>2. CASE i = L + 1
    BY <1>9, <1>10, <2>2 DEF CR, LF
  <2> QED
    BY <1>8, <2>1, <2>2
<1>11. LineEnds(s) = {L + 2}
  <2>1. L + 2 \in 2..Len(s) /\ (L + 2) - 1 = L + 1
    BY <1>4, <1>8
  <2>2. s[L + 2] = LF /\ s[(L + 2) - 1] = CR
    BY <1>9, <2>1
  <2>3. \A i \in LineEnds(s) : i = L + 2
    BY <1>8, <1>10 DEF LineEnds
  <2>4. L + 2 \in LineEnds(s)
    BY <2>1, <2>2 DEF LineEnds
  <2> QED
    BY <2>3, <2>4
<1> QED
  BY <1>4, <1>5, <1>6, <1>11 DEF OneLine, line, L, d, s

-----------------------------------------------------------------------------
(* What the peer sends.                                                    *)

(* A command: its bytes and its arguments. *)
Frame == [bytes : Seq(Nat), args : Seq(Seq(Nat))]

(* The length of every argument and of its CR LF fits a usize. *)
Fit(a) == \A i \in 1..Len(a) : Len(a[i]) + 2 <= UsizeMax

(* An array of bulk strings as encode_command writes it. *)
IsArray(f) ==
  /\ Len(f.args) <= UsizeMax /\ Fit(f.args)
  /\ f.bytes = encode_command(f.args)

(* A line of words. *)
IsInline(f) ==
  \E line \in Seq(Nat) :
    /\ OneLine(line) /\ ~(line # <<>> /\ line[1] = Star)
    /\ f.bytes = line \o CRLF
    /\ f.args = Words(line) /\ Words(line) # <<>>

(* What no command starts with. *)
Refused(tail) ==
  \E line \in Seq(Nat), rest \in Seq(Nat) :
    /\ OneLine(line)
    /\ tail = (line \o CRLF) \o rest
    /\ IF line # <<>> /\ line[1] = Star THEN ~is_usize(Tail(line)) ELSE Words(line) = <<>>

Bulks(a) == [i \in 1..Len(a) |-> EncodeBulk(a[i])]

(* The bytes of all arguments but the first k. *)
LeftArgs(a, k) == FlattenSeq(SubSeq(Bulks(a), k + 1, Len(a)))

ValidLength(line) == line # <<>> /\ line[1] = Dollar /\ is_usize(Tail(line))

(* What becomes of the task when only rest follows a length n: too little, *)
(* the wrong end, or a length that does not fit, whatever rest is.         *)
DataEnds(n, rest, outcome) ==
  /\ n \in Nat
  /\ \/ outcome = "read" /\ n + 2 <= UsizeMax /\ Len(rest) < n + 2
     \/ /\ outcome = "error" /\ n + 2 <= UsizeMax /\ Len(rest) >= n + 2
        /\ SubSeq(rest, n + 1, n + 2) # CRLF
     \/ outcome = "overflow" /\ n + 2 > UsizeMax

(* What becomes of it when only stub follows where a length is due: no     *)
(* whole line, a line that is not a length, or a length.                   *)
LengthEnds(stub, outcome) ==
  \/ outcome = "read" /\ ~HasLine(stub)
  \/ \E line \in Seq(Nat), rest \in Seq(Nat) :
       /\ OneLine(line)
       /\ stub = (line \o CRLF) \o rest
       /\ IF ValidLength(line) THEN DataEnds(parse_usize(Tail(line)), rest, outcome)
         ELSE outcome = "error"

(* Fewer arguments than the header promised, then stub. *)
CutOff(tail, outcome) ==
  \E line \in Seq(Nat), a \in Seq(Seq(Nat)), stub \in Seq(Nat) :
    /\ OneLine(line) /\ line # <<>> /\ line[1] = Star
    /\ is_usize(Tail(line)) /\ parse_usize(Tail(line)) \in Nat
    /\ Len(a) < parse_usize(Tail(line)) /\ Fit(a)
    /\ LengthEnds(stub, outcome)
    /\ tail = (line \o CRLF) \o (LeftArgs(a, 0) \o stub)

(* What may follow the last whole command, and how the task ends. *)
TailEnds(tail, outcome) ==
  \/ tail = <<>> /\ outcome = "read"
  \/ Refused(tail) /\ outcome = "error"
  \/ CutOff(tail, outcome)

Pieces(F) == [i \in 1..Len(F) |-> F[i].bytes]

(* The bytes of all commands but the first c, and what follows them. *)
Left(F, tail, c) == FlattenSeq(SubSeq(Pieces(F), c + 1, Len(F))) \o tail

(* The stream is the commands of F and then tail. *)
Sends(in, F, tail) ==
  /\ F \in Seq(Frame) /\ \A i \in 1..Len(F) : IsArray(F[i]) \/ IsInline(F[i])
  /\ tail \in Seq(Nat) /\ TailEnds(tail, in.outcome)
  /\ in.bytes = FlattenSeq(Pieces(F)) \o tail
  /\ in.commands = [i \in 1..Len(F) |-> F[i].args]

(* What the sequences after the k-th make, one at a time. *)
LEMMA FlattenFrom ==
  ASSUME NEW S, NEW ss \in Seq(Seq(S)), NEW k \in 0..Len(ss)
  PROVE  /\ FlattenSeq(SubSeq(ss, k + 1, Len(ss))) \in Seq(S)
         /\ k = 0 => FlattenSeq(SubSeq(ss, k + 1, Len(ss))) = FlattenSeq(ss)
         /\ k = Len(ss) => FlattenSeq(SubSeq(ss, k + 1, Len(ss))) = <<>>
         /\ k < Len(ss) => FlattenSeq(SubSeq(ss, k + 1, Len(ss)))
                             = ss[k + 1] \o FlattenSeq(SubSeq(ss, k + 2, Len(ss)))
<1> DEFINE L == Len(ss)
<1>1. L \in Nat /\ \A i \in 1..L : ss[i] \in Seq(S)
  OBVIOUS
<1>2. ASSUME NEW j \in 1..(L + 1) PROVE SubSeq(ss, j, L) \in Seq(Seq(S))
  <2>1. \A i \in j..L : ss[i] \in Seq(S)
    BY <1>1
  <2> QED
    BY <1>1, <2>1, SubSeqProperties
<1>3. k + 1 \in 1..(L + 1)
  BY <1>1
<1>4. FlattenSeq(SubSeq(ss, k + 1, L)) \in Seq(S)
  BY <1>2, <1>3, FlattenType
<1>5. ASSUME k = 0 PROVE SubSeq(ss, k + 1, L) = ss
  BY <1>5, SubSeqFull
<1>6. ASSUME k = L PROVE FlattenSeq(SubSeq(ss, k + 1, L)) = <<>>
  <2>1. SubSeq(ss, k + 1, L) = <<>>
    BY <1>1, <1>6, SubSeqEmpty
  <2> QED
    BY <2>1, FlattenEmpty
<1>7. ASSUME k < L
      PROVE  FlattenSeq(SubSeq(ss, k + 1, L)) = ss[k + 1] \o FlattenSeq(SubSeq(ss, k + 2, L))
  <2> DEFINE m == k + 1
             x == ss[m]
             r == SubSeq(ss, m + 1, L)
  <2>1. m \in 1..L /\ L \in m..L /\ m + 1 \in 1..(L + 1) /\ m + 1 = k + 2
    BY <1>1, <1>7
  <2>2. x \in Seq(S) /\ r \in Seq(Seq(S))
    BY <1>1, <1>2, <2>1
  <2> HIDE DEF m
  <2>3. SubSeq(ss, m, L) = <<x>> \o r
    BY <2>1, SubSeqRecursiveFirst
  <2> HIDE DEF x, r
  <2>4. FlattenSeq(<<x>> \o r) = x \o FlattenSeq(r)
    BY <2>2, FlattenCons
  <2> QED
    BY <2>1, <2>3, <2>4 DEF x, r, m
<1> QED
  BY <1>4, <1>5, <1>6, <1>7

LEMMA PushType ==
  ASSUME NEW n \in Nat
  PROVE  push_usize(n) \in Seq(Nat)
<1> DEFINE D == Zero..(Zero + 9)
<1>1. push_usize(n) \in Seq(D) /\ D \subseteq Nat
  BY PushedIs DEF Zero
<1> HIDE DEF D
<1> QED
  BY <1>1, SeqMonotonic

LEMMA Regroup == \A x, y, z \in Seq(Nat) : (x \o y) \o z = x \o (y \o z)
BY SMTT(30), ConcatAssociative

(* How a bulk string is laid out in front of other bytes. *)
LEMMA BulkLayout ==
  ASSUME NEW data \in Seq(Nat)
  PROVE  /\ EncodeBulk(data) \in Seq(Nat)
         /\ \A rest \in Seq(Nat) :
              EncodeBulk(data) \o rest
                = ((<<Dollar>> \o push_usize(Len(data))) \o CRLF) \o ((data \o CRLF) \o rest)
<1> DEFINE e == CRLF
           line == <<Dollar>> \o push_usize(Len(data))
           h == line \o e
<1>1. e \in Seq(Nat)
  BY CrLf
<1>2. <<Dollar>> \in Seq(Nat) /\ Len(data) \in Nat
  BY DEF Dollar
<1>3. push_usize(Len(data)) \in Seq(Nat)
  BY <1>2, PushType
<1>4. line \in Seq(Nat)
  BY <1>2, <1>3, ConcatProperties
<1>5. EncodeBulk(data) = (h \o data) \o e
  BY DEF EncodeBulk
<1> HIDE DEF e, line
<1>6. h \in Seq(Nat)
  BY <1>1, <1>4, ConcatProperties
<1> HIDE DEF h
<1>7. data \o e \in Seq(Nat) /\ (h \o data) \o e = h \o (data \o e)
  BY SMTT(30), <1>1, <1>6, ConcatProperties, ConcatAssociative
<1> DEFINE d == data \o e
<1>8. d \in Seq(Nat)
  BY <1>7
<1> HIDE DEF d
<1>9. h \o d \in Seq(Nat)
  BY <1>6, <1>8, ConcatProperties
<1>10. ASSUME NEW rest \in Seq(Nat) PROVE (h \o d) \o rest = h \o (d \o rest)
  <2>1. h \in Seq(Nat) /\ d \in Seq(Nat) /\ rest \in Seq(Nat)
    BY <1>6, <1>8
  <2> QED
    BY <2>1, Regroup
<1> QED
  BY <1>5, <1>7, <1>9, <1>10 DEF d, h, line, e

LEMMA BulksType ==
  ASSUME NEW a \in Seq(Seq(Nat))
  PROVE  /\ Bulks(a) \in Seq(Seq(Nat)) /\ Len(Bulks(a)) = Len(a)
         /\ \A i \in 1..Len(a) : Bulks(a)[i] = EncodeBulk(a[i])
<1>1. Len(a) \in Nat /\ \A i \in 1..Len(a) : a[i] \in Seq(Nat)
  OBVIOUS
<1>2. \A i \in 1..Len(a) : EncodeBulk(a[i]) \in Seq(Nat)
  BY <1>1, BulkLayout
<1>3. Bulks(a) \in [1..Len(a) -> Seq(Nat)]
  BY <1>2 DEF Bulks
<1>4. Bulks(a) \in Seq(Seq(Nat)) /\ Len(Bulks(a)) = Len(a)
  <2> DEFINE n == Len(a)
             b == Bulks(a)
             T == Seq(Nat)
  <2>1. n \in Nat /\ b \in [1..n -> T]
    BY <1>1, <1>3
  <2> HIDE DEF n, b, T
  <2>2. b \in Seq(T) /\ Len(b) = n
    BY <2>1
  <2> QED
    BY <2>2 DEF n, b, T
<1>5. \A i \in 1..Len(a) : Bulks(a)[i] = EncodeBulk(a[i])
  BY DEF Bulks
<1> QED
  BY <1>4, <1>5

LEMMA LeftArgsIs ==
  ASSUME NEW a \in Seq(Seq(Nat)), NEW k \in 0..Len(a)
  PROVE  /\ LeftArgs(a, k) \in Seq(Nat)
         /\ k = 0 => LeftArgs(a, k) = FlattenSeq(Bulks(a))
         /\ k = Len(a) => LeftArgs(a, k) = <<>>
         /\ k < Len(a) => LeftArgs(a, k) = EncodeBulk(a[k + 1]) \o LeftArgs(a, k + 1)
<1> DEFINE ss == Bulks(a)
<1>1. /\ ss \in Seq(Seq(Nat)) /\ Len(ss) = Len(a)
      /\ \A i \in 1..Len(a) : ss[i] = EncodeBulk(a[i])
  BY BulksType
<1>2. k \in 0..Len(ss) /\ (k < Len(a) => k + 1 \in 1..Len(a)) /\ (k + 1) + 1 = k + 2
  BY <1>1
<1> HIDE DEF ss
<1>3. /\ FlattenSeq(SubSeq(ss, k + 1, Len(ss))) \in Seq(Nat)
      /\ k = 0 => FlattenSeq(SubSeq(ss, k + 1, Len(ss))) = FlattenSeq(ss)
      /\ k = Len(ss) => FlattenSeq(SubSeq(ss, k + 1, Len(ss))) = <<>>
      /\ k < Len(ss) => FlattenSeq(SubSeq(ss, k + 1, Len(ss)))
                             = ss[k + 1] \o FlattenSeq(SubSeq(ss, k + 2, Len(ss)))
  BY <1>1, <1>2, FlattenFrom
<1>4. LeftArgs(a, k) = FlattenSeq(SubSeq(ss, k + 1, Len(ss)))
  BY <1>1 DEF LeftArgs, ss
<1>5. LeftArgs(a, k + 1) = FlattenSeq(SubSeq(ss, k + 2, Len(ss)))
  BY <1>1, <1>2 DEF LeftArgs, ss
<1> QED
  BY <1>1, <1>2, <1>3, <1>4, <1>5 DEF ss

(* How a command is laid out. *)
LEMMA CommandLayout ==
  ASSUME NEW a \in Seq(Seq(Nat)), NEW rest \in Seq(Nat)
  PROVE  encode_command(a) \o rest
           = ((<<Star>> \o push_usize(Len(a))) \o CRLF) \o (LeftArgs(a, 0) \o rest)
<1> DEFINE e == CRLF
           line == <<Star>> \o push_usize(Len(a))
           h == line \o e
           w == LeftArgs(a, 0)
<1>1. e \in Seq(Nat)
  BY CrLf
<1>2. <<Star>> \in Seq(Nat) /\ Len(a) \in Nat /\ 0 \in 0..Len(a)
  BY DEF Star
<1>3. push_usize(Len(a)) \in Seq(Nat)
  BY <1>2, PushType
<1>4. line \in Seq(Nat)
  BY <1>2, <1>3, ConcatProperties
<1>5. w \in Seq(Nat) /\ w = FlattenSeq(Bulks(a))
  BY <1>2, LeftArgsIs
<1>6. encode_command(a) = h \o w
  <2>1. DOMAIN a = 1..Len(a)
    OBVIOUS
  <2> HIDE DEF w
  <2> QED
    BY <1>5, <2>1 DEF encode_command, Bulks
<1> HIDE DEF e, line, w
<1>7. h \in Seq(Nat)
  BY <1>1, <1>4, ConcatProperties
<1> HIDE DEF h
<1>8. (h \o w) \o rest = h \o (w \o rest)
  BY <1>5, <1>7, ConcatAssociative
<1> QED
  BY <1>6, <1>8 DEF h, line, e, w

LEMMA LeftIs ==
  ASSUME NEW F \in Seq(Frame), NEW tail \in Seq(Nat), NEW c \in 0..Len(F)
  PROVE  /\ Left(F, tail, c) \in Seq(Nat)
         /\ c = 0 => Left(F, tail, c) = FlattenSeq(Pieces(F)) \o tail
         /\ c = Len(F) => Left(F, tail, c) = tail
         /\ c < Len(F) => /\ F[c + 1].bytes \in Seq(Nat)
                          /\ Left(F, tail, c) = F[c + 1].bytes \o Left(F, tail, c + 1)
<1> DEFINE ss == Pieces(F)
<1>1. Len(F) \in Nat /\ \A i \in 1..Len(F) : F[i].bytes \in Seq(Nat)
  <2>1. \A i \in 1..Len(F) : F[i] \in Frame
    OBVIOUS
  <2> QED
    BY <2>1 DEF Frame
<1>2. ss \in [1..Len(F) -> Seq(Nat)]
  BY <1>1 DEF Pieces
<1>3. ss \in Seq(Seq(Nat)) /\ Len(ss) = Len(F)
  BY <1>1, <1>2
<1>4. \A i \in 1..Len(F) : ss[i] = F[i].bytes
  BY DEF Pieces
<1>5. c \in 0..Len(ss) /\ (c < Len(F) => c + 1 \in 1..Len(F) /\ c + 1 \in 0..Len(ss)) /\ (c + 1) + 1 = c + 2
  BY <1>1, <1>3
<1> HIDE DEF ss
<1> DEFINE G(k) == FlattenSeq(SubSeq(ss, k + 1, Len(ss)))
<1>6. /\ G(c) \in Seq(Nat)
      /\ c = 0 => G(c) = FlattenSeq(ss)
      /\ c = Len(ss) => G(c) = <<>>
      /\ c < Len(ss) => G(c) = ss[c + 1] \o FlattenSeq(SubSeq(ss, c + 2, Len(ss)))
  BY <1>3, <1>5, FlattenFrom
<1>7. Left(F, tail, c) = G(c) \o tail /\ Left(F, tail, c + 1) = G(c + 1) \o tail
  BY <1>3 DEF Left, ss
<1>8. c < Len(F) => G(c + 1) \in Seq(Nat)
  BY <1>3, <1>5, FlattenFrom
<1>9. G(c + 1) = FlattenSeq(SubSeq(ss, c + 2, Len(ss)))
  BY <1>5
<1> HIDE DEF G
<1>10. Left(F, tail, c) \in Seq(Nat)
  BY <1>6, <1>7, ConcatProperties
<1>11. ASSUME c = Len(F) PROVE Left(F, tail, c) = tail
  BY <1>3, <1>6, <1>7, <1>11, ConcatEmptySeq
<1>12. ASSUME c < Len(F)
       PROVE  /\ F[c + 1].bytes \in Seq(Nat)
              /\ Left(F, tail, c) = F[c + 1].bytes \o Left(F, tail, c + 1)
  <2> DEFINE x == F[c + 1].bytes
             y == G(c + 1)
  <2>1. x \in Seq(Nat) /\ y \in Seq(Nat) /\ ss[c + 1] = x
    BY <1>1, <1>4, <1>5, <1>8, <1>12
  <2>2. G(c) = x \o y
    BY <1>3, <1>6, <1>9, <1>12, <2>1
  <2> HIDE DEF x, y
  <2>3. (x \o y) \o tail = x \o (y \o tail)
    BY <2>1, Regroup
  <2> QED
    BY <1>7, <2>1, <2>2, <2>3 DEF x, y
<1> QED
  BY <1>6, <1>7, <1>10, <1>11, <1>12 DEF ss

-----------------------------------------------------------------------------
(* Where the parser p is in the commands F followed by tail, when it has   *)
(* returned c of them and w is what it has not consumed.                   *)

ParserType ==
  [state : {"ArrayLen", "BulkLen", "BulkData"}, args : Seq(Seq(Nat)), remaining : Nat,
   bulk_len : Nat]

InCommand(F, c, p) ==
  /\ c < Len(F) /\ IsArray(F[c + 1])
  /\ Len(p.args) < Len(F[c + 1].args)
  /\ p.args = SubSeq(F[c + 1].args, 1, Len(p.args))
  /\ p.remaining = Len(F[c + 1].args) - Len(p.args)

AtHeader(F, tail, c, p, w) == p.state = "ArrayLen" /\ w = Left(F, tail, c)

AtLength(F, tail, c, p, w) ==
  /\ p.state = "BulkLen" /\ InCommand(F, c, p)
  /\ w = LeftArgs(F[c + 1].args, Len(p.args)) \o Left(F, tail, c + 1)

AtData(F, tail, c, p, w) ==
  LET data == F[c + 1].args[Len(p.args) + 1] IN
  /\ p.state = "BulkData" /\ InCommand(F, c, p)
  /\ p.bulk_len = Len(data)
  /\ w = (data \o CRLF) \o (LeftArgs(F[c + 1].args, Len(p.args) + 1) \o Left(F, tail, c + 1))

(* The header line of what is left, if anything is. *)
InlineHeader(F, tail, c, line) ==
  /\ c < Len(F)
  /\ Left(F, tail, c) = (line \o CRLF) \o Left(F, tail, c + 1)
  /\ ~(line # <<>> /\ line[1] = Star)
  /\ F[c + 1].args = Words(line) /\ Words(line) # <<>>

ArrayHeader(F, tail, c, line) ==
  /\ c < Len(F) /\ IsArray(F[c + 1])
  /\ Left(F, tail, c) = (line \o CRLF) \o (LeftArgs(F[c + 1].args, 0) \o Left(F, tail, c + 1))
  /\ line # <<>> /\ line[1] = Star
  /\ is_usize(Tail(line)) /\ parse_usize(Tail(line)) = Len(F[c + 1].args)

BadHeader(F, tail, c, line, outcome) ==
  /\ c = Len(F) /\ outcome = "error"
  /\ \E rest \in Seq(Nat) : Left(F, tail, c) = (line \o CRLF) \o rest
  /\ IF line # <<>> /\ line[1] = Star THEN ~is_usize(Tail(line)) ELSE Words(line) = <<>>

CutOffHeader(F, tail, c, line, outcome) ==
  /\ c = Len(F)
  /\ line # <<>> /\ line[1] = Star
  /\ is_usize(Tail(line)) /\ parse_usize(Tail(line)) \in Nat
  /\ \E a \in Seq(Seq(Nat)), stub \in Seq(Nat) :
       /\ Len(a) < parse_usize(Tail(line)) /\ Fit(a)
       /\ LengthEnds(stub, outcome)
       /\ Left(F, tail, c) = (line \o CRLF) \o (LeftArgs(a, 0) \o stub)

LEMMA HeaderLayout ==
  ASSUME NEW in, NEW F, NEW tail, Sends(in, F, tail), NEW c \in 0..Len(F)
  PROVE  \/ c = Len(F) /\ in.outcome = "read" /\ Left(F, tail, c) = <<>>
         \/ \E line \in Seq(Nat) :
              /\ OneLine(line)
              /\ \/ InlineHeader(F, tail, c, line)
                 \/ ArrayHeader(F, tail, c, line)
                 \/ BadHeader(F, tail, c, line, in.outcome)
                 \/ CutOffHeader(F, tail, c, line, in.outcome)
<1>1. /\ F \in Seq(Frame) /\ tail \in Seq(Nat) /\ TailEnds(tail, in.outcome)
      /\ \A i \in 1..Len(F) : IsArray(F[i]) \/ IsInline(F[i])
  BY DEF Sends
<1>2. Len(F) \in Nat
  BY <1>1
<1>3. CASE c = Len(F)
  <2>1. Left(F, tail, c) = tail
    BY <1>1, <1>3, LeftIs
  <2>2. CASE tail = <<>> /\ in.outcome = "read"
    BY <1>3, <2>1, <2>2
  <2>3. CASE Refused(tail) /\ in.outcome = "error"
    <3>1. PICK line \in Seq(Nat), rest \in Seq(Nat) :
            /\ OneLine(line)
            /\ tail = (line \o CRLF) \o rest
            /\ IF line # <<>> /\ line[1] = Star THEN ~is_usize(Tail(line)) ELSE Words(line) = <<>>
      BY <2>3 DEF Refused
    <3>2. BadHeader(F, tail, c, line, in.outcome)
      BY <1>3, <2>1, <2>3, <3>1 DEF BadHeader
    <3> QED
      BY <3>1, <3>2
  <2>4. CASE CutOff(tail, in.outcome)
    <3>1. PICK line \in Seq(Nat), a \in Seq(Seq(Nat)), stub \in Seq(Nat) :
            /\ OneLine(line) /\ line # <<>> /\ line[1] = Star
            /\ is_usize(Tail(line)) /\ parse_usize(Tail(line)) \in Nat
            /\ Len(a) < parse_usize(Tail(line)) /\ Fit(a)
            /\ LengthEnds(stub, in.outcome)
            /\ tail = (line \o CRLF) \o (LeftArgs(a, 0) \o stub)
      BY <2>4 DEF CutOff
    <3>2. CutOffHeader(F, tail, c, line, in.outcome)
      BY Zenon, <1>3, <2>1, <3>1 DEF CutOffHeader
    <3> QED
      BY <3>1, <3>2
  <2> QED
    BY <1>1, <2>2, <2>3, <2>4 DEF TailEnds
<1>4. CASE c # Len(F)
  <2> DEFINE f == F[c + 1]
             a == f.args
             later == Left(F, tail, c + 1)
  <2>1. c < Len(F) /\ c + 1 \in 1..Len(F) /\ c + 1 \in 0..Len(F)
    BY <1>2, <1>4
  <2>2. f \in Frame /\ (IsArray(f) \/ IsInline(f))
    BY <1>1, <2>1
  <2>3. Left(F, tail, c) = f.bytes \o later
    BY <1>1, <2>1, LeftIs
  <2>4. later \in Seq(Nat)
    BY <1>1, <2>1, LeftIs
  <2>5. a \in Seq(Seq(Nat))
    BY <2>2 DEF Frame
  <2> HIDE DEF later
  <2>6. CASE IsInline(f)
    <3>1. PICK line \in Seq(Nat) :
            /\ OneLine(line) /\ ~(line # <<>> /\ line[1] = Star)
            /\ f.bytes = line \o CRLF
            /\ f.args = Words(line) /\ Words(line) # <<>>
      BY <2>6 DEF IsInline
    <3>2. InlineHeader(F, tail, c, line)
      BY <2>1, <2>3, <3>1 DEF InlineHeader, later
    <3> QED
      BY <3>1, <3>2
  <2>7. CASE IsArray(f)
    <3> DEFINE line == <<Star>> \o push_usize(Len(a))
    <3>1. Len(a) \in Nat /\ Len(a) <= UsizeMax /\ f.bytes = encode_command(a)
      BY <2>5, <2>7 DEF IsArray
    <3>2. f.bytes \o later = (line \o CRLF) \o (LeftArgs(a, 0) \o later)
      <4> HIDE DEF a
      <4> QED
        BY <2>4, <2>5, <3>1, CommandLayout
    <3>3. /\ line \in Seq(Nat) /\ OneLine(line)
          /\ line # <<>> /\ line[1] = Star /\ Tail(line) = push_usize(Len(a))
      <4> DEFINE n == Len(a)
      <4>1. n \in Nat /\ n <= UsizeMax
        BY <3>1
      <4> HIDE DEF n
      <4>2. LET l == <<Star>> \o push_usize(n) IN
            /\ l \in Seq(Nat) /\ OneLine(l)
            /\ l # <<>> /\ l[1] = Star /\ Tail(l) = push_usize(n)
        BY <4>1, NumberLine
      <4> QED
        BY <4>2 DEF n
    <3>4. is_usize(push_usize(Len(a))) /\ parse_usize(push_usize(Len(a))) = Len(a)
      BY <3>1, UsizeReadBack
    <3> HIDE DEF line
    <3>5. ArrayHeader(F, tail, c, line)
      BY <2>1, <2>3, <2>7, <3>2, <3>3, <3>4 DEF ArrayHeader, later
    <3> QED
      BY <3>3, <3>5
  <2> QED
    BY <2>2, <2>6, <2>7
<1> QED
  BY <1>3, <1>4

(* A length line in front of that much data. *)
LengthOf(line, n) ==
  line # <<>> /\ line[1] = Dollar /\ is_usize(Tail(line)) /\ parse_usize(Tail(line)) = n

(* How the next argument is laid out. *)
LEMMA ArgumentLayout ==
  ASSUME NEW a \in Seq(Seq(Nat)), Fit(a), NEW k \in Nat, k < Len(a), NEW later \in Seq(Nat)
  PROVE  LET data == a[k + 1]
             rest == LeftArgs(a, k + 1) \o later
         IN /\ data \in Seq(Nat) /\ k + 1 \in 1..Len(a) /\ Len(data) + 2 <= UsizeMax
            /\ rest \in Seq(Nat)
            /\ \E line \in Seq(Nat) :
                 /\ OneLine(line) /\ LengthOf(line, Len(data))
                 /\ LeftArgs(a, k) \o later = (line \o CRLF) \o ((data \o CRLF) \o rest)
<1> DEFINE data == a[k + 1]
           more == LeftArgs(a, k + 1)
           n == Len(data)
           line == <<Dollar>> \o push_usize(n)
<1>1. Len(a) \in Nat
  OBVIOUS
<1>2. k + 1 \in 1..Len(a) /\ k + 1 \in 0..Len(a) /\ k \in 0..Len(a)
  BY <1>1
<1>3. data \in Seq(Nat) /\ n + 2 <= UsizeMax
  BY <1>2 DEF Fit
<1>4. more \in Seq(Nat) /\ LeftArgs(a, k) = EncodeBulk(data) \o more
  BY <1>2, LeftArgsIs
<1> HIDE DEF data, more
<1>5. n \in Nat /\ n <= UsizeMax
  BY <1>3, WireAssumption
<1>6. more \o later \in Seq(Nat)
  BY <1>4, ConcatProperties
<1>7. EncodeBulk(data) \in Seq(Nat)
  BY <1>3, BulkLayout
<1>8. (EncodeBulk(data) \o more) \o later = EncodeBulk(data) \o (more \o later)
  BY <1>4, <1>7, Regroup
<1>9. EncodeBulk(data) \o (more \o later) = (line \o CRLF) \o ((data \o CRLF) \o (more \o later))
  BY <1>3, <1>6, BulkLayout
<1> HIDE DEF n
<1>10. /\ line \in Seq(Nat) /\ OneLine(line)
       /\ line # <<>> /\ line[1] = Dollar /\ Tail(line) = push_usize(n)
  <2>1. Dollar \in {Star, Dollar}
    OBVIOUS
  <2> QED
    BY Zenon, <1>5, <2>1, NumberLine
<1>11. is_usize(push_usize(n)) /\ parse_usize(push_usize(n)) = n
  BY <1>5, UsizeReadBack
<1> HIDE DEF line
<1>12. LeftArgs(a, k) \o later = (line \o CRLF) \o ((data \o CRLF) \o (more \o later))
  BY Zenon, <1>4, <1>8, <1>9
<1>13. LengthOf(line, n)
  BY Zenon, <1>10, <1>11 DEF LengthOf
<1> QED
  BY <1>2, <1>3, <1>6, <1>10, <1>12, <1>13 DEF data, more, n

(* The length line of the next argument. *)
LengthLine(F, tail, c, p, line) ==
  LET a == F[c + 1].args
      data == a[Len(p.args) + 1]
  IN /\ LeftArgs(a, Len(p.args)) \o Left(F, tail, c + 1)
           = (line \o CRLF) \o ((data \o CRLF) \o
               (LeftArgs(a, Len(p.args) + 1) \o Left(F, tail, c + 1)))
     /\ LengthOf(line, Len(data))

LEMMA LengthLayout ==
  ASSUME NEW in, NEW F, NEW tail, Sends(in, F, tail), NEW c \in 0..Len(F),
         NEW p \in ParserType, InCommand(F, c, p)
  PROVE  LET a == F[c + 1].args
             data == a[Len(p.args) + 1]
         IN /\ a \in Seq(Seq(Nat)) /\ data \in Seq(Nat) /\ Len(p.args) + 1 \in 1..Len(a)
            /\ Len(data) + 2 <= UsizeMax
            /\ LeftArgs(a, Len(p.args) + 1) \o Left(F, tail, c + 1) \in Seq(Nat)
            /\ \E line \in Seq(Nat) : OneLine(line) /\ LengthLine(F, tail, c, p, line)
<1> DEFINE a == F[c + 1].args
           k == Len(p.args)
           data == a[k + 1]
           later == Left(F, tail, c + 1)
           rest == LeftArgs(a, k + 1) \o later
<1>1. F \in Seq(Frame) /\ tail \in Seq(Nat) /\ Len(F) \in Nat
  BY DEF Sends
<1>2. /\ c < Len(F) /\ IsArray(F[c + 1]) /\ k < Len(a)
  BY DEF InCommand
<1>3. c + 1 \in 1..Len(F) /\ c + 1 \in 0..Len(F)
  BY <1>1, <1>2
<1>4. F[c + 1] \in Frame
  BY <1>1, <1>3
<1>5. a \in Seq(Seq(Nat)) /\ Fit(a)
  BY <1>2, <1>4 DEF Frame, IsArray
<1>6. k \in Nat
  BY DEF ParserType
<1>7. later \in Seq(Nat)
  BY <1>1, <1>3, LeftIs
<1> HIDE DEF a, k, later
<1>8. /\ data \in Seq(Nat) /\ k + 1 \in 1..Len(a) /\ Len(data) + 2 <= UsizeMax
      /\ rest \in Seq(Nat)
      /\ \E line \in Seq(Nat) :
           /\ OneLine(line) /\ LengthOf(line, Len(data))
           /\ LeftArgs(a, k) \o later = (line \o CRLF) \o ((data \o CRLF) \o rest)
  BY Zenon, <1>2, <1>5, <1>6, <1>7, ArgumentLayout
<1>9. \E line \in Seq(Nat) : OneLine(line) /\ LengthLine(F, tail, c, p, line)
  <2>1. PICK line \in Seq(Nat) :
           /\ OneLine(line) /\ LengthOf(line, Len(data))
           /\ LeftArgs(a, k) \o later = (line \o CRLF) \o ((data \o CRLF) \o rest)
    BY Zenon, <1>8
  <2>2. LengthLine(F, tail, c, p, line)
    BY Zenon, <2>1 DEF LengthLine, a, k, later
  <2> QED
    BY Zenon, <2>1, <2>2
<1> QED
  BY Zenon, <1>5, <1>8, <1>9 DEF a, k, later

-----------------------------------------------------------------------------
(* The inductive invariant of the parser.                                  *)

(* It waits only for what has not arrived, as long as the length fits. *)
Starved(p, b) ==
  IF p.state = "BulkData" THEN p.bulk_len + 2 <= UsizeMax => Len(b) < p.bulk_len + 2
  ELSE ~HasLine(b)

InStep(F, tail, c, p, w) ==
  AtHeader(F, tail, c, p, w) \/ AtLength(F, tail, c, p, w) \/ AtData(F, tail, c, p, w)

(* In a command that is never returned, all but k of the arguments a that  *)
(* it has are left, and stub; fewer than are still promised.               *)
InCutOff(a, k, stub, p, outcome) ==
  /\ a \in Seq(Seq(Nat)) /\ Fit(a) /\ k \in 0..Len(a)
  /\ Len(a) - k < p.remaining
  /\ stub \in Seq(Nat) /\ LengthEnds(stub, outcome)

AtLastLength(p, w, outcome) ==
  /\ p.state = "BulkLen"
  /\ \E a, k, stub :
       InCutOff(a, k, stub, p, outcome) /\ w = LeftArgs(a, k) \o stub

AtLastData(p, w, outcome) ==
  /\ p.state = "BulkData"
  /\ \E a, k, stub :
       /\ InCutOff(a, k, stub, p, outcome) /\ k < Len(a)
       /\ p.bulk_len = Len(a[k + 1])
       /\ w = (a[k + 1] \o CRLF) \o (LeftArgs(a, k + 1) \o stub)

AtStub(p, w, outcome) == p.state = "BulkData" /\ DataEnds(p.bulk_len, w, outcome)

InLast(p, w, outcome) ==
  AtLastLength(p, w, outcome) \/ AtLastData(p, w, outcome) \/ AtStub(p, w, outcome)

(* The commands returned are the first of F, and what is unread is what    *)
(* follows them, up to the place in a command where the parser is.         *)
ParserAt(F, tail) ==
  /\ sent \in 0..Len(input.bytes) /\ buf \in Seq(Nat) /\ parser \in ParserType
  /\ Len(commands) \in 0..Len(F)
  /\ commands = SubSeq(input.commands, 1, Len(commands))
  /\ phase \in {"read", "parse", "closed", "error", "panic"}
  /\ phase \in {"error", "panic"} =>
       Len(commands) = Len(F) /\ (input.outcome # "overflow" => phase = input.outcome)
  /\ phase \in {"read", "parse"} =>
       LET w == buf \o Drop(input.bytes, sent) IN
       \/ InStep(F, tail, Len(commands), parser, w)
       \/ Len(commands) = Len(F) /\ InLast(parser, w, input.outcome)
  /\ phase = "read" => Starved(parser, buf)

ParserInv == \A F, tail : Sends(input, F, tail) => ParserAt(F, tail)

LEMMA SentFacts ==
  ASSUME NEW in, NEW F, NEW tail, Sends(in, F, tail)
  PROVE  /\ in.bytes \in Seq(Nat) /\ in.bytes = Left(F, tail, 0)
         /\ in.commands \in Seq(Seq(Seq(Nat))) /\ Len(in.commands) = Len(F)
         /\ Len(F) \in Nat /\ Len(in.bytes) \in Nat
         /\ \A i \in 1..Len(F) : in.commands[i] = F[i].args
<1>1. /\ F \in Seq(Frame) /\ tail \in Seq(Nat) /\ in.bytes = FlattenSeq(Pieces(F)) \o tail
      /\ in.commands = [i \in 1..Len(F) |-> F[i].args]
  BY DEF Sends
<1>2. Len(F) \in Nat /\ 0 \in 0..Len(F) /\ \A i \in 1..Len(F) : F[i] \in Frame
  BY <1>1
<1>3. in.bytes = Left(F, tail, 0) /\ in.bytes \in Seq(Nat)
  <2>1. PICK z : z = 0
    OBVIOUS
  <2>2. z \in 0..Len(F)
    BY <1>2, <2>1
  <2>3. Left(F, tail, z) \in Seq(Nat) /\ (z = 0 => Left(F, tail, z) = FlattenSeq(Pieces(F)) \o tail)
    BY <1>1, <2>2, LeftIs
  <2> QED
    BY <1>1, <2>1, <2>3
<1>4. in.commands \in [1..Len(F) -> Seq(Seq(Nat))]
  BY <1>1, <1>2 DEF Frame
<1>5. in.commands \in Seq(Seq(Seq(Nat))) /\ Len(in.commands) = Len(F)
  <2> DEFINE n == Len(F)
             b == in.commands
             T == Seq(Seq(Nat))
  <2>1. n \in Nat /\ b \in [1..n -> T]
    BY <1>2, <1>4
  <2> HIDE DEF n, b, T
  <2>2. b \in Seq(T) /\ Len(b) = n
    BY <2>1
  <2> QED
    BY <2>2 DEF n, b, T
<1> QED
  BY <1>1, <1>2, <1>3, <1>5

(* One more command has been returned. *)
LEMMA OneMoreCommand ==
  ASSUME NEW in, NEW F, NEW tail, Sends(in, F, tail), NEW cs,
         Len(cs) \in 0..Len(F), Len(cs) < Len(F), cs = SubSeq(in.commands, 1, Len(cs))
  PROVE  /\ Len(Append(cs, F[Len(cs) + 1].args)) = Len(cs) + 1
         /\ Len(cs) + 1 \in 0..Len(F)
         /\ Append(cs, F[Len(cs) + 1].args) = SubSeq(in.commands, 1, Len(cs) + 1)
<1> DEFINE s == in.commands
           c == Len(cs)
           T == Seq(Seq(Nat))
           new == Append(cs, s[c + 1])
<1>1. s \in Seq(T) /\ Len(s) = Len(F) /\ Len(F) \in Nat /\ \A i \in 1..Len(F) : s[i] = F[i].args
  BY SentFacts
<1>2. c \in Nat /\ c + 1 \in 1..Len(s) /\ c + 1 \in 0..Len(F) /\ s[c + 1] = F[c + 1].args
  BY <1>1
<1>3. cs = SubSeq(s, 1, c)
  OBVIOUS
<1> HIDE DEF s, T, c
<1>4. cs \in Seq(T) /\ Len(cs) = c
  <2>1. \A i \in 1..c : s[i] \in T
    BY <1>1, <1>2
  <2>2. SubSeq(s, 1, c) \in Seq(T)
    BY <1>2, <2>1, SubSeqProperties
  <2> QED
    BY <1>3, <2>2 DEF c
<1>5. SubSeq(s, 1, c + 1) = SubSeq(s, 1, c) \o <<s[c + 1]>>
  <2> DEFINE m == c + 1
  <2>1. m \in 1..Len(s) /\ 1 \in 1..Len(s) /\ m \in 1..Len(s) /\ m - 1 = c
    BY <1>1, <1>2
  <2> HIDE DEF m
  <2>2. SubSeq(s, 1, m) = SubSeq(s, 1, m - 1) \o <<s[m]>>
    BY <1>1, <2>1, SubSeqRecursiveSecond
  <2> QED
    BY <2>1, <2>2 DEF m
<1>6. s[c + 1] \in T
  BY <1>1, <1>2
<1>7. new = cs \o <<s[c + 1]>> /\ Len(new) = c + 1
  <2> DEFINE x == s[c + 1]
  <2>1. x \in T
    BY <1>6
  <2> HIDE DEF x
  <2>2. Append(cs, x) = cs \o <<x>> /\ Len(Append(cs, x)) = Len(cs) + 1
    BY <1>4, <2>1, AppendIsConcat, AppendProperties
  <2> QED
    BY <1>4, <2>2 DEF x
<1>8. new = SubSeq(s, 1, c + 1)
  BY <1>3, <1>5, <1>7
<1> QED
  BY <1>2, <1>7, <1>8 DEF s, c

LEMMA NoLineInNothing == ~HasLine(<<>>)
BY DEF HasLine, LineEnds

(* Unread bytes are a sequence. *)
LEMMA UnreadType ==
  ASSUME NEW s \in Seq(Nat), NEW n \in 0..Len(s)
  PROVE  Drop(s, n) \in Seq(Nat)
<1>1. n + 1 \in Int /\ Len(s) \in Int /\ \A i \in (n + 1)..Len(s) : s[i] \in Nat
  OBVIOUS
<1> QED
  BY <1>1, SubSeqProperties DEF Drop

(* ParseArrayLen stays in step with the stream. *)
LEMMA ArrayLenStep ==
  ASSUME NEW F, NEW tail, Sends(input, F, tail), ParserAt(F, tail), phase = "parse",
         parser.state = "ArrayLen", ParseArrayLen, UNCHANGED <<input, sent>>
  PROVE  ParserAt(F, tail)'
<1> DEFINE c == Len(commands)
           u == Drop(input.bytes, sent)
           later == Left(F, tail, c + 1)
<1>1. /\ sent \in 0..Len(input.bytes) /\ buf \in Seq(Nat) /\ parser \in ParserType
      /\ c \in 0..Len(F) /\ commands = SubSeq(input.commands, 1, c)
  BY DEF ParserAt
<1>2. buf \o u = Left(F, tail, c)
  BY DEF ParserAt, InStep, AtHeader, AtLength, AtData, InLast, AtLastLength, AtLastData, AtStub
<1>3. u \in Seq(Nat) /\ Len(F) \in Nat /\ F \in Seq(Frame) /\ tail \in Seq(Nat)
  BY <1>1, SentFacts, UnreadType DEF Sends
<1>4. u' = u
  BY DEF Drop
<1> HIDE DEF u
<1>5. CASE ~HasLine(buf) /\ NeedMore
  <2>1. /\ phase' = "read" /\ UNCHANGED <<buf, parser, commands>>
    BY <1>5 DEF NeedMore
  <2>2. InStep(F, tail, c, parser, buf \o u)
    BY <1>2 DEF InStep, AtHeader
  <2>3. Starved(parser, buf)
    BY <1>5 DEF Starved
  <2> QED
    BY <1>1, <2>1, <2>2, <2>3 DEF ParserAt, u
<1>6. CASE HasLine(buf)
  <2> DEFINE line == Line(buf)
             rest == AfterLine(buf)
  <2>1. buf' = rest
    BY <1>6 DEF ParseArrayLen
  <2>2. PICK l \in Seq(Nat) :
              /\ OneLine(l)
              /\ \/ InlineHeader(F, tail, c, l)
                 \/ ArrayHeader(F, tail, c, l)
                 \/ BadHeader(F, tail, c, l, input.outcome)
                 \/ CutOffHeader(F, tail, c, l, input.outcome)
    <3>1. ~(c = Len(F) /\ input.outcome = "read" /\ Left(F, tail, c) = <<>>)
      <4>1. SUFFICES ASSUME buf \o u = <<>> PROVE FALSE
        BY <1>2
      <4>2. buf = <<>>
        BY <1>1, <1>3, <4>1, ConcatEqualIffEmpty
      <4> QED
        BY <1>6, <4>2, NoLineInNothing
    <3> QED
      BY <1>1, <3>1, HeaderLayout
  <2>3. ASSUME NEW r \in Seq(Nat), Left(F, tail, c) = (l \o CRLF) \o r
        PROVE  line = l /\ rest \in Seq(Nat) /\ rest \o u = r
    <3>1. buf \o u = (l \o CRLF) \o r
      BY <1>2, <2>3
    <3> QED
      BY <1>1, <1>3, <1>6, <2>2, <3>1, TakeLine
  <2>4. c < Len(F) => /\ c + 1 \in 1..Len(F) /\ later \in Seq(Nat) /\ F[c + 1].args \in Seq(Seq(Nat))
    <3>1. SUFFICES ASSUME c < Len(F) PROVE /\ c + 1 \in 1..Len(F) /\ later \in Seq(Nat)
                                           /\ F[c + 1].args \in Seq(Seq(Nat))
      OBVIOUS
    <3>2. c + 1 \in 1..Len(F) /\ c + 1 \in 0..Len(F)
      BY <1>1, <1>3, <3>1
    <3>3. later \in Seq(Nat)
      BY <1>3, <3>2, LeftIs
    <3>4. F[c + 1] \in Frame
      BY <1>3, <3>2
    <3> QED
      BY <3>2, <3>3, <3>4 DEF Frame
  <2>5. CASE InlineHeader(F, tail, c, l)
    <3>1. /\ c < Len(F) /\ Left(F, tail, c) = (l \o CRLF) \o later
          /\ ~(l # <<>> /\ l[1] = Star) /\ F[c + 1].args = Words(l) /\ Words(l) # <<>>
      BY <2>5 DEF InlineHeader
    <3>2. line = l /\ rest \in Seq(Nat) /\ rest \o u = later
      BY <2>3, <2>4, <3>1
    <3>3. Returns(Words(l)) /\ UNCHANGED <<phase, parser>>
      BY <1>6, <3>1, <3>2 DEF ParseArrayLen
    <3>4. commands' = Append(commands, F[c + 1].args)
      BY <3>1, <3>3 DEF Returns
    <3>5. /\ Len(commands') = c + 1 /\ Len(commands') \in 0..Len(F)
          /\ commands' = SubSeq(input.commands, 1, Len(commands'))
      <4>1. /\ Len(Append(commands, F[Len(commands) + 1].args)) = Len(commands) + 1
            /\ Len(commands) + 1 \in 0..Len(F)
            /\ Append(commands, F[Len(commands) + 1].args) = SubSeq(input.commands, 1, Len(commands) + 1)
        BY <1>1, <3>1, OneMoreCommand
      <4> QED
        BY <3>4, <4>1
    <3>6. InStep(F, tail, c + 1, parser', buf' \o u)
      BY <2>1, <3>2, <3>3 DEF InStep, AtHeader
    <3> QED
      BY <1>1, <1>4, <2>1, <3>2, <3>3, <3>5, <3>6 DEF ParserAt, u
  <2>6. CASE ArrayHeader(F, tail, c, l)
    <3> DEFINE a == F[c + 1].args
    <3>1. /\ c < Len(F) /\ IsArray(F[c + 1])
          /\ Left(F, tail, c) = (l \o CRLF) \o (LeftArgs(a, 0) \o later)
          /\ l # <<>> /\ l[1] = Star
          /\ is_usize(Tail(l)) /\ parse_usize(Tail(l)) = Len(a)
      BY <2>6 DEF ArrayHeader
    <3>2. LeftArgs(a, 0) \in Seq(Nat) /\ (Len(a) = 0 => LeftArgs(a, 0) = <<>>) /\ Len(a) \in Nat
      <4>1. a \in Seq(Seq(Nat)) /\ Len(a) \in Nat /\ 0 \in 0..Len(a)
        BY <2>4, <3>1
      <4> HIDE DEF a
      <4> QED
        BY <4>1, LeftArgsIs
    <3>3. LeftArgs(a, 0) \o later \in Seq(Nat)
      BY <2>4, <3>1, <3>2, ConcatProperties
    <3>4. line = l /\ rest \in Seq(Nat) /\ rest \o u = LeftArgs(a, 0) \o later
      BY <2>3, <3>1, <3>3
    <3>5. /\ parser' = [parser EXCEPT !.args = <<>>, !.remaining = Len(a),
                          !.state = IF Len(a) = 0 THEN "ArrayLen" ELSE "BulkLen"]
          /\ IF Len(a) = 0 THEN Returns(<<>>) /\ UNCHANGED phase ELSE Continues
      BY <1>6, <3>1, <3>4 DEF ParseArrayLen
    <3>6. /\ parser' \in ParserType /\ parser'.args = <<>> /\ parser'.remaining = Len(a)
          /\ parser'.state = IF Len(a) = 0 THEN "ArrayLen" ELSE "BulkLen"
      <4> DEFINE st == IF Len(a) = 0 THEN "ArrayLen" ELSE "BulkLen"
                 n == Len(a)
                 e == <<>>
      <4>1. st \in {"ArrayLen", "BulkLen", "BulkData"} /\ n \in Nat /\ e \in Seq(Seq(Nat))
        BY <3>2, EmptySeq
      <4>2. parser' = [parser EXCEPT !.args = e, !.remaining = n, !.state = st]
        BY <3>5
      <4> HIDE DEF st, n, e
      <4>3. /\ parser' \in ParserType /\ parser'.args = e /\ parser'.remaining = n
            /\ parser'.state = st
        BY <1>1, <4>1, <4>2 DEF ParserType
      <4> QED
        BY <4>3 DEF st, n, e
    <3>7. CASE Len(a) = 0
      <4>1. a = <<>>
        BY <2>4, <3>1, <3>7
      <4>2. commands' = Append(commands, F[c + 1].args) /\ UNCHANGED phase
        BY <3>5, <3>7, <4>1 DEF Returns
      <4>3. /\ Len(commands') = c + 1 /\ Len(commands') \in 0..Len(F)
            /\ commands' = SubSeq(input.commands, 1, Len(commands'))
        <5>1. /\ Len(Append(commands, F[Len(commands) + 1].args)) = Len(commands) + 1
              /\ Len(commands) + 1 \in 0..Len(F)
              /\ Append(commands, F[Len(commands) + 1].args) = SubSeq(input.commands, 1, Len(commands) + 1)
          BY <1>1, <3>1, OneMoreCommand
        <5> QED
          BY <4>2, <5>1
      <4>4. buf' \o u = later
        BY <2>1, <2>4, <3>1, <3>2, <3>4, <3>7, ConcatEmptySeq
      <4>5. InStep(F, tail, c + 1, parser', buf' \o u)
        BY <3>6, <3>7, <4>4 DEF InStep, AtHeader
      <4> QED
        BY <1>1, <1>4, <2>1, <3>4, <3>6, <4>2, <4>3, <4>5 DEF ParserAt, u
    <3>8. CASE Len(a) # 0
      <4>1. UNCHANGED <<phase, commands>>
        BY <3>5, <3>8 DEF Continues
      <4>2. Len(parser'.args) = 0 /\ Len(parser'.args) < Len(a)
        BY <3>2, <3>6, <3>8
      <4>3. parser'.args = SubSeq(a, 1, Len(parser'.args))
        BY <3>6, <4>2, SubSeqEmpty
      <4>4. InCommand(F, c, parser')
        BY <3>1, <3>2, <3>6, <4>2, <4>3 DEF InCommand
      <4>5. AtLength(F, tail, c, parser', buf' \o u)
        BY <2>1, <3>4, <3>6, <3>8, <4>2, <4>4 DEF AtLength
      <4> QED
        BY <1>1, <1>4, <2>1, <3>4, <3>6, <4>1, <4>5 DEF ParserAt, InStep, u
    <3> QED
      BY <3>7, <3>8
  <2>7. CASE BadHeader(F, tail, c, l, input.outcome)
    <3>1. /\ c = Len(F) /\ input.outcome = "error"
          /\ IF l # <<>> /\ l[1] = Star THEN ~is_usize(Tail(l)) ELSE Words(l) = <<>>
      BY <2>7 DEF BadHeader
    <3>2. PICK r \in Seq(Nat) : Left(F, tail, c) = (l \o CRLF) \o r
      BY <2>7 DEF BadHeader
    <3>3. line = l /\ rest \in Seq(Nat)
      BY <2>3, <3>2
    <3>4. Fails /\ UNCHANGED parser
      BY <1>6, <3>1, <3>3 DEF ParseArrayLen
    <3>5. phase' = "error" /\ UNCHANGED <<commands, parser>>
      BY <3>4 DEF Fails
    <3> QED
      BY <1>1, <2>1, <3>1, <3>3, <3>5 DEF ParserAt
  <2>8. CASE CutOffHeader(F, tail, c, l, input.outcome)
    <3> DEFINE count == parse_usize(Tail(l))
    <3>1. /\ c = Len(F) /\ l # <<>> /\ l[1] = Star /\ is_usize(Tail(l)) /\ count \in Nat
      BY <2>8 DEF CutOffHeader
    <3>2. PICK a \in Seq(Seq(Nat)), stub \in Seq(Nat) :
            /\ Len(a) < count /\ Fit(a) /\ LengthEnds(stub, input.outcome)
            /\ Left(F, tail, c) = (l \o CRLF) \o (LeftArgs(a, 0) \o stub)
      BY <2>8 DEF CutOffHeader
    <3>3. Len(a) \in Nat /\ 0 \in 0..Len(a) /\ LeftArgs(a, 0) \in Seq(Nat)
      BY LeftArgsIs
    <3> DEFINE w == LeftArgs(a, 0) \o stub
    <3>4. w \in Seq(Nat)
      <4> DEFINE x == LeftArgs(a, 0)
      <4>1. x \in Seq(Nat)
        BY <3>3
      <4> HIDE DEF x
      <4>2. x \o stub \in Seq(Nat)
        BY <4>1, ConcatProperties
      <4> QED
        BY <4>2 DEF x
    <3>5. Left(F, tail, c) = (l \o CRLF) \o w
      BY <3>2
    <3> HIDE DEF w, count
    <3>6. line = l /\ rest \in Seq(Nat) /\ rest \o u = w
      BY <2>3, <3>4, <3>5
    <3>7. count # 0
      BY <3>1, <3>2, <3>3
    <3>8. parser' = [parser EXCEPT !.args = <<>>, !.remaining = count, !.state = "BulkLen"] /\ Continues
      BY <1>6, <3>1, <3>6, <3>7 DEF ParseArrayLen, count
    <3>9. parser' \in ParserType /\ parser'.state = "BulkLen" /\ parser'.remaining = count
      <4>1. <<>> \in Seq(Seq(Nat))
        BY EmptySeq
      <4> QED
        BY <1>1, <3>1, <3>8, <4>1 DEF ParserType
    <3>10. UNCHANGED <<phase, commands>>
      BY <3>8 DEF Continues
    <3>11. InCutOff(a, 0, stub, parser', input.outcome)
      BY <3>2, <3>3, <3>9 DEF InCutOff
    <3>12. AtLastLength(parser', buf' \o u, input.outcome)
      BY Zenon, <2>1, <3>6, <3>9, <3>11 DEF AtLastLength, w
    <3> QED
      BY <1>1, <1>4, <2>1, <3>1, <3>6, <3>9, <3>10, <3>12 DEF ParserAt, InLast, u
  <2> QED
    BY <2>2, <2>5, <2>6, <2>7, <2>8
<1> QED
  BY <1>5, <1>6 DEF ParseArrayLen

(* ParseBulkLen stays in step with the stream. *)
LEMMA BulkLenStep ==
  ASSUME NEW F, NEW tail, Sends(input, F, tail), ParserAt(F, tail), phase = "parse",
         AtLength(F, tail, Len(commands), parser, buf \o Drop(input.bytes, sent)),
         ParseBulkLen, UNCHANGED <<input, sent>>
  PROVE  ParserAt(F, tail)'
<1> DEFINE c == Len(commands)
           u == Drop(input.bytes, sent)
           a == F[c + 1].args
           k == Len(parser.args)
           data == a[k + 1]
           later == LeftArgs(a, k + 1) \o Left(F, tail, c + 1)
<1>1. /\ sent \in 0..Len(input.bytes) /\ buf \in Seq(Nat) /\ parser \in ParserType
      /\ c \in 0..Len(F) /\ commands = SubSeq(input.commands, 1, c)
  BY DEF ParserAt
<1>2. AtLength(F, tail, c, parser, buf \o u) /\ parser.state = "BulkLen"
  BY DEF AtLength
<1>3. u \in Seq(Nat)
  BY <1>1, SentFacts, UnreadType
<1>4. u' = u
  BY DEF Drop
<1> HIDE DEF u
<1>5. InCommand(F, c, parser) /\ buf \o u = LeftArgs(a, k) \o Left(F, tail, c + 1)
  BY <1>2 DEF AtLength
<1>6. CASE ~HasLine(buf) /\ NeedMore
  <2>1. /\ phase' = "read" /\ UNCHANGED <<buf, parser, commands>>
    BY <1>6 DEF NeedMore
  <2>2. InStep(F, tail, c, parser, buf \o u)
    BY <1>2 DEF InStep
  <2>3. Starved(parser, buf)
    BY <1>2, <1>6 DEF Starved
  <2> QED
    BY <1>1, <2>1, <2>2, <2>3 DEF ParserAt, u
<1>7. CASE HasLine(buf)
  <2>1. buf' = AfterLine(buf)
    BY <1>7 DEF ParseBulkLen
  <2>2. /\ a \in Seq(Seq(Nat)) /\ data \in Seq(Nat) /\ later \in Seq(Nat)
        /\ \E line \in Seq(Nat) : OneLine(line) /\ LengthLine(F, tail, c, parser, line)
    BY ZenonT(60), <1>1, <1>5, LengthLayout
  <2>12. PICK line \in Seq(Nat) : OneLine(line) /\ LengthLine(F, tail, c, parser, line)
    BY Zenon, <2>2
  <2>3. /\ OneLine(line)
        /\ LeftArgs(a, k) \o Left(F, tail, c + 1) = (line \o CRLF) \o ((data \o CRLF) \o later)
        /\ line # <<>> /\ line[1] = Dollar
        /\ is_usize(Tail(line)) /\ parse_usize(Tail(line)) = Len(data)
    BY <2>12 DEF LengthLine, LengthOf
  <2> HIDE DEF later, data
  <2>4. (data \o CRLF) \o later \in Seq(Nat)
    <3>1. data \o CRLF \in Seq(Nat)
      BY <2>2, PlusCrLf
    <3> QED
      BY <2>2, <3>1, ConcatProperties
  <2>5. buf \o u = (line \o CRLF) \o ((data \o CRLF) \o later)
    BY <1>5, <2>3
  <2>6. /\ Line(buf) = line /\ AfterLine(buf) \in Seq(Nat)
        /\ AfterLine(buf) \o u = (data \o CRLF) \o later
    <3> DEFINE r == (data \o CRLF) \o later
    <3>1. r \in Seq(Nat) /\ buf \o u = (line \o CRLF) \o r
      BY <2>4, <2>5
    <3> HIDE DEF r
    <3>2. /\ Line(buf) = line /\ AfterLine(buf) \in Seq(Nat)
          /\ AfterLine(buf) \o u = r
      BY ZenonT(60), <1>1, <1>3, <1>7, <2>3, <3>1, TakeLine
    <3> QED
      BY <3>2 DEF r
  <2>7. parser' = [parser EXCEPT !.state = "BulkData", !.bulk_len = Len(data)] /\ Continues
    BY <1>7, <2>3, <2>6 DEF ParseBulkLen
  <2>8. UNCHANGED <<phase, commands>>
    BY <2>7 DEF Continues
  <2>9. /\ parser' \in ParserType /\ parser'.args = parser.args
        /\ parser'.remaining = parser.remaining
        /\ parser'.state = "BulkData" /\ parser'.bulk_len = Len(data)
    <3>1. Len(data) \in Nat
      BY <2>2
    <3> QED
      BY <1>1, <2>7, <3>1 DEF ParserType
  <2>10. InCommand(F, c, parser')
    BY <1>5, <2>9 DEF InCommand
  <2>11. AtData(F, tail, c, parser', buf' \o u)
    BY <2>1, <2>6, <2>9, <2>10 DEF AtData, data, later
  <2> QED
    BY <1>1, <1>4, <2>1, <2>6, <2>8, <2>9, <2>11 DEF ParserAt, InStep, u
<1> QED
  BY <1>6, <1>7 DEF ParseBulkLen

(* One more argument. *)
LEMMA OneMoreArgument ==
  ASSUME NEW a \in Seq(Seq(Nat)), NEW args, Len(args) \in Nat, Len(args) < Len(a),
         args = SubSeq(a, 1, Len(args))
  PROVE  /\ Append(args, a[Len(args) + 1]) \in Seq(Seq(Nat))
         /\ Len(Append(args, a[Len(args) + 1])) = Len(args) + 1
         /\ Append(args, a[Len(args) + 1]) = SubSeq(a, 1, Len(args) + 1)
         /\ Len(args) + 1 = Len(a) => Append(args, a[Len(args) + 1]) = a
<1> DEFINE c == Len(args)
           T == Seq(Nat)
           x == a[c + 1]
<1>1. a \in Seq(T) /\ Len(a) \in Nat /\ c \in Nat /\ c < Len(a) /\ args = SubSeq(a, 1, c)
  OBVIOUS
<1> HIDE DEF c, T
<1>2. c + 1 \in 1..Len(a) /\ 1 \in 1..Len(a) /\ (c + 1) - 1 = c /\ \A i \in 1..c : a[i] \in T
  BY <1>1
<1>3. args \in Seq(T)
  BY <1>1, <1>2, SubSeqProperties
<1>4. SubSeq(a, 1, c + 1) = SubSeq(a, 1, c) \o <<x>>
  <2> DEFINE m == c + 1
  <2>1. m \in 1..Len(a) /\ 1 \in 1..Len(a) /\ m - 1 = c
    BY <1>2
  <2> HIDE DEF m
  <2>2. SubSeq(a, 1, m) = SubSeq(a, 1, m - 1) \o <<a[m]>>
    BY <1>1, <2>1, SubSeqRecursiveSecond
  <2> QED
    BY <2>1, <2>2 DEF m
<1>5. x \in T
  BY <1>1, <1>2
<1> HIDE DEF x
<1>6. Append(args, x) = args \o <<x>> /\ Append(args, x) \in Seq(T) /\ Len(Append(args, x)) = Len(args) + 1
  BY <1>3, <1>5, AppendIsConcat, AppendProperties
<1>7. ASSUME c + 1 = Len(a) PROVE SubSeq(a, 1, c + 1) = a
  BY <1>1, <1>7, SubSeqFull
<1> QED
  BY <1>1, <1>4, <1>6, <1>7 DEF c, T, x

(* ParseBulkData stays in step with the stream. *)
LEMMA BulkDataStep ==
  ASSUME NEW F, NEW tail, Sends(input, F, tail), ParserAt(F, tail), phase = "parse",
         AtData(F, tail, Len(commands), parser, buf \o Drop(input.bytes, sent)),
         ParseBulkData, UNCHANGED <<input, sent>>
  PROVE  ParserAt(F, tail)'
<1> DEFINE c == Len(commands)
           u == Drop(input.bytes, sent)
           a == F[c + 1].args
           k == Len(parser.args)
           data == a[k + 1]
           after == Left(F, tail, c + 1)
           later == LeftArgs(a, k + 1) \o after
           n == Len(data)
           args == Append(parser.args, data)
           last == parser.remaining = 1
<1>1. /\ sent \in 0..Len(input.bytes) /\ buf \in Seq(Nat) /\ parser \in ParserType
      /\ c \in 0..Len(F) /\ commands = SubSeq(input.commands, 1, c)
  BY Zenon DEF ParserAt
<1>2. AtData(F, tail, c, parser, buf \o u) /\ parser.state = "BulkData"
  BY DEF AtData
<1>3. u \in Seq(Nat) /\ Len(F) \in Nat /\ F \in Seq(Frame) /\ tail \in Seq(Nat)
  BY <1>1, SentFacts, UnreadType DEF Sends
<1>4. u' = u
  BY DEF Drop
<1> HIDE DEF u
<1>5. /\ InCommand(F, c, parser) /\ buf \o u = (data \o CRLF) \o later
      /\ parser.bulk_len = n
  BY <1>2 DEF AtData
<1>6. /\ a \in Seq(Seq(Nat)) /\ data \in Seq(Nat) /\ later \in Seq(Nat)
      /\ n + 2 <= UsizeMax /\ k + 1 \in 1..Len(a)
  BY <1>1, <1>5, LengthLayout
<1>7. /\ c < Len(F) /\ IsArray(F[c + 1]) /\ k < Len(a) /\ parser.args = SubSeq(a, 1, k)
      /\ parser.remaining = Len(a) - k
  BY <1>5 DEF InCommand
<1>8. k \in Nat /\ n \in Nat /\ Len(a) \in Nat
  <2>1. parser.args \in Seq(Seq(Nat))
    BY <1>1 DEF ParserType
  <2>2. k \in Nat
    BY <2>1
  <2>3. n \in Nat /\ Len(a) \in Nat
    <3> HIDE DEF data, a
    <3> QED
      BY <1>6
  <2> QED
    BY <2>2, <2>3
<1>9. /\ args \in Seq(Seq(Nat)) /\ Len(args) = k + 1 /\ args = SubSeq(a, 1, k + 1)
      /\ k + 1 = Len(a) => args = a
  <2> HIDE DEF a
  <2> QED
    BY <1>6, <1>7, <1>8, OneMoreArgument
<1>10. c + 1 \in 0..Len(F) /\ after \in Seq(Nat)
  <2>1. c + 1 \in 0..Len(F)
    BY <1>1, <1>3, <1>7
  <2> QED
    BY <1>3, <2>1, LeftIs
<1>11. LeftArgs(a, k + 1) \in Seq(Nat) /\ (k + 1 = Len(a) => LeftArgs(a, k + 1) = <<>>)
  <2> HIDE DEF a
  <2>1. k + 1 \in 0..Len(a)
    BY <1>6, <1>8
  <2> QED
    BY <1>6, <2>1, LeftArgsIs
<1> HIDE DEF data, later, after
<1>12. CASE Len(buf) < n + 2 /\ NeedMore
  <2>1. /\ phase' = "read" /\ UNCHANGED <<buf, parser, commands>>
    BY <1>12 DEF NeedMore
  <2>2. InStep(F, tail, c, parser, buf \o u)
    BY <1>2 DEF InStep
  <2>3. Starved(parser, buf)
    BY <1>2, <1>5, <1>12 DEF Starved
  <2> QED
    BY <1>1, <2>1, <2>2, <2>3 DEF ParserAt, u
<1>13. CASE Len(buf) >= n + 2
  <2>1. /\ Keep(buf, n) = data /\ SubSeq(buf, n + 1, n + 2) = CRLF
        /\ Drop(buf, n + 2) \in Seq(Nat) /\ Drop(buf, n + 2) \o u = later
    <3>1. /\ buf \in Seq(Nat) /\ u \in Seq(Nat) /\ data \in Seq(Nat) /\ later \in Seq(Nat)
          /\ Len(data) + 2 <= Len(buf) /\ DataNext(buf, u, data, later)
      BY <1>1, <1>3, <1>5, <1>6, <1>8, <1>13 DEF DataNext
    <3>2. /\ Keep(buf, Len(data)) = data /\ SubSeq(buf, Len(data) + 1, Len(data) + 2) = CRLF
          /\ Drop(buf, Len(data) + 2) \in Seq(Nat) /\ Drop(buf, Len(data) + 2) \o u = later
      BY <3>1, TakeData
    <3> QED
      BY <3>2
  <2>2. /\ buf' = Drop(buf, n + 2)
        /\ parser' = [parser EXCEPT
                  !.state = IF last THEN "ArrayLen" ELSE "BulkLen",
                  !.remaining = @ - 1,
                  !.args = IF last THEN <<>> ELSE args]
        /\ IF last THEN Returns(args) /\ UNCHANGED phase ELSE Continues
    <3>1. ~(n + 2 > UsizeMax) /\ ~(Len(buf) < n + 2)
      BY <1>1, <1>6, <1>8, <1>13, WireAssumption
    <3>2. ParseBulkData
      OBVIOUS
    <3> HIDE DEF n
    <3> QED
      BY <1>5, <2>1, <3>1, <3>2 DEF ParseBulkData
  <2>3. CASE last
    <3>1. k + 1 = Len(a) /\ parser.remaining = 1
      <4>1. Len(a) - k = 1
        BY <1>7, <2>3
      <4> HIDE DEF a, k
      <4> QED
        BY <1>8, <2>3, <4>1
    <3>2. commands' = Append(commands, F[c + 1].args) /\ UNCHANGED phase
      BY <1>9, <2>2, <2>3, <3>1 DEF Returns
    <3>3. /\ Len(commands') = c + 1 /\ Len(commands') \in 0..Len(F)
          /\ commands' = SubSeq(input.commands, 1, Len(commands'))
      <4>1. /\ Len(Append(commands, F[Len(commands) + 1].args)) = Len(commands) + 1
            /\ Len(commands) + 1 \in 0..Len(F)
            /\ Append(commands, F[Len(commands) + 1].args) = SubSeq(input.commands, 1, Len(commands) + 1)
        BY <1>1, <1>7, OneMoreCommand
      <4> QED
        BY <3>2, <4>1
    <3>4. buf' \o u = after
      <4>1. later = after
        BY <1>10, <1>11, <3>1, ConcatEmptySeq DEF later
      <4> QED
        BY <2>1, <2>2, <4>1
    <3>5. parser' \in ParserType /\ parser'.state = "ArrayLen"
      <4>1. parser' = [parser EXCEPT !.state = "ArrayLen", !.remaining = @ - 1, !.args = <<>>]
        BY <2>2, <2>3
      <4>2. <<>> \in Seq(Seq(Nat)) /\ parser.remaining - 1 \in Nat
        BY <3>1, EmptySeq
      <4> QED
        BY <1>1, <4>1, <4>2 DEF ParserType
    <3>6. InStep(F, tail, c + 1, parser', buf' \o u)
      BY <3>4, <3>5 DEF InStep, AtHeader, after
    <3> QED
      BY <1>1, <1>4, <2>1, <2>2, <3>2, <3>3, <3>5, <3>6 DEF ParserAt, u
  <2>4. CASE ~last
    <3>1. k + 1 < Len(a) /\ parser.remaining - 1 \in Nat /\ parser.remaining - 1 = Len(a) - (k + 1)
      BY <1>7, <1>8, <2>4
    <3>2. UNCHANGED <<commands, phase>>
      BY <2>2, <2>4 DEF Continues
    <3>3. /\ parser' \in ParserType /\ parser'.state = "BulkLen" /\ parser'.args = args
          /\ parser'.remaining = parser.remaining - 1
      <4>1. parser' = [parser EXCEPT !.state = "BulkLen", !.remaining = @ - 1, !.args = args]
        BY <2>2, <2>4
      <4> HIDE DEF args
      <4> QED
        BY <1>1, <1>9, <3>1, <4>1 DEF ParserType
    <3> HIDE DEF args
    <3>4. InCommand(F, c, parser')
      BY <1>7, <1>9, <3>1, <3>3 DEF InCommand
    <3>5. AtLength(F, tail, c, parser', buf' \o u)
      BY <1>9, <2>1, <2>2, <3>3, <3>4 DEF AtLength, later, after
    <3> QED
      BY <1>1, <1>4, <2>1, <2>2, <3>2, <3>3, <3>5 DEF ParserAt, InStep, u
  <2> QED
    BY <2>3, <2>4
<1>14. ~(n + 2 > UsizeMax)
  BY <1>6, <1>8, WireAssumption
<1>15. Len(buf) < n + 2 \/ Len(buf) >= n + 2
  BY <1>1, <1>8
<1> HIDE DEF n
<1> QED
  BY <1>5, <1>12, <1>13, <1>14, <1>15 DEF ParseBulkData

(* No argument of a command that is never returned is left. *)
LEMMA LastArguments ==
  ASSUME NEW a, NEW k, NEW stub, NEW p, NEW o, InCutOff(a, k, stub, p, o), k = Len(a)
  PROVE  LeftArgs(a, k) \o stub = stub
<1>1. a \in Seq(Seq(Nat)) /\ k \in 0..Len(a) /\ stub \in Seq(Nat)
  BY DEF InCutOff
<1>2. LeftArgs(a, k) = <<>>
  BY <1>1, LeftArgsIs
<1> QED
  BY <1>1, <1>2, ConcatEmptySeq

(* line is the length line of the argument after the k-th. *)
NextArgument(a, k, stub, line) ==
  /\ OneLine(line) /\ LengthOf(line, Len(a[k + 1]))
  /\ LeftArgs(a, k) \o stub
       = (line \o CRLF) \o ((a[k + 1] \o CRLF) \o (LeftArgs(a, k + 1) \o stub))

(* The next argument of a command that is never returned. *)
LEMMA LastLayout ==
  ASSUME NEW a, NEW k, NEW stub, NEW p, NEW o, InCutOff(a, k, stub, p, o), k < Len(a)
  PROVE  /\ a[k + 1] \in Seq(Nat) /\ k + 1 \in 0..Len(a) /\ Len(a[k + 1]) + 2 <= UsizeMax
         /\ LeftArgs(a, k + 1) \o stub \in Seq(Nat)
         /\ \E line \in Seq(Nat) : NextArgument(a, k, stub, line)
<1>1. a \in Seq(Seq(Nat)) /\ Fit(a) /\ k \in 0..Len(a) /\ stub \in Seq(Nat)
  BY DEF InCutOff
<1>2. k \in Nat /\ k + 1 \in 0..Len(a)
  BY <1>1
<1> QED
  BY Zenon, <1>1, <1>2, ArgumentLayout DEF NextArgument

(* The data of a bulk string and what follows it. *)
LEMMA WithCrLf ==
  ASSUME NEW data \in Seq(Nat), NEW rest \in Seq(Nat)
  PROVE  /\ (data \o CRLF) \o rest \in Seq(Nat)
         /\ Len((data \o CRLF) \o rest) >= Len(data) + 2
<1> DEFINE x == data \o CRLF
<1>1. x \in Seq(Nat) /\ Len(x) = Len(data) + 2 /\ Len(data) \in Nat
  BY PlusCrLf
<1> HIDE DEF x
<1>2. x \o rest \in Seq(Nat) /\ Len(x \o rest) = Len(x) + Len(rest)
  BY <1>1, ConcatProperties
<1>3. Len(rest) \in Nat
  OBVIOUS
<1> QED
  BY <1>1, <1>2, <1>3 DEF x

(* ParseBulkLen on a length line that has arrived. *)
LEMMA LengthTaken ==
  ASSUME buf \in Seq(Nat), parser \in ParserType, NEW u \in Seq(Nat), HasLine(buf),
         NEW line \in Seq(Nat), OneLine(line), NEW n \in Nat, LengthOf(line, n),
         NEW rest \in Seq(Nat), buf \o u = (line \o CRLF) \o rest, ParseBulkLen
  PROVE  /\ buf' \in Seq(Nat) /\ buf' \o u = rest
         /\ parser' \in ParserType /\ parser'.remaining = parser.remaining
         /\ parser'.state = "BulkData" /\ parser'.bulk_len = n
         /\ UNCHANGED <<phase, commands>>
<1>1. Line(buf) = line /\ AfterLine(buf) \in Seq(Nat) /\ AfterLine(buf) \o u = rest
  BY TakeLine
<1>2. buf' = AfterLine(buf)
  BY DEF ParseBulkLen
<1>3. parser' = [parser EXCEPT !.state = "BulkData", !.bulk_len = n] /\ Continues
  BY <1>1 DEF ParseBulkLen, LengthOf
<1>4. /\ parser' \in ParserType /\ parser'.remaining = parser.remaining
      /\ parser'.state = "BulkData" /\ parser'.bulk_len = n
  BY <1>3 DEF ParserType
<1> QED
  BY <1>1, <1>2, <1>3, <1>4 DEF Continues

(* ParseBulkLen in a command that is never returned. *)
LEMMA LastLengthStep ==
  ASSUME NEW F, NEW tail, Sends(input, F, tail), ParserAt(F, tail), phase = "parse",
         Len(commands) = Len(F),
         AtLastLength(parser, buf \o Drop(input.bytes, sent), input.outcome),
         ParseBulkLen, UNCHANGED <<input, sent>>
  PROVE  ParserAt(F, tail)'
<1> DEFINE u == Drop(input.bytes, sent)
           o == input.outcome
<1>1. /\ sent \in 0..Len(input.bytes) /\ buf \in Seq(Nat) /\ parser \in ParserType
      /\ Len(commands) \in 0..Len(F) /\ commands = SubSeq(input.commands, 1, Len(commands))
  BY DEF ParserAt
<1>2. AtLastLength(parser, buf \o u, o) /\ parser.state = "BulkLen"
  BY DEF AtLastLength
<1>3. u \in Seq(Nat)
  BY <1>1, SentFacts, UnreadType
<1>4. u' = u /\ o' = o
  BY DEF Drop
<1>5. PICK a, k, stub : InCutOff(a, k, stub, parser, o) /\ buf \o u = LeftArgs(a, k) \o stub
  BY DEF AtLastLength
<1> HIDE DEF u
<1>6. ASSUME buf' \in Seq(Nat), parser' \in ParserType, UNCHANGED <<phase, commands>>,
             InLast(parser', buf' \o u, o)
      PROVE  ParserAt(F, tail)'
  BY <1>1, <1>4, <1>6 DEF ParserAt, u
<1>7. CASE ~HasLine(buf)
  <2>1. phase' = "read" /\ UNCHANGED <<buf, parser, commands>>
    BY <1>7 DEF ParseBulkLen, NeedMore
  <2>2. InLast(parser, buf \o u, o)
    BY <1>2 DEF InLast
  <2>3. Starved(parser, buf)
    BY <1>2, <1>7 DEF Starved
  <2> QED
    BY <1>1, <1>4, <2>1, <2>2, <2>3 DEF ParserAt, u
<1>8. CASE HasLine(buf) /\ k < Len(a)
  <2> DEFINE data == a[k + 1]
             rest == LeftArgs(a, k + 1) \o stub
             r == (data \o CRLF) \o rest
             n == Len(data)
  <2>1. /\ data \in Seq(Nat) /\ rest \in Seq(Nat)
        /\ \E line \in Seq(Nat) : NextArgument(a, k, stub, line)
    BY Zenon, <1>5, <1>8, LastLayout
  <2>7. PICK line \in Seq(Nat) : NextArgument(a, k, stub, line)
    BY Zenon, <2>1
  <2>2. OneLine(line) /\ LengthOf(line, n) /\ buf \o u = (line \o CRLF) \o r
    BY Zenon, <1>5, <2>7 DEF NextArgument
  <2> HIDE DEF data, rest
  <2>3. r \in Seq(Nat) /\ n \in Nat
    BY <2>1, WithCrLf
  <2> HIDE DEF r, n
  <2>4. /\ buf' \in Seq(Nat) /\ buf' \o u = r
        /\ parser' \in ParserType /\ parser'.remaining = parser.remaining
        /\ parser'.state = "BulkData" /\ parser'.bulk_len = n
        /\ UNCHANGED <<phase, commands>>
    BY Zenon, <1>1, <1>3, <1>8, <2>2, <2>3, LengthTaken
  <2>5. InCutOff(a, k, stub, parser', o)
    BY <1>5, <2>4 DEF InCutOff
  <2>6. AtLastData(parser', buf' \o u, o)
    BY Zenon, <1>8, <2>4, <2>5 DEF AtLastData, r, n, data, rest
  <2> QED
    BY <1>6, <2>4, <2>6 DEF InLast
<1>9. CASE HasLine(buf) /\ ~(k < Len(a))
  <2>1. k = Len(a) /\ LengthEnds(stub, o)
    BY <1>5, <1>9 DEF InCutOff
  <2>2. buf \o u = stub
    BY Zenon, <1>5, <2>1, LastArguments
  <2>3. HasLine(stub)
    BY <1>1, <1>3, <1>9, <2>2, LineThenMore
  <2>4. PICK line \in Seq(Nat), rest \in Seq(Nat) :
          /\ OneLine(line)
          /\ stub = (line \o CRLF) \o rest
          /\ IF ValidLength(line) THEN DataEnds(parse_usize(Tail(line)), rest, o)
             ELSE o = "error"
    BY Zenon, <2>1, <2>3 DEF LengthEnds
  <2>5. CASE ValidLength(line)
    <3> DEFINE n == parse_usize(Tail(line))
    <3>1. DataEnds(n, rest, o) /\ n \in Nat /\ LengthOf(line, n)
      BY <2>4, <2>5 DEF DataEnds, ValidLength, LengthOf
    <3> HIDE DEF n
    <3>2. buf \o u = (line \o CRLF) \o rest
      BY <2>2, <2>4
    <3>3. /\ buf' \in Seq(Nat) /\ buf' \o u = rest
          /\ parser' \in ParserType /\ parser'.remaining = parser.remaining
          /\ parser'.state = "BulkData" /\ parser'.bulk_len = n
          /\ UNCHANGED <<phase, commands>>
      BY Zenon, <1>1, <1>3, <1>9, <2>4, <3>1, <3>2, LengthTaken
    <3>4. AtStub(parser', buf' \o u, o)
      BY <3>1, <3>3 DEF AtStub
    <3> QED
      BY <1>6, <3>3, <3>4 DEF InLast
  <2>6. CASE ~ValidLength(line)
    <3>1. buf \o u = (line \o CRLF) \o rest
      BY <2>2, <2>4
    <3>2. Line(buf) = line /\ AfterLine(buf) \in Seq(Nat)
      BY <1>1, <1>3, <1>9, <2>4, <3>1, TakeLine
    <3>3. buf' = AfterLine(buf) /\ Fails /\ UNCHANGED parser
      BY <1>9, <2>6, <3>2 DEF ParseBulkLen, ValidLength
    <3>4. phase' = "error" /\ o = "error" /\ UNCHANGED commands
      BY <2>4, <2>6, <3>3 DEF Fails
    <3> QED
      BY <1>1, <1>4, <3>2, <3>3, <3>4 DEF ParserAt
  <2> QED
    BY <2>5, <2>6
<1> QED
  BY <1>7, <1>8, <1>9

(* ParseBulkData on an argument of a command that is never returned. *)
LEMMA LastDataStep ==
  ASSUME NEW F, NEW tail, Sends(input, F, tail), ParserAt(F, tail), phase = "parse",
         Len(commands) = Len(F),
         AtLastData(parser, buf \o Drop(input.bytes, sent), input.outcome),
         ParseBulkData, UNCHANGED <<input, sent>>
  PROVE  ParserAt(F, tail)'
<1> DEFINE u == Drop(input.bytes, sent)
           o == input.outcome
<1>1. /\ sent \in 0..Len(input.bytes) /\ buf \in Seq(Nat) /\ parser \in ParserType
      /\ Len(commands) \in 0..Len(F) /\ commands = SubSeq(input.commands, 1, Len(commands))
  BY DEF ParserAt
<1>2. AtLastData(parser, buf \o u, o) /\ parser.state = "BulkData"
  BY DEF AtLastData
<1>3. u \in Seq(Nat)
  BY <1>1, SentFacts, UnreadType
<1>4. u' = u /\ o' = o
  BY DEF Drop
<1>5. PICK a, k, stub :
        /\ InCutOff(a, k, stub, parser, o) /\ k < Len(a)
        /\ parser.bulk_len = Len(a[k + 1])
        /\ buf \o u = (a[k + 1] \o CRLF) \o (LeftArgs(a, k + 1) \o stub)
  BY DEF AtLastData
<1> HIDE DEF u
<1> DEFINE data == a[k + 1]
           rest == LeftArgs(a, k + 1) \o stub
           n == Len(data)
<1>6. data \in Seq(Nat) /\ k + 1 \in 0..Len(a) /\ n + 2 <= UsizeMax /\ rest \in Seq(Nat)
  BY Zenon, <1>5, LastLayout
<1>7. parser.bulk_len = n /\ buf \o u = (data \o CRLF) \o rest
  BY <1>5
<1> HIDE DEF data, rest
<1>8. n \in Nat /\ Len(buf) \in Nat /\ ~(n + 2 > UsizeMax)
  BY <1>1, <1>6, WireAssumption
<1>9. CASE Len(buf) < n + 2
  <2>1. NeedMore
    BY <1>7, <1>8, <1>9 DEF ParseBulkData
  <2>2. phase' = "read" /\ UNCHANGED <<buf, parser, commands>>
    BY <2>1 DEF NeedMore
  <2>3. InLast(parser, buf \o u, o)
    BY <1>2 DEF InLast
  <2>4. Starved(parser, buf)
    BY <1>2, <1>7, <1>8, <1>9 DEF Starved
  <2> QED
    BY <1>1, <1>4, <2>2, <2>3, <2>4 DEF ParserAt, u
<1>10. CASE ~(Len(buf) < n + 2)
  <2>1. /\ Keep(buf, n) = data /\ SubSeq(buf, n + 1, n + 2) = CRLF
        /\ Drop(buf, n + 2) \in Seq(Nat) /\ Drop(buf, n + 2) \o u = rest
    <3>1. Len(data) + 2 <= Len(buf) /\ DataNext(buf, u, data, rest)
      BY <1>7, <1>8, <1>10 DEF DataNext
    <3> QED
      BY <1>1, <1>3, <1>6, <3>1, TakeData
  <2>2. parser.remaining \in Nat /\ parser.remaining > 1
    <3>1. Len(a) \in Nat /\ k \in Nat /\ Len(a) - k < parser.remaining
      BY <1>5 DEF InCutOff
    <3>2. parser.remaining \in Nat
      BY <1>1 DEF ParserType
    <3> QED
      BY <1>5, <3>1, <3>2
  <2> DEFINE args == Append(parser.args, data)
  <2>3. /\ buf' = Drop(buf, n + 2) /\ Continues
        /\ parser' = [parser EXCEPT !.state = "BulkLen", !.remaining = @ - 1, !.args = args]
    <3>1. parser.remaining # 1
      BY <2>2
    <3> HIDE DEF n
    <3> QED
      BY <1>7, <1>8, <1>10, <2>1, <3>1 DEF ParseBulkData
  <2>4. parser' \in ParserType /\ parser'.state = "BulkLen" /\ parser'.remaining = parser.remaining - 1
    <3>1. parser.args \in Seq(Seq(Nat))
      BY <1>1 DEF ParserType
    <3>2. args \in Seq(Seq(Nat)) /\ parser.remaining - 1 \in Nat
      BY <1>6, <2>2, <3>1, AppendProperties
    <3> HIDE DEF args
    <3> QED
      BY <1>1, <2>3, <3>2 DEF ParserType
  <2>5. InCutOff(a, k + 1, stub, parser', o)
    <3>1. Len(a) \in Nat /\ k \in Nat /\ Len(a) - k < parser.remaining
      BY <1>5 DEF InCutOff
    <3>2. Len(a) - (k + 1) < parser.remaining - 1
      BY <2>2, <3>1
    <3> QED
      BY <1>5, <1>6, <2>4, <3>2 DEF InCutOff
  <2>6. AtLastLength(parser', buf' \o u, o)
    BY Zenon, <2>1, <2>3, <2>4, <2>5 DEF AtLastLength, rest
  <2>7. UNCHANGED <<phase, commands>>
    BY <2>3 DEF Continues
  <2> QED
    BY <1>1, <1>4, <2>1, <2>3, <2>4, <2>6, <2>7 DEF ParserAt, InLast, u
<1> QED
  BY <1>9, <1>10

(* ParseBulkData on what follows the last length there is. *)
LEMMA StubStep ==
  ASSUME NEW F, NEW tail, Sends(input, F, tail), ParserAt(F, tail), phase = "parse",
         Len(commands) = Len(F),
         AtStub(parser, buf \o Drop(input.bytes, sent), input.outcome),
         ParseBulkData, UNCHANGED <<input, sent>>
  PROVE  ParserAt(F, tail)'
<1> DEFINE u == Drop(input.bytes, sent)
           o == input.outcome
           n == parser.bulk_len
           w == buf \o u
<1>1. /\ sent \in 0..Len(input.bytes) /\ buf \in Seq(Nat) /\ parser \in ParserType
      /\ Len(commands) \in 0..Len(F) /\ commands = SubSeq(input.commands, 1, Len(commands))
  BY DEF ParserAt
<1>2. AtStub(parser, w, o) /\ parser.state = "BulkData" /\ DataEnds(n, w, o) /\ n \in Nat
  BY DEF AtStub, DataEnds
<1>3. u \in Seq(Nat)
  BY <1>1, SentFacts, UnreadType
<1>4. u' = u /\ o' = o
  BY DEF Drop
<1> HIDE DEF u
<1>5. /\ Len(buf) \in Nat /\ Len(u) \in Nat /\ Len(w) = Len(buf) + Len(u)
      /\ \A i \in 1..Len(buf) : w[i] = buf[i]
  BY <1>1, <1>3, ConcatProperties
<1>6. ASSUME NeedMore, n + 2 <= UsizeMax => Len(buf) < n + 2 PROVE ParserAt(F, tail)'
  <2>1. phase' = "read" /\ UNCHANGED <<buf, parser, commands>>
    BY <1>6 DEF NeedMore
  <2>2. InLast(parser, buf \o u, o)
    BY <1>2 DEF InLast
  <2>3. Starved(parser, buf)
    BY <1>2, <1>6 DEF Starved
  <2> QED
    BY <1>1, <1>4, <2>1, <2>2, <2>3 DEF ParserAt, u
<1> HIDE DEF w
<1>7. CASE n + 2 > UsizeMax
  <2>1. o = "overflow"
    BY <1>2, <1>7, WireAssumption DEF DataEnds
  <2>2. CASE Panics /\ UNCHANGED <<buf, parser>>
    <3>1. phase' = "panic" /\ UNCHANGED <<buf, parser, commands>>
      BY <2>2 DEF Panics
    <3> QED
      BY <1>1, <1>4, <2>1, <3>1 DEF ParserAt
  <2>4. ~(n + 2 <= UsizeMax)
    BY <1>2, <1>7, WireAssumption
  <2>3. CASE Len(buf) < (n + 2) % (UsizeMax + 1) /\ NeedMore
    BY <1>6, <2>3, <2>4
  <2> QED
    BY <2>2, <2>3, <2>4 DEF ParseBulkData
<1>8. CASE ~(n + 2 > UsizeMax)
  <2>2. CASE Len(buf) < n + 2
    <3>1. NeedMore
      BY <1>2, <1>5, <1>8, <2>2 DEF ParseBulkData
    <3> QED
      BY <1>6, <2>2, <3>1
  <2>3. CASE ~(Len(buf) < n + 2)
    <3>1. o = "error" /\ SubSeq(w, n + 1, n + 2) # CRLF
      BY <1>2, <1>5, <1>8, <2>3 DEF DataEnds
    <3>2. SubSeq(buf, n + 1, n + 2) = SubSeq(w, n + 1, n + 2)
      <4>1. w \in Seq(Nat)
        BY <1>1, <1>3, ConcatProperties DEF w
      <4>2. \A i \in (n + 1)..(n + 2) : i \in 1..Len(buf) /\ w[i] = buf[i]
        BY <1>2, <1>5, <2>3
      <4> DEFINE x == SubSeq(buf, n + 1, n + 2)
                 y == SubSeq(w, n + 1, n + 2)
      <4>3. n + 2 <= Len(buf) /\ n + 2 <= Len(w)
        BY <1>2, <1>5, <2>3
      <4> HIDE DEF n
      <4>4. x \in Seq(Nat) /\ Len(x) = 2 /\ x[1] = buf[n + 1] /\ x[2] = buf[n + 2]
        BY <1>1, <1>2, <1>5, <4>3
      <4>5. y \in Seq(Nat) /\ Len(y) = 2 /\ y[1] = w[n + 1] /\ y[2] = w[n + 2]
        BY <1>2, <4>1, <4>3
      <4>6. x[1] = y[1] /\ x[2] = y[2]
        BY <1>2, <4>2, <4>4, <4>5
      <4> HIDE DEF x, y
      <4>7. \A i \in 1..2 : x[i] = y[i]
        BY <4>6
      <4>8. x = y
        BY <4>4, <4>5, <4>7, SeqEqual
      <4> QED
        BY <4>8 DEF x, y
    <3>3. buf' = Drop(buf, n + 2) /\ Fails /\ UNCHANGED parser
      BY <1>8, <2>3, <3>1, <3>2 DEF ParseBulkData
    <3>4. Drop(buf, n + 2) \in Seq(Nat)
      <4>1. n + 2 \in 0..Len(buf)
        BY <1>2, <1>5, <2>3
      <4> QED
        BY <1>1, <4>1, UnreadType
    <3>5. phase' = "error" /\ UNCHANGED commands
      BY <3>3 DEF Fails
    <3> QED
      BY <1>1, <1>4, <3>1, <3>3, <3>4, <3>5 DEF ParserAt
  <2> QED
    BY <2>2, <2>3
<1> QED
  BY <1>7, <1>8

(* In a command that is never returned, the parser waits at the end of the *)
(* stream only if that is how the stream ends, or at a length that does    *)
(* not fit.                                                                *)
LEMMA LastEnds ==
  ASSUME NEW b \in Seq(Nat), NEW p \in ParserType, NEW o, InLast(p, b, o), Starved(p, b)
  PROVE  o \in {"read", "overflow"} /\ p.state # "ArrayLen"
<1>1. CASE AtLastLength(p, b, o)
  <2>1. PICK a, k, stub : InCutOff(a, k, stub, p, o) /\ b = LeftArgs(a, k) \o stub
    BY <1>1 DEF AtLastLength
  <2>2. ~HasLine(b) /\ p.state = "BulkLen"
    BY <1>1 DEF AtLastLength, Starved
  <2>3. ASSUME NEW line \in Seq(Nat), OneLine(line), NEW rest \in Seq(Nat),
               b = (line \o CRLF) \o rest
        PROVE  FALSE
    BY <2>2, <2>3, WholeLine
  <2>4. CASE k < Len(a)
    <3> DEFINE data == a[k + 1]
               rest == LeftArgs(a, k + 1) \o stub
               r == (data \o CRLF) \o rest
    <3>1. /\ data \in Seq(Nat) /\ rest \in Seq(Nat)
          /\ \E line \in Seq(Nat) : NextArgument(a, k, stub, line)
      BY Zenon, <2>1, <2>4, LastLayout
    <3>3. PICK line \in Seq(Nat) : NextArgument(a, k, stub, line)
      BY Zenon, <3>1
    <3>4. OneLine(line) /\ b = (line \o CRLF) \o r
      BY Zenon, <2>1, <3>3 DEF NextArgument
    <3> HIDE DEF data, rest
    <3>2. r \in Seq(Nat)
      BY <3>1, WithCrLf
    <3> HIDE DEF r
    <3> QED
      BY Zenon, <2>3, <3>2, <3>4
  <2>5. CASE ~(k < Len(a))
    <3>1. k = Len(a) /\ LengthEnds(stub, o)
      BY <2>1, <2>5 DEF InCutOff
    <3>2. b = stub
      BY Zenon, <2>1, <3>1, LastArguments
    <3>3. o = "read"
      BY Zenon, <2>3, <3>1, <3>2 DEF LengthEnds
    <3> QED
      BY <2>2, <3>3
  <2> QED
    BY <2>4, <2>5
<1>2. CASE AtLastData(p, b, o)
  <2>1. PICK a, k, stub :
          /\ InCutOff(a, k, stub, p, o) /\ k < Len(a)
          /\ p.bulk_len = Len(a[k + 1])
          /\ b = (a[k + 1] \o CRLF) \o (LeftArgs(a, k + 1) \o stub)
    BY <1>2 DEF AtLastData
  <2> DEFINE data == a[k + 1]
             rest == LeftArgs(a, k + 1) \o stub
  <2>2. data \in Seq(Nat) /\ Len(data) + 2 <= UsizeMax /\ rest \in Seq(Nat)
    BY Zenon, <2>1, LastLayout
  <2>3. Len(b) < Len(data) + 2 /\ b = (data \o CRLF) \o rest
    BY <1>2, <2>1, <2>2 DEF Starved, AtLastData
  <2> HIDE DEF data, rest
  <2>4. Len(b) >= Len(data) + 2
    BY <2>2, <2>3, WithCrLf
  <2> QED
    BY <2>2, <2>3, <2>4
<1>3. CASE AtStub(p, b, o)
  <2>1. /\ p.state = "BulkData" /\ DataEnds(p.bulk_len, b, o)
        /\ p.bulk_len + 2 <= UsizeMax => Len(b) < p.bulk_len + 2
    BY <1>3 DEF AtStub, Starved
  <2>2. p.bulk_len \in Nat /\ Len(b) \in Nat
    BY <2>1 DEF DataEnds
  <2> QED
    BY <2>1, <2>2, WireAssumption DEF DataEnds
<1> QED
  BY <1>1, <1>2, <1>3 DEF InLast

(* More bytes arrive: what is unread stays the same. *)
LEMMA ReadBufStep ==
  ASSUME NEW F, NEW tail, Sends(input, F, tail), ParserAt(F, tail), ReadBuf
  PROVE  ParserAt(F, tail)'
<1> DEFINE s == input.bytes
<1>1. /\ sent \in 0..Len(s) /\ buf \in Seq(Nat) /\ phase = "read"
      /\ s \in Seq(Nat) /\ Len(s) \in Nat
      /\ \/ InStep(F, tail, Len(commands), parser, buf \o Drop(s, sent))
         \/ Len(commands) = Len(F) /\ InLast(parser, buf \o Drop(s, sent), input.outcome)
  BY SentFacts DEF ParserAt, ReadBuf
<1>2. PICK n \in 1..(Len(s) - sent) :
        buf' = buf \o SubSeq(s, sent + 1, sent + n) /\ sent' = sent + n
  BY DEF ReadBuf
<1> DEFINE m == sent + n
           got == SubSeq(s, sent + 1, m)
           u == Drop(s, m)
<1>3. m \in 0..Len(s) /\ m \in sent..Len(s) /\ sent + 1 \in 1..(Len(s) + 1) /\ (sent + 1) - 1 = sent
  BY <1>1, <1>2
<1> HIDE DEF s
<1>4. got \in Seq(Nat) /\ u \in Seq(Nat)
  <2>1. \A i \in (sent + 1)..m : s[i] \in Nat
    BY <1>1, <1>3
  <2> HIDE DEF m
  <2>2. SubSeq(s, sent + 1, m) \in Seq(Nat)
    BY <1>1, <1>3, <2>1, SubSeqProperties
  <2>3. Drop(s, m) \in Seq(Nat)
    BY <1>1, <1>3, UnreadType
  <2> QED
    BY <2>2, <2>3
<1>5. got \o u = Drop(s, sent)
  <2> DEFINE j == sent + 1
             e == Len(s)
  <2>1. j \in 1..(e + 1) /\ m \in (j - 1)..e /\ e \in m..e /\ j \in 1..(Len(s) + 1)
        /\ m \in (j - 1)..Len(s) /\ e \in m..Len(s)
    BY <1>1, <1>3
  <2> HIDE DEF m, j, e
  <2>2. SubSeq(s, j, m) \o SubSeq(s, m + 1, e) = SubSeq(s, j, e)
    BY <1>1, <2>1, ConcatAdjacentSubSeq
  <2> QED
    BY <2>2 DEF Drop, j, e
<1>6. (buf \o got) \o u = buf \o (got \o u)
  <2> HIDE DEF got, u
  <2> QED
    BY <1>1, <1>4, Regroup
<1>7. buf \o got \in Seq(Nat)
  <2> HIDE DEF got
  <2> QED
    BY <1>1, <1>4, ConcatProperties
<1>8. UNCHANGED <<input, parser, commands>> /\ phase' = "parse"
  BY DEF ReadBuf
<1>9. buf' \o Drop(s, sent') = buf \o Drop(s, sent)
  BY <1>2, <1>5, <1>6
<1>10. buf' \in Seq(Nat) /\ sent' \in 0..Len(s)
  BY <1>2, <1>3, <1>7
<1>11. \/ InStep(F, tail, Len(commands), parser, buf' \o Drop(s, sent'))
       \/ Len(commands) = Len(F) /\ InLast(parser, buf' \o Drop(s, sent'), input.outcome)
  BY <1>1, <1>9
<1> QED
  BY <1>8, <1>10, <1>11 DEF ParserAt, s

LEMMA ParserStep == ParserInv /\ [WireNext]_wireVars => ParserInv'
<1> SUFFICES ASSUME ParserInv, [WireNext]_wireVars, NEW F, NEW tail, Sends(input, F, tail)'
             PROVE  ParserAt(F, tail)'
  BY DEF ParserInv
<1>1. input' = input
  BY DEF WireNext, wireVars, ReadBuf, Parse, DeliverReply, Cut, ClientRead
<1>2. Sends(input, F, tail)
  BY <1>1 DEF Sends
<1>3. ParserAt(F, tail)
  BY <1>2 DEF ParserInv
<1>4. CASE ReadBuf
  BY <1>2, <1>3, <1>4, ReadBufStep
<1>5. CASE Parse
  <2>1. phase = "parse" /\ UNCHANGED <<input, sent>>
    BY <1>5 DEF Parse
  <2>2. CASE parser.state = "ArrayLen" /\ ParseArrayLen
    BY <1>2, <1>3, <2>1, <2>2, ArrayLenStep
  <2> DEFINE w == buf \o Drop(input.bytes, sent)
             c == Len(commands)
             o == input.outcome
  <2>5. \/ AtHeader(F, tail, c, parser, w) \/ AtLength(F, tail, c, parser, w)
        \/ AtData(F, tail, c, parser, w)
        \/ c = Len(F) /\ (AtLastLength(parser, w, o) \/ AtLastData(parser, w, o) \/ AtStub(parser, w, o))
    BY <1>3, <2>1 DEF ParserAt, InStep, InLast
  <2>3. CASE parser.state = "BulkLen" /\ ParseBulkLen
    <3>1. \/ AtLength(F, tail, c, parser, w)
          \/ c = Len(F) /\ AtLastLength(parser, w, o)
      BY <2>3, <2>5 DEF AtHeader, AtData, AtLastData, AtStub
    <3> QED
      BY <1>2, <1>3, <2>1, <2>3, <3>1, BulkLenStep, LastLengthStep
  <2>4. CASE parser.state = "BulkData" /\ ParseBulkData
    <3>1. \/ AtData(F, tail, c, parser, w)
          \/ c = Len(F) /\ (AtLastData(parser, w, o) \/ AtStub(parser, w, o))
      BY <2>4, <2>5 DEF AtHeader, AtLength, AtLastLength
    <3> QED
      BY <1>2, <1>3, <2>1, <2>4, <3>1, BulkDataStep, LastDataStep, StubStep
  <2> QED
    BY <1>5, <2>2, <2>3, <2>4 DEF Parse
<1>6. CASE DeliverReply \/ ClientRead \/ UNCHANGED wireVars
  <2>1. UNCHANGED <<input, sent, phase, buf, parser, commands>>
    BY <1>6 DEF DeliverReply, ClientRead, wireVars, serverVars
  <2> QED
    BY <1>3, <2>1 DEF ParserAt, Drop
<1>7. CASE Cut
  <2>1. phase' = "closed" /\ UNCHANGED <<input, sent, buf, parser, commands>>
    BY <1>7 DEF Cut
  <2> QED
    BY <1>3, <2>1 DEF ParserAt
<1> QED
  BY <1>4, <1>5, <1>6, <1>7 DEF WireNext

LEMMA ParserInit == WireInit => ParserInv
<1> SUFFICES ASSUME WireInit, NEW F, NEW tail, Sends(input, F, tail) PROVE ParserAt(F, tail)
  BY DEF ParserInv
<1>1. /\ sent = 0 /\ phase = "read" /\ buf = <<>> /\ parser = NewParser /\ commands = <<>>
  BY DEF WireInit
<1> DEFINE s == input.bytes
<1>2. s \in Seq(Nat) /\ Len(s) \in Nat /\ s = Left(F, tail, 0) /\ Len(F) \in Nat
  BY SentFacts
<1>3. Drop(s, 0) = s
  BY <1>2, SubSeqFull DEF Drop
<1>4. buf \o Drop(s, sent) = Left(F, tail, 0)
  BY <1>1, <1>2, <1>3, ConcatEmptySeq
<1>5. <<>> \in Seq(Nat) /\ <<>> \in Seq(Seq(Nat)) /\ Len(<<>>) = 0
  BY EmptySeq
<1>6. parser \in ParserType /\ parser.state = "ArrayLen"
  BY <1>1, <1>5 DEF NewParser, ParserType
<1>7. Len(commands) = 0 /\ commands = SubSeq(input.commands, 1, Len(commands))
  BY <1>1, <1>5, SubSeqEmpty
<1>8. InStep(F, tail, Len(commands), parser, buf \o Drop(s, sent))
  BY <1>4, <1>6, <1>7 DEF InStep, AtHeader
<1>9. Starved(parser, buf)
  BY <1>1, <1>6, NoLineInNothing DEF Starved
<1> QED
  BY <1>1, <1>2, <1>5, <1>6, <1>7, <1>8, <1>9 DEF ParserAt

(* The stream's commands and outcome are what its bytes say: whole         *)
(* commands, each an array of bulk strings or a line of words, and after   *)
(* them nothing, a line that starts no command, or a command cut off.      *)
AsDescribed(in) == \E F, tail : Sends(in, F, tail)

(* In step with the stream, the parser has returned what was sent. *)
LEMMA ParserAtEnd ==
  ASSUME NEW F, NEW tail, Sends(input, F, tail), ParserAt(F, tail)
  PROVE  ParsesWhatWasSent
<1> DEFINE c == Len(commands)
           s == input.bytes
           all == input.commands
           T == Seq(Seq(Nat))
<1>1. /\ s \in Seq(Nat) /\ Len(s) \in Nat /\ Len(F) \in Nat
      /\ all \in Seq(T) /\ Len(all) = Len(F)
  BY SentFacts
<1>2. /\ buf \in Seq(Nat) /\ parser \in ParserType /\ c \in 0..Len(F)
      /\ commands = SubSeq(all, 1, c)
      /\ phase \in {"read", "parse", "closed", "error", "panic"}
  BY DEF ParserAt
<1>3. IsPrefix(commands, all)
  <2> HIDE DEF T, all
  <2>1. \A i \in 1..c : all[i] \in T
    BY <1>1, <1>2
  <2>2. commands \in Seq(T)
    BY <1>2, <2>1, SubSeqProperties
  <2>3. SubSeq(commands, 1, c) = commands
    BY <2>2, SubSeqFull
  <2>4. c <= Len(all)
    BY <1>1, <1>2
  <2> QED
    BY <1>2, <2>3, <2>4 DEF IsPrefix
<1>4. ASSUME c = Len(F) PROVE commands = all
  <2> HIDE DEF T, all
  <2> QED
    BY <1>1, <1>2, <1>4, SubSeqFull
<1>5. ASSUME phase \in {"error", "panic"}
      PROVE  commands = all /\ (input.outcome # "overflow" => phase = input.outcome)
  <2>1. c = Len(F) /\ (input.outcome # "overflow" => phase = input.outcome)
    BY <1>5 DEF ParserAt
  <2> QED
    BY <1>4, <2>1
<1>6. ASSUME phase = "read", sent = Len(s)
      PROVE  /\ commands = all /\ (input.outcome # "overflow" => phase = input.outcome)
             /\ parser.state = "ArrayLen" => buf = <<>>
  <2>1. Drop(s, sent) = <<>>
    BY <1>1, <1>6, SubSeqEmpty DEF Drop
  <2>2. buf \o Drop(s, sent) = buf
    BY <1>2, <2>1, ConcatEmptySeq
  <2>3. /\ Starved(parser, buf)
        /\ \/ InStep(F, tail, c, parser, buf)
           \/ c = Len(F) /\ InLast(parser, buf, input.outcome)
    BY <1>6, <2>2 DEF ParserAt
  <2>4. ASSUME NEW line \in Seq(Nat), OneLine(line), NEW rest \in Seq(Nat),
               buf = (line \o CRLF) \o rest
        PROVE  HasLine(buf)
    BY <2>4, WholeLine
  <2>5. CASE AtHeader(F, tail, c, parser, buf)
    <3>1. ~HasLine(buf) /\ buf = Left(F, tail, c)
      BY <2>3, <2>5 DEF AtHeader, Starved
    <3>2. ASSUME NEW line \in Seq(Nat), OneLine(line),
                 \/ InlineHeader(F, tail, c, line)
                 \/ ArrayHeader(F, tail, c, line)
                 \/ BadHeader(F, tail, c, line, input.outcome)
                 \/ CutOffHeader(F, tail, c, line, input.outcome)
          PROVE  FALSE
      <4>0. F \in Seq(Frame) /\ tail \in Seq(Nat)
        BY DEF Sends
      <4>1. CASE BadHeader(F, tail, c, line, input.outcome)
        BY <2>4, <3>1, <3>2, <4>1 DEF BadHeader
      <4>3. CASE CutOffHeader(F, tail, c, line, input.outcome)
        <5>1. PICK a \in Seq(Seq(Nat)), stub \in Seq(Nat) :
                Left(F, tail, c) = (line \o CRLF) \o (LeftArgs(a, 0) \o stub)
          BY <4>3 DEF CutOffHeader
        <5> DEFINE x == LeftArgs(a, 0)
                   r == x \o stub
        <5>2. 0 \in 0..Len(a) /\ x \in Seq(Nat)
          BY LeftArgsIs
        <5>3. buf = (line \o CRLF) \o r
          BY <3>1, <5>1
        <5> HIDE DEF x
        <5>4. r \in Seq(Nat)
          BY <5>2, ConcatProperties
        <5> HIDE DEF r
        <5> QED
          BY <2>4, <3>1, <3>2, <5>3, <5>4
      <4>2. CASE InlineHeader(F, tail, c, line) \/ ArrayHeader(F, tail, c, line)
        <5>1. c < Len(F)
          BY <4>2 DEF InlineHeader, ArrayHeader
        <5>2. c + 1 \in 0..Len(F) /\ c + 1 \in 1..Len(F)
          BY <1>1, <1>2, <5>1
        <5>3. Left(F, tail, c + 1) \in Seq(Nat)
          BY <4>0, <5>2, LeftIs
        <5>4. CASE InlineHeader(F, tail, c, line)
          BY <2>4, <3>1, <3>2, <5>3, <5>4 DEF InlineHeader
        <5>5. CASE ArrayHeader(F, tail, c, line)
          <6> DEFINE a == F[c + 1].args
                     r == LeftArgs(a, 0) \o Left(F, tail, c + 1)
          <6>1. F[c + 1] \in Frame
            BY <4>0, <5>2
          <6>2. a \in Seq(Seq(Nat)) /\ 0 \in 0..Len(a)
            BY <6>1 DEF Frame
          <6>3. LeftArgs(a, 0) \in Seq(Nat)
            <7> HIDE DEF a
            <7> QED
              BY <6>2, LeftArgsIs
          <6>4. r \in Seq(Nat)
            <7> HIDE DEF a
            <7> QED
              BY <5>3, <6>3, ConcatProperties
          <6>5. buf = (line \o CRLF) \o r
            BY <3>1, <5>5 DEF ArrayHeader
          <6> HIDE DEF r
          <6> QED
            BY <2>4, <3>1, <3>2, <6>4, <6>5
        <5> QED
          BY <4>2, <5>4, <5>5
      <4> QED
        BY <3>2, <4>1, <4>2, <4>3
    <3>3. c = Len(F) /\ input.outcome = "read" /\ Left(F, tail, c) = <<>>
      BY <1>2, <3>2, HeaderLayout
    <3> QED
      BY <1>4, <1>6, <3>1, <3>3
  <2> DEFINE a == F[c + 1].args
             k == Len(parser.args)
             data == a[k + 1]
             later == LeftArgs(a, k + 1) \o Left(F, tail, c + 1)
  <2>6. CASE AtLength(F, tail, c, parser, buf)
    <3>1. /\ ~HasLine(buf) /\ InCommand(F, c, parser)
          /\ buf = LeftArgs(a, k) \o Left(F, tail, c + 1)
      BY <2>3, <2>6 DEF AtLength, Starved
    <3>2. /\ data \in Seq(Nat) /\ later \in Seq(Nat)
          /\ \E line \in Seq(Nat) : OneLine(line) /\ LengthLine(F, tail, c, parser, line)
      BY Zenon, <1>2, <3>1, LengthLayout
    <3>3. PICK line \in Seq(Nat) : OneLine(line) /\ LengthLine(F, tail, c, parser, line)
      BY <3>2
    <3>4. buf = (line \o CRLF) \o ((data \o CRLF) \o later)
      BY <3>1, <3>3 DEF LengthLine
    <3> HIDE DEF data, later
    <3> DEFINE r == (data \o CRLF) \o later
    <3>5. r \in Seq(Nat)
      <4>1. data \o CRLF \in Seq(Nat)
        BY <3>2, PlusCrLf
      <4> QED
        BY <3>2, <4>1, ConcatProperties
    <3>6. buf = (line \o CRLF) \o r
      BY <3>4
    <3> HIDE DEF r
    <3> QED
      BY <2>4, <3>1, <3>3, <3>5, <3>6
  <2>7. CASE AtData(F, tail, c, parser, buf)
    <3>1. /\ Len(data) + 2 <= UsizeMax => Len(buf) < Len(data) + 2
          /\ InCommand(F, c, parser)
          /\ parser.bulk_len = Len(data) /\ buf = (data \o CRLF) \o later
      BY <2>3, <2>7 DEF AtData, Starved
    <3>2. data \in Seq(Nat) /\ later \in Seq(Nat) /\ Len(data) + 2 <= UsizeMax
      BY <1>2, <3>1, LengthLayout
    <3> HIDE DEF data, later
    <3> DEFINE x == data \o CRLF
    <3>3. x \in Seq(Nat) /\ Len(x) = Len(data) + 2 /\ Len(data) \in Nat
      BY <3>2, PlusCrLf
    <3> HIDE DEF x
    <3>4. Len(x \o later) = Len(x) + Len(later)
      BY <3>2, <3>3, ConcatProperties
    <3>5. Len(later) \in Nat
      BY <3>2
    <3> QED
      BY SMTT(30), <3>1, <3>2, <3>3, <3>4, <3>5 DEF x
  <2>8. CASE c = Len(F) /\ InLast(parser, buf, input.outcome)
    <3>1. input.outcome \in {"read", "overflow"} /\ parser.state # "ArrayLen"
      BY <1>2, <2>3, <2>8, LastEnds
    <3> QED
      BY <1>4, <1>6, <2>8, <3>1
  <2> QED
    BY <2>3, <2>5, <2>6, <2>7, <2>8 DEF InStep
<1> QED
  BY <1>3, <1>5, <1>6 DEF ParsesWhatWasSent, Finished

(* RespParser, for any sequence of whole commands, encoded as arrays of    *)
(* bulk strings or written inline, with anything in their arguments, that  *)
(* ends there, with a line that is refused, or in the middle of a command  *)
(* that stops short, has a bad length or a bad end, or a length that does  *)
(* not fit a usize: however the bytes are cut into reads, exactly these    *)
(* commands are returned, in order, and then the parser waits for more,    *)
(* between commands only with an empty buffer, or refuses, as the stream   *)
(* says; where a length does not fit, no more commands are returned, and   *)
(* how the parser ends is not said (the code may panic).                   *)
THEOREM CommandsReadBack == WireSpec => [](AsDescribed(input) => ParsesWhatWasSent)
<1>1. ParserInv => (AsDescribed(input) => ParsesWhatWasSent)
  BY ParserAtEnd DEF ParserInv, AsDescribed
<1> QED
  BY <1>1, ParserInit, ParserStep, PTL DEF WireSpec

-----------------------------------------------------------------------------
(* The client's reader.                                                    *)

(* g reads arrays nested up to n deep. *)
ReaderUpTo(n, g) ==
  g = [depth \in 0..n |->
         [t \in Seq(Nat) |->
            IF depth = 0 THEN Protocol ELSE read_value(t, g[depth - 1])]]

(* There is such a function. *)
LEMMA ReadersExist ==
  ASSUME NEW m \in Nat
  PROVE  \E g : ReaderUpTo(m, g)
<1> DEFINE Good == {n \in Nat : \E g : ReaderUpTo(n, g)}
           Read(g, d) == [t \in Seq(Nat) |->
                            IF d = 0 THEN Protocol ELSE read_value(t, g[d - 1])]
<1>1. 0 \in Good
  <2> DEFINE g == [depth \in 0..0 |-> [t \in Seq(Nat) |-> Protocol]]
  <2>1. ReaderUpTo(0, g)
    BY DEF ReaderUpTo
  <2> QED
    BY <2>1
<1>2. ASSUME NEW n \in Nat, n \in Good PROVE n + 1 \in Good
  <2>1. PICK g : ReaderUpTo(n, g)
    BY <1>2
  <2> DEFINE h == [d \in 0..(n + 1) |-> IF d = n + 1 THEN Read(g, n + 1) ELSE g[d]]
  <2>2. \A d \in 0..n : g[d] = Read(g, d)
    BY <2>1 DEF ReaderUpTo
  <2>3. ASSUME NEW d \in 0..(n + 1) PROVE h[d] = Read(h, d)
    <3>1. h[d] = Read(g, d)
      <4> HIDE DEF Read
      <4> QED
        BY <2>2
    <3>2. Read(g, d) = Read(h, d)
      <4>1. CASE d = 0
        BY <4>1
      <4>2. CASE d # 0
        <5>1. d - 1 \in 0..n
          BY <4>2
        <5>2. h[d - 1] = g[d - 1]
          <6> HIDE DEF Read
          <6> QED
            BY <5>1
        <5> HIDE DEF h
        <5> QED
          BY <4>2, <5>2
      <4> QED
        BY <4>1, <4>2
    <3> QED
      BY <3>1, <3>2
  <2>4. h = [d \in 0..(n + 1) |-> h[d]]
    OBVIOUS
  <2> HIDE DEF h
  <2>5. ReaderUpTo(n + 1, h)
    BY <2>3, <2>4 DEF ReaderUpTo
  <2> QED
    BY <2>5
<1> HIDE DEF Good
<1>3. Nat \subseteq Good
  BY <1>1, <1>2, NatSetInduction
<1> QED
  BY <1>3 DEF Good

(* A call of read_response is one of read_value. *)
LEMMA ReadResponseIs ==
  ASSUME NEW s \in Seq(Nat)
  PROVE  \E reader : read_response(s) = read_value(s, reader)
<1> DEFINE n == Len(s) + 1
           g == CHOOSE f : ReaderUpTo(n, f)
<1>1. n \in Nat /\ n \in 0..n /\ n # 0
  OBVIOUS
<1>2. ReaderUpTo(n, g)
  BY <1>1, ReadersExist
<1>3. read_response(s) = g[n][s]
  BY DEF read_response, ReaderUpTo
<1> HIDE DEF g, n
<1>4. g[n] = [t \in Seq(Nat) |-> IF n = 0 THEN Protocol ELSE read_value(t, g[n - 1])]
  BY <1>1, <1>2 DEF ReaderUpTo
<1>5. g[n][s] = read_value(s, g[n - 1])
  BY <1>1, <1>4
<1> QED
  BY <1>3, <1>5

(* A byte in front. *)
LEMMA ByteFirst ==
  ASSUME NEW c \in Nat, NEW t \in Seq(Nat)
  PROVE  /\ <<c>> \o t \in Seq(Nat) /\ <<c>> \o t # <<>>
         /\ Len(<<c>> \o t) = Len(t) + 1
         /\ (<<c>> \o t)[1] = c /\ Head(<<c>> \o t) = c
         /\ Tail(<<c>> \o t) = t
         /\ \A i \in 1..Len(t) : (<<c>> \o t)[i + 1] = t[i]
<1> DEFINE h == <<c>>
           line == h \o t
<1>1. h \in Seq(Nat) /\ Len(h) = 1 /\ h[1] = c
  OBVIOUS
<1> HIDE DEF h
<1>9. Len(t) \in Nat
  OBVIOUS
<1>10. /\ line \in Seq(Nat) /\ Len(line) = Len(h) + Len(t)
       /\ \A i \in 1..(Len(h) + Len(t)) : line[i] = IF i <= Len(h) THEN h[i] ELSE t[i - Len(h)]
  BY <1>1, ConcatProperties
<1>2. /\ line \in Seq(Nat) /\ Len(line) = Len(h) + Len(t) /\ Len(t) \in Nat
      /\ \A i \in 1..(Len(h) + Len(t)) : line[i] = IF i <= Len(h) THEN h[i] ELSE t[i - Len(h)]
  BY <1>9, <1>10
<1> HIDE DEF line
<1>3. Len(line) = Len(t) + 1 /\ line # <<>> /\ 1 \in 1..(Len(h) + Len(t))
  BY <1>1, <1>2
<1>4. line[1] = c
  BY <1>1, <1>2, <1>3
<1>5. ASSUME NEW i \in 1..Len(t) PROVE line[i + 1] = t[i]
  <2>1. i + 1 \in 1..(Len(h) + Len(t)) /\ ~(i + 1 <= Len(h)) /\ (i + 1) - Len(h) = i
    BY <1>1, <1>2
  <2>2. line[i + 1] = t[(i + 1) - Len(h)]
    BY <1>2, <2>1
  <2> QED
    BY <2>1, <2>2
<1>6. /\ Tail(line) \in Seq(Nat) /\ Len(Tail(line)) = Len(line) - 1
      /\ \A i \in 1..Len(Tail(line)) : Tail(line)[i] = line[i + 1]
  BY <1>2, <1>3, HeadTailProperties
<1>7. Tail(line) = t
  <2>1. Len(Tail(line)) = Len(t)
    BY <1>2, <1>3, <1>6
  <2>2. \A i \in 1..Len(t) : Tail(line)[i] = t[i]
    BY <1>5, <1>6, <2>1
  <2> QED
    BY <1>6, <2>1, <2>2, SeqEqual
<1>8. Head(line) = c
  BY <1>2, <1>3, <1>4
<1> QED
  BY <1>2, <1>3, <1>4, <1>5, <1>7, <1>8 DEF line, h

(* A line with neither CR nor LF in it. *)
Plain(line) == \A i \in 1..Len(line) : line[i] # CR /\ line[i] # LF

LEMMA PlainFirst ==
  ASSUME NEW c \in Nat, c # CR, c # LF, NEW t \in Seq(Nat), Plain(t)
  PROVE  Plain(<<c>> \o t)
<1> DEFINE line == <<c>> \o t
<1>1. /\ line \in Seq(Nat) /\ Len(line) = Len(t) + 1 /\ line[1] = c
      /\ \A i \in 1..Len(t) : line[i + 1] = t[i]
  BY ByteFirst
<1>2. Len(t) \in Nat
  OBVIOUS
<1> HIDE DEF line
<1>3. ASSUME NEW i \in 1..Len(line) PROVE line[i] # CR /\ line[i] # LF
  <2>1. CASE i = 1
    BY <1>1, <2>1
  <2>2. CASE i # 1
    <3>1. i - 1 \in 1..Len(t) /\ (i - 1) + 1 = i
      BY <1>1, <1>2, <2>2
    <3>2. line[(i - 1) + 1] = t[i - 1]
      BY <1>1, <3>1
    <3> QED
      BY <3>1, <3>2 DEF Plain
  <2> QED
    BY <2>1, <2>2
<1> QED
  BY <1>3 DEF Plain, line

LEMMA DigitsPlain ==
  ASSUME NEW n \in Nat
  PROVE  /\ push_usize(n) \in Seq(Nat) /\ push_usize(n) # <<>> /\ Plain(push_usize(n))
         /\ AllDigits(push_usize(n)) /\ Head(push_usize(n)) # Minus
<1> DEFINE d == push_usize(n)
           D == Zero..(Zero + 9)
<1>1. d \in Seq(D) /\ d # <<>> /\ d \in Seq(Nat)
  BY PushedIs, PushType
<1> HIDE DEF d, D
<1>2. \A i \in 1..Len(d) : d[i] \in D
  BY <1>1, ElementOfSeq
<1>3. DOMAIN d = 1..Len(d) /\ 1 \in 1..Len(d) /\ Head(d) = d[1]
  BY <1>1
<1>4. \A x \in D : is_digit(x) /\ x # CR /\ x # LF /\ x # Minus
  BY DEF D, is_digit, Zero, CR, LF, Minus
<1> QED
  BY <1>1, <1>2, <1>3, <1>4 DEF Plain, AllDigits, d

(* What a read that wants more bytes gives. *)
Wanting == IF cut THEN Protocol ELSE Blocked

LEMMA UntilNoLF ==
  ASSUME NEW s \in Seq(Nat), \A i \in 1..Len(s) : s[i] # LF
  PROVE  Until(s) = s
<1>1. DOMAIN s = 1..Len(s)
  OBVIOUS
<1>2. {i \in DOMAIN s : s[i] = LF} = {}
  BY <1>1
<1> QED
  BY <1>2 DEF Until

LEMMA UntilLF ==
  ASSUME NEW s \in Seq(Nat), NEW m \in 1..Len(s), s[m] = LF, \A i \in 1..(m - 1) : s[i] # LF
  PROVE  Until(s) = Keep(s, m)
<1> DEFINE E == {i \in DOMAIN s : s[i] = LF}
<1>1. DOMAIN s = 1..Len(s) /\ Len(s) \in Nat
  OBVIOUS
<1>2. m \in E /\ E \subseteq Nat
  BY <1>1
<1>3. ASSUME NEW y \in E PROVE m <= y
  <2>1. y \in 1..Len(s) /\ s[y] = LF
    BY <1>1
  <2>2. ~(y \in 1..(m - 1))
    BY <2>1
  <2> QED
    BY <1>1, <2>1, <2>2
<1>4. E # {} /\ Until(s) = Keep(s, Min(E))
  BY <1>2 DEF Until
<1> HIDE DEF E
<1>5. Min(E) = m
  BY <1>2, <1>3, MinIs
<1> QED
  BY <1>4, <1>5

(* read_line, when the line has arrived. *)
LEMMA LineArrived ==
  ASSUME NEW s \in Seq(Nat), NEW line \in Seq(Nat), Plain(line),
         Len(line) + 2 <= Len(s), Keep(s, Len(line) + 2) = line \o CRLF
  PROVE  read_line(s) = Ok(line, Drop(s, Len(line) + 2))
<1> DEFINE L == Len(line)
           raw == line \o CRLF
<1>1. /\ raw \in Seq(Nat) /\ Len(raw) = L + 2 /\ L \in Nat
      /\ \A i \in 1..(L + 2) : raw[i] = IF i <= L THEN line[i] ELSE CRLF[i - L]
  BY PlusCrLf
<1>2. Len(s) \in Nat /\ L + 2 \in 1..Len(s)
  BY <1>1
<1>3. \A i \in 1..(L + 2) : raw[i] = s[i]
  <2>1. \A i \in 1..(L + 2) : Keep(s, L + 2)[i] = s[i]
    BY <1>1, <1>2 DEF Keep
  <2> QED
    BY <2>1
<1> HIDE DEF raw
<1>4. raw[L + 1] = CR /\ raw[L + 2] = LF
  <2> HIDE DEF L
  <2>1. /\ L + 1 \in 1..(L + 2) /\ ~(L + 1 <= L) /\ (L + 1) - L = 1
        /\ L + 2 \in 1..(L + 2) /\ ~(L + 2 <= L) /\ (L + 2) - L = 2
    BY <1>1
  <2>2. raw[L + 1] = CRLF[(L + 1) - L] /\ raw[L + 2] = CRLF[(L + 2) - L]
    BY <1>1, <2>1
  <2> QED
    BY <2>1, <2>2, CrLf
<1>5. ASSUME NEW i \in 1..((L + 2) - 1) PROVE s[i] # LF
  <2>1. i \in 1..(L + 2) /\ i <= L + 1
    BY <1>1
  <2>2. CASE i = L + 1
    <3>1. raw[i] = CR /\ raw[i] = s[i]
      BY <1>3, <1>4, <2>1, <2>2
    <3> QED
      BY <3>1 DEF CR, LF
  <2>3. CASE i # L + 1
    <3>1. i <= L /\ i \in 1..L
      BY <1>1, <2>1, <2>3
    <3>2. raw[i] = line[i]
      BY <1>1, <2>1, <3>1
    <3> QED
      BY <1>3, <2>1, <3>1, <3>2 DEF Plain
  <2> QED
    BY <2>2, <2>3
<1>6. Until(s) = raw
  <2> DEFINE m == L + 2
  <2>1. m \in 1..Len(s) /\ s[m] = LF /\ \A i \in 1..(m - 1) : s[i] # LF
    BY <1>2, <1>3, <1>4, <1>5
  <2> HIDE DEF m
  <2>2. Until(s) = Keep(s, m)
    BY <2>1, UntilLF
  <2> QED
    BY <2>2 DEF m, raw
<1>7. raw # <<>> /\ Last(raw) = LF /\ IsLine(raw)
  <2>1. Len(raw) >= 2 /\ Len(raw) - 1 = L + 1
    BY <1>1
  <2> QED
    BY <1>1, <1>4, <2>1 DEF Last, IsLine
<1>8. Keep(raw, Len(raw) - 2) = line
  <2>1. Len(raw) - 2 = L /\ Len(line) + 2 <= Len(raw)
    BY <1>1
  <2>2. Keep(raw, Len(line) + 2) = line \o CRLF
    BY <1>1, SubSeqFull DEF Keep, raw
  <2>3. Keep(raw, Len(line)) = line
    BY <1>1, <2>1, <2>2, StartsWith
  <2> QED
    BY <2>1, <2>3
<1> QED
  BY <1>1, <1>6, <1>7, <1>8 DEF read_line

(* read_line, when it has not. *)
LEMMA LineNotArrived ==
  ASSUME NEW s \in Seq(Nat), NEW line \in Seq(Nat), Plain(line),
         Len(s) < Len(line) + 2, \A i \in 1..Len(s) : s[i] = (line \o CRLF)[i],
         cut \in BOOLEAN
  PROVE  read_line(s) = Wanting
<1> DEFINE L == Len(line)
           raw == line \o CRLF
<1>1. /\ raw \in Seq(Nat) /\ L \in Nat /\ Len(s) \in Nat
      /\ \A i \in 1..(L + 2) : raw[i] = IF i <= L THEN line[i] ELSE CRLF[i - L]
  BY PlusCrLf
<1>2. \A i \in 1..Len(s) : s[i] = raw[i]
  OBVIOUS
<1> HIDE DEF raw
<1>3. ASSUME NEW i \in 1..Len(s), i <= L PROVE s[i] # LF /\ s[i] # CR
  <2>1. i \in 1..L /\ i \in 1..(L + 2)
    BY <1>1, <1>3
  <2>2. raw[i] = line[i]
    BY <1>1, <1>3, <2>1
  <2> QED
    BY <1>2, <2>1, <2>2 DEF Plain
<1>4. ASSUME NEW i \in 1..Len(s) PROVE s[i] # LF
  <2>1. CASE i <= L
    BY <1>3, <2>1
  <2>2. CASE ~(i <= L)
    <3>1. i = L + 1 /\ i \in 1..(L + 2) /\ i - L = 1
      BY <1>1, <2>2
    <3>2. raw[i] = CRLF[i - L]
      BY <1>1, <2>2, <3>1
    <3> QED
      BY <1>2, <3>1, <3>2, CrLf DEF CR, LF
  <2> QED
    BY <2>1, <2>2
<1>5. Until(s) = s
  BY <1>4, UntilNoLF
<1>6. s = <<>> \/ Last(s) # LF
  <2>1. SUFFICES ASSUME s # <<>> PROVE Last(s) # LF
    OBVIOUS
  <2>2. Len(s) \in 1..Len(s)
    BY <2>1
  <2> QED
    BY <1>4, <2>2 DEF Last
<1>7. ~IsLine(s)
  <2>1. SUFFICES ASSUME Len(s) >= 2 PROVE s[Len(s) - 1] # CR
    BY DEF IsLine
  <2>2. Len(s) - 1 \in 1..Len(s) /\ Len(s) - 1 <= L
    BY <1>1, <2>1
  <2> QED
    BY <1>3, <2>2
<1> QED
  BY <1>5, <1>6, <1>7 DEF read_line, Wanting

(* A number on a line. *)
LEMMA NumberReadBack ==
  ASSUME NEW n \in Int, -I64Max <= n, n <= I64Max
  PROVE  /\ to_string(n) \in Seq(Nat) /\ Plain(to_string(n))
         /\ is_i64(to_string(n)) /\ parse_i64(to_string(n)) = n
<1>1. CASE n >= 0
  <2> DEFINE d == push_usize(n)
  <2>1. n \in Nat /\ n <= I64Max /\ I64Max \in Nat
    BY <1>1, WireAssumption
  <2>2. d \in Seq(Nat) /\ d # <<>> /\ Plain(d) /\ AllDigits(d) /\ Head(d) # Minus
    BY <2>1, DigitsPlain
  <2>3. Saturating(d, I64Max) = n
    BY <2>1, PushedIs
  <2>4. to_string(n) = d
    BY <1>1 DEF to_string
  <2> HIDE DEF d
  <2>5. is_i64(d) /\ parse_i64(d) = n
    BY <2>2, <2>3 DEF is_i64, parse_i64, Unsigned
  <2> QED
    BY <2>2, <2>4, <2>5
<1>2. CASE n < 0
  <2> DEFINE m == -n
             d == push_usize(m)
             t == <<Minus>> \o d
  <2>1. m \in Nat /\ m <= I64Max /\ I64Max \in Nat /\ -m = n
    BY <1>2, WireAssumption
  <2>2. to_string(n) = t
    BY <1>2 DEF to_string
  <2> HIDE DEF m
  <2>3. d \in Seq(Nat) /\ d # <<>> /\ Plain(d) /\ AllDigits(d)
    BY <2>1, DigitsPlain
  <2>4. Saturating(d, I64Max) = m
    BY <2>1, PushedIs
  <2> HIDE DEF d
  <2>5. Minus \in Nat /\ Minus # CR /\ Minus # LF
    BY DEF Minus, CR, LF
  <2>6. t \in Seq(Nat) /\ t # <<>> /\ Head(t) = Minus /\ Tail(t) = d
    BY <2>3, <2>5, ByteFirst
  <2>7. Plain(t)
    BY <2>3, <2>5, PlainFirst
  <2> HIDE DEF t
  <2>8. Unsigned(t) = d
    BY <2>6 DEF Unsigned
  <2>9. is_i64(t) /\ parse_i64(t) = n
    BY <2>1, <2>3, <2>4, <2>6, <2>8 DEF is_i64, parse_i64
  <2> QED
    BY <2>2, <2>6, <2>7, <2>9
<1> QED
  BY <1>1, <1>2

(* The server's answers: no array among them. *)
IsFlat(a) ==
  \/ \E t \in Seq(Nat) : Plain(t) /\ (a = resp_simple(t) \/ a = resp_error(t))
  \/ \E n \in Int : -I64Max <= n /\ n <= I64Max /\ a = resp_integer(n)
  \/ \E d \in Seq(Nat) : Len(d) <= I64Max /\ a = resp_bulk(d)
  \/ a = resp_null

LEMMA OkFields ==
  ASSUME NEW v, NEW r
  PROVE  Ok(v, r).st = "ok" /\ Ok(v, r).value = v /\ Ok(v, r).rest = r
BY DEF Ok

(* The choice a line's first byte makes in read_value. *)
ByMarker(line, number, bad, simple, error, integer, bulk, array) ==
  CASE line = <<>> -> bad
    [] line # <<>> /\ line[1] = Plus -> simple
    [] line # <<>> /\ line[1] = Minus -> error
    [] line # <<>> /\ line[1] \in {Colon, Dollar, Star} ->
         IF ~number THEN bad
         ELSE CASE line[1] = Colon -> integer
                [] line[1] = Dollar -> bulk
                [] OTHER -> array
    [] OTHER -> bad

(* What read_value makes of the line it read. *)
Meaning(line, r, reader) ==
  ByMarker(line, is_i64(Tail(line)), Protocol,
           Ok(resp_simple(Tail(line)).value, r), Ok(resp_error(Tail(line)).value, r),
           Ok(resp_integer(parse_i64(Tail(line))).value, r),
           parse_bulk_len(parse_i64(Tail(line)), r),
           parse_array_len(parse_i64(Tail(line)), r, reader))

(* read_value goes by the line that read_line returns. *)
LEMMA ReadsLine ==
  ASSUME NEW s, NEW r, NEW reader, NEW line, read_line(s) = Ok(line, r)
  PROVE  read_value(s, reader) = Meaning(line, r, reader)
<1> DEFINE got == read_line(s)
<1>1. got.st = "ok" /\ got.value = line /\ got.rest = r
  BY OkFields
<1>2. read_value(s, reader) =
        IF got.st # "ok" THEN got ELSE Meaning(got.value, got.rest, reader)
  BY Zenon DEF read_value, ByMarker, Meaning
<1> HIDE DEF got
<1> QED
  BY <1>1, <1>2

(* Each marker has its own branch. *)
LEMMA MarkerChooses ==
  ASSUME NEW line, line # <<>>, NEW number \in BOOLEAN, NEW bad, NEW simple,
         NEW error, NEW integer, NEW bulk, NEW array
  PROVE  LET chosen == ByMarker(line, number, bad, simple, error, integer, bulk, array) IN
         /\ line[1] = Plus => chosen = simple
         /\ line[1] = Minus => chosen = error
         /\ line[1] = Colon /\ number => chosen = integer
         /\ line[1] = Dollar /\ number => chosen = bulk
BY DEF ByMarker, Plus, Minus, Colon, Dollar, Star

(* What is read from a line that begins with a marker. *)
LEMMA MarkerMeans ==
  ASSUME NEW line, NEW t, NEW r, NEW reader, line # <<>>, Tail(line) = t
  PROVE  /\ line[1] = Plus => Meaning(line, r, reader) = Ok(resp_simple(t).value, r)
         /\ line[1] = Minus => Meaning(line, r, reader) = Ok(resp_error(t).value, r)
         /\ line[1] = Colon /\ is_i64(t) =>
              Meaning(line, r, reader) = Ok(resp_integer(parse_i64(t)).value, r)
         /\ line[1] = Dollar /\ is_i64(t) =>
              Meaning(line, r, reader) = parse_bulk_len(parse_i64(t), r)
<1> DEFINE simple == Ok(resp_simple(t).value, r)
           error == Ok(resp_error(t).value, r)
           integer == Ok(resp_integer(parse_i64(t)).value, r)
           bulk == parse_bulk_len(parse_i64(t), r)
           array == parse_array_len(parse_i64(t), r, reader)
           number == is_i64(t)
           bad == Protocol
<1>1. number \in BOOLEAN
  BY DEF is_i64
<1>2. Meaning(line, r, reader) = ByMarker(line, number, bad, simple, error, integer, bulk, array)
  BY Zenon DEF Meaning
<1> HIDE DEF simple, error, integer, bulk, array, number, bad
<1>3. LET chosen == ByMarker(line, number, bad, simple, error, integer, bulk, array) IN
         /\ line[1] = Plus => chosen = simple
         /\ line[1] = Minus => chosen = error
         /\ line[1] = Colon /\ number => chosen = integer
         /\ line[1] = Dollar /\ number => chosen = bulk
  BY <1>1, MarkerChooses
<1>4. /\ line[1] = Plus => Meaning(line, r, reader) = simple
      /\ line[1] = Minus => Meaning(line, r, reader) = error
      /\ line[1] = Colon /\ number => Meaning(line, r, reader) = integer
      /\ line[1] = Dollar /\ number => Meaning(line, r, reader) = bulk
  BY <1>2, <1>3
<1> QED
  BY Zenon, <1>4 DEF simple, error, integer, bulk, number

(* An answer of one line. *)
LineAnswer(a, line) ==
  /\ line \in Seq(Nat) /\ Plain(line)
  /\ a.bytes = line \o CRLF
  /\ \A r, reader : Meaning(line, r, reader) = Ok(a.value, r)

LEMMA Markers ==
  /\ Plus \in Nat /\ Plus # CR /\ Plus # LF
  /\ Minus \in Nat /\ Minus # CR /\ Minus # LF
  /\ Colon \in Nat /\ Colon # CR /\ Colon # LF
  /\ Dollar \in Nat /\ Dollar # CR /\ Dollar # LF
BY DEF Colon, Dollar, CR, LF, Plus, Minus

(* A marker in front of a line. *)
LEMMA Marked ==
  ASSUME NEW c \in {Plus, Minus, Colon, Dollar}, NEW t \in Seq(Nat), Plain(t), NEW line,
         line = <<c>> \o t
  PROVE  line \in Seq(Nat) /\ line # <<>> /\ line[1] = c /\ Tail(line) = t /\ Plain(line)
<1>1. c \in Nat /\ c # CR /\ c # LF
  BY Markers
<1> QED
  BY <1>1, ByteFirst, PlainFirst

(* A simple string or an error. *)
LEMMA SimpleAnswer ==
  ASSUME NEW t \in Seq(Nat), Plain(t)
  PROVE  /\ \E line : LineAnswer(resp_simple(t), line)
         /\ \E line : LineAnswer(resp_error(t), line)
<1>2. \E line : LineAnswer(resp_simple(t), line)
  <2> DEFINE line == <<Plus>> \o t
             a == resp_simple(t)
  <2>1. line \in Seq(Nat) /\ line # <<>> /\ line[1] = Plus /\ Tail(line) = t /\ Plain(line)
    BY Marked
  <2>2. a.bytes = line \o CRLF
    BY DEF resp_simple
  <2> HIDE DEF line
  <2>3. \A r, reader : Meaning(line, r, reader) = Ok(a.value, r)
    BY <2>1, MarkerMeans
  <2> HIDE DEF a
  <2>4. LineAnswer(a, line)
    BY <2>1, <2>2, <2>3 DEF LineAnswer
  <2> QED
    BY <2>4 DEF a
<1>3. \E line : LineAnswer(resp_error(t), line)
  <2> DEFINE line == <<Minus>> \o t
             a == resp_error(t)
  <2>1. line \in Seq(Nat) /\ line # <<>> /\ line[1] = Minus /\ Tail(line) = t /\ Plain(line)
    BY Marked
  <2>2. a.bytes = line \o CRLF
    BY DEF resp_error
  <2> HIDE DEF line
  <2>3. \A r, reader : Meaning(line, r, reader) = Ok(a.value, r)
    BY <2>1, MarkerMeans
  <2> HIDE DEF a
  <2>4. LineAnswer(a, line)
    BY <2>1, <2>2, <2>3 DEF LineAnswer
  <2> QED
    BY <2>4 DEF a
<1> QED
  BY <1>2, <1>3

(* An integer. *)
LEMMA IntegerAnswer ==
  ASSUME NEW n \in Int, -I64Max <= n, n <= I64Max
  PROVE  \E line : LineAnswer(resp_integer(n), line)
<1> DEFINE t == to_string(n)
           line == <<Colon>> \o t
           a == resp_integer(n)
<1>1. t \in Seq(Nat) /\ Plain(t) /\ is_i64(t) /\ parse_i64(t) = n
  BY NumberReadBack
<1>2. a.bytes = line \o CRLF
  BY DEF resp_integer
<1> HIDE DEF t
<1>3. line \in Seq(Nat) /\ line # <<>> /\ line[1] = Colon /\ Tail(line) = t /\ Plain(line)
  BY <1>1, Marked
<1> HIDE DEF line
<1>4. \A r, reader : Meaning(line, r, reader) = Ok(a.value, r)
  BY <1>1, <1>3, MarkerMeans
<1> HIDE DEF a
<1>5. LineAnswer(a, line)
  BY <1>2, <1>3, <1>4 DEF LineAnswer
<1> QED
  BY <1>5 DEF a

LEMMA TwoBytes ==
  ASSUME NEW b \in Nat, NEW c \in Nat
  PROVE  <<b>> \o <<c>> = <<b, c>>
<1> DEFINE x == <<b, c>>
           y == <<c>>
           z == <<b>> \o y
<1>1. x \in Seq(Nat) /\ Len(x) = 2 /\ x[1] = b /\ x[2] = c
  OBVIOUS
<1>2. y \in Seq(Nat) /\ Len(y) = 1 /\ y[1] = c
  OBVIOUS
<1> HIDE DEF x, y
<1>3. /\ z \in Seq(Nat) /\ Len(z) = Len(y) + 1 /\ z[1] = b
      /\ \A i \in 1..Len(y) : z[i + 1] = y[i]
  BY <1>2, ByteFirst
<1> HIDE DEF z
<1>4. 1 \in 1..Len(y) /\ 1 + 1 = 2 /\ Len(z) = 2
  BY <1>2, <1>3
<1>5. z[2] = c
  BY <1>2, <1>3, <1>4
<1>6. ASSUME NEW i \in 1..Len(z) PROVE z[i] = x[i]
  <2>1. i = 1 \/ i = 2
    BY <1>4
  <2> QED
    BY <1>1, <1>3, <1>5, <2>1
<1> QED
  BY <1>1, <1>3, <1>4, <1>6, SeqEqual DEF x, y, z

(* The null reply. *)
LEMMA NullAnswer == \E line : LineAnswer(resp_null, line)
<1> DEFINE t == to_string(-1)
           line == <<Dollar>> \o t
           a == resp_null
<1>1. -1 \in Int /\ -I64Max <= -1 /\ -1 <= I64Max
  BY WireAssumption
<1>2. t \in Seq(Nat) /\ Plain(t) /\ is_i64(t) /\ parse_i64(t) = -1
  BY <1>1, NumberReadBack
<1>3. t = <<Minus, Zero + 1>>
  <2> DEFINE f == CHOOSE g : TextUpTo(1, g)
  <2>1. TextUpTo(1, f)
    BY TextsExist
  <2>2. push_usize(1) = f[1]
    BY DEF push_usize, TextUpTo
  <2> HIDE DEF f
  <2>3. f[1] = <<Zero + 1>>
    BY <2>1 DEF TextUpTo
  <2>4. t = <<Minus>> \o push_usize(1)
    BY DEF to_string
  <2>5. Minus \in Nat /\ Zero + 1 \in Nat
    BY DEF Minus, Zero
  <2>6. <<Minus>> \o <<Zero + 1>> = <<Minus, Zero + 1>>
    BY <2>5, TwoBytes
  <2> HIDE DEF t
  <2> QED
    BY <2>2, <2>3, <2>4, <2>6
<1>4. a.bytes = line \o CRLF
  <2>1. <<Dollar, Minus, Zero + 1>> = <<Dollar>> \o <<Minus, Zero + 1>>
    OBVIOUS
  <2> QED
    BY <1>3, <2>1 DEF resp_null
<1> HIDE DEF t
<1>5. line \in Seq(Nat) /\ line # <<>> /\ line[1] = Dollar /\ Tail(line) = t /\ Plain(line)
  BY <1>2, Marked
<1> HIDE DEF line
<1>6. ASSUME NEW r, NEW reader PROVE Meaning(line, r, reader) = Ok(a.value, r)
  <2>1. Meaning(line, r, reader) = parse_bulk_len(-1, r)
    BY SMTT(30), <1>2, <1>5, MarkerMeans
  <2>2. parse_bulk_len(-1, r) = Ok(resp_null.value, r)
    BY DEF parse_bulk_len
  <2> QED
    BY <2>1, <2>2
<1> HIDE DEF a
<1>7. LineAnswer(a, line)
  BY <1>4, <1>5, <1>6 DEF LineAnswer
<1> QED
  BY <1>7 DEF a

(* The bytes of an answer are the next in s and in what follows s. *)
AnswerNext(s, u, bytes, rest) == s \o u = bytes \o rest

(* What read_value makes of s, in which an answer is next: the answer's    *)
(* value once it has all arrived, and nothing before.                      *)
Reads(s, u, a, rest, reader) ==
  /\ Len(s) >= Len(a.bytes) =>
       \E r \in Seq(Nat) : read_value(s, reader) = Ok(a.value, r) /\ r \o u = rest
  /\ Len(s) < Len(a.bytes) => read_value(s, reader) = Wanting

(* The elements of s, in front of u, are those of x in front of y. *)
LEMMA FirstOnes ==
  ASSUME NEW s \in Seq(Nat), NEW u \in Seq(Nat), NEW x \in Seq(Nat), NEW y \in Seq(Nat),
         AnswerNext(s, u, x, y), Len(s) <= Len(x)
  PROVE  \A i \in 1..Len(s) : s[i] = x[i]
<1>1. Len(s) \in Nat /\ Len(x) \in Nat /\ Len(u) \in Nat /\ Len(y) \in Nat
  OBVIOUS
<1>2. \A i \in 1..(Len(s) + Len(u)) : (s \o u)[i] = IF i <= Len(s) THEN s[i] ELSE u[i - Len(s)]
  BY ConcatProperties
<1>3. \A i \in 1..(Len(x) + Len(y)) : (x \o y)[i] = IF i <= Len(x) THEN x[i] ELSE y[i - Len(x)]
  BY ConcatProperties
<1>4. s \o u = x \o y
  BY DEF AnswerNext
<1>5. ASSUME NEW i \in 1..Len(s) PROVE s[i] = x[i]
  <2>1. i \in 1..(Len(s) + Len(u)) /\ i <= Len(s) /\ i \in 1..(Len(x) + Len(y)) /\ i <= Len(x)
    BY <1>1
  <2>2. (s \o u)[i] = s[i]
    BY <1>2, <2>1
  <2>3. (x \o y)[i] = x[i]
    BY <1>3, <2>1
  <2> QED
    BY <1>4, <2>2, <2>3
<1> QED
  BY <1>5

(* A read that read_line cannot serve is served by nothing. *)
LEMMA WantingStays ==
  ASSUME NEW s, NEW reader, cut \in BOOLEAN, read_line(s) = Wanting
  PROVE  read_value(s, reader) = Wanting
<1>1. Wanting.st # "ok"
  BY DEF Wanting, Protocol, Blocked
<1> DEFINE got == read_line(s)
<1>2. got.st # "ok"
  BY <1>1
<1>3. read_value(s, reader) =
        IF got.st # "ok" THEN got ELSE Meaning(got.value, got.rest, reader)
  BY Zenon DEF read_value, ByMarker, Meaning
<1> HIDE DEF got
<1>4. read_value(s, reader) = got
  BY <1>2, <1>3
<1> QED
  BY <1>4 DEF got

(* A line next in s: read_line returns it once it has all arrived. *)
LEMMA LineRead ==
  ASSUME NEW s \in Seq(Nat), NEW u \in Seq(Nat), NEW line \in Seq(Nat), NEW rest \in Seq(Nat),
         Plain(line), AnswerNext(s, u, line \o CRLF, rest), cut \in BOOLEAN
  PROVE  /\ Len(s) >= Len(line) + 2 =>
              /\ read_line(s) = Ok(line, Drop(s, Len(line) + 2))
              /\ Drop(s, Len(line) + 2) \in Seq(Nat)
              /\ Drop(s, Len(line) + 2) \o u = rest
         /\ Len(s) < Len(line) + 2 => read_line(s) = Wanting
<1> DEFINE x == line \o CRLF
<1>1. x \in Seq(Nat) /\ Len(x) = Len(line) + 2 /\ Len(line) \in Nat /\ Len(s) \in Nat
  BY PlusCrLf
<1>2. CASE Len(s) >= Len(line) + 2
  <2>1. s \o u = x \o rest
    BY DEF AnswerNext
  <2>2. Len(x) <= Len(s)
    BY <1>1, <1>2
  <2> HIDE DEF x
  <2>3. /\ Keep(s, Len(x)) = x /\ Drop(s, Len(x)) \in Seq(Nat)
        /\ Drop(s, Len(x)) \o u = rest
    BY <1>1, <2>1, <2>2, SplitAt
  <2>4. Len(line) + 2 <= Len(s) /\ Keep(s, Len(line) + 2) = line \o CRLF
    BY <1>1, <2>2, <2>3 DEF x
  <2>5. read_line(s) = Ok(line, Drop(s, Len(line) + 2))
    BY <2>4, LineArrived
  <2>6. Drop(s, Len(line) + 2) \in Seq(Nat) /\ Drop(s, Len(line) + 2) \o u = rest
    BY <1>1, <2>3
  <2>7. ~(Len(s) < Len(line) + 2)
    BY <1>1, <1>2
  <2> QED
    BY <2>5, <2>6, <2>7
<1>3. CASE Len(s) < Len(line) + 2
  <2>1. AnswerNext(s, u, x, rest) /\ Len(s) <= Len(x)
    BY <1>1, <1>3
  <2> HIDE DEF x
  <2>2. \A i \in 1..Len(s) : s[i] = x[i]
    BY <1>1, <2>1, FirstOnes
  <2>3. \A i \in 1..Len(s) : s[i] = (line \o CRLF)[i]
    BY <2>2 DEF x
  <2>4. read_line(s) = Wanting
    BY <1>3, <2>3, LineNotArrived
  <2>5. ~(Len(s) >= Len(line) + 2)
    BY <1>1, <1>3
  <2> QED
    BY <2>4, <2>5
<1> QED
  BY <1>1, <1>2, <1>3

(* An answer of one line is read back. *)
LEMMA LineAnswerRead ==
  ASSUME NEW a, NEW line, LineAnswer(a, line), NEW s \in Seq(Nat), NEW u \in Seq(Nat),
         NEW rest \in Seq(Nat), NEW reader, AnswerNext(s, u, a.bytes, rest), cut \in BOOLEAN
  PROVE  Reads(s, u, a, rest, reader)
<1>1. /\ line \in Seq(Nat) /\ Plain(line) /\ a.bytes = line \o CRLF
      /\ \A r, rd : Meaning(line, r, rd) = Ok(a.value, r)
  BY DEF LineAnswer
<1>2. Len(a.bytes) = Len(line) + 2
  BY <1>1, PlusCrLf
<1>3. AnswerNext(s, u, line \o CRLF, rest)
  BY <1>1
<1> DEFINE r == Drop(s, Len(line) + 2)
<1>4. /\ Len(s) >= Len(line) + 2 =>
           read_line(s) = Ok(line, r) /\ r \in Seq(Nat) /\ r \o u = rest
      /\ Len(s) < Len(line) + 2 => read_line(s) = Wanting
  BY <1>1, <1>3, LineRead
<1> HIDE DEF r
<1>5. ASSUME Len(s) >= Len(a.bytes) PROVE read_value(s, reader) = Ok(a.value, r)
  <2>1. read_line(s) = Ok(line, r)
    BY <1>2, <1>4, <1>5
  <2>2. read_value(s, reader) = Meaning(line, r, reader)
    BY <2>1, ReadsLine
  <2> QED
    BY <1>1, <2>2
<1>6. ASSUME Len(s) < Len(a.bytes) PROVE read_value(s, reader) = Wanting
  <2>1. read_line(s) = Wanting
    BY <1>2, <1>4, <1>6
  <2> QED
    BY <2>1, WantingStays
<1> QED
  BY <1>2, <1>4, <1>5, <1>6 DEF Reads

(* The data of a bulk string, as parse_bulk_len takes it. *)
LEMMA DataRead ==
  ASSUME NEW r \in Seq(Nat), NEW u \in Seq(Nat), NEW d \in Seq(Nat), NEW rest \in Seq(Nat),
         DataNext(r, u, d, rest), cut \in BOOLEAN
  PROVE  /\ Len(r) >= Len(d) + 2 =>
              \E q \in Seq(Nat) :
                parse_bulk_len(Len(d), r) = Ok(resp_bulk(d).value, q) /\ q \o u = rest
         /\ Len(r) < Len(d) + 2 => parse_bulk_len(Len(d), r) = Wanting
<1> DEFINE n == Len(d)
<1>1. n \in Nat /\ Len(r) \in Nat /\ ~(n < 0)
  OBVIOUS
<1>2. ASSUME Len(r) >= n + 2
      PROVE  \E q \in Seq(Nat) : parse_bulk_len(n, r) = Ok(resp_bulk(d).value, q) /\ q \o u = rest
  <2> DEFINE q == Drop(r, n + 2)
             v == Ok(resp_bulk(d).value, q)
  <2>1. n + 2 <= Len(r)
    BY <1>1, <1>2
  <2>2. Keep(r, n) = d /\ SubSeq(r, n + 1, n + 2) = CRLF /\ q \in Seq(Nat) /\ q \o u = rest
    BY <2>1, TakeData
  <2>3. v = Ok(resp_bulk(Keep(r, n)).value, Drop(r, n + 2))
    BY <2>2
  <2>4. ~(Len(r) < n + 2)
    BY <1>1, <1>2
  <2> HIDE DEF v
  <2>5. parse_bulk_len(n, r) = v
    BY <1>1, <2>2, <2>3, <2>4 DEF parse_bulk_len
  <2> HIDE DEF q
  <2> QED
    BY <2>2, <2>5 DEF v
<1>3. ASSUME Len(r) < n + 2 PROVE parse_bulk_len(n, r) = Wanting
  <2> DEFINE v == Wanting
  <2>1. v = IF cut THEN Protocol ELSE Blocked
    BY DEF Wanting
  <2>2. n >= 0
    BY <1>1
  <2> HIDE DEF v
  <2>3. parse_bulk_len(n, r) = v
    BY <1>1, <1>3, <2>1, <2>2 DEF parse_bulk_len
  <2> QED
    BY <2>3 DEF v
<1> QED
  BY <1>2, <1>3

(* A bulk string is read back. *)
LEMMA BulkRead ==
  ASSUME NEW d \in Seq(Nat), Len(d) <= I64Max, NEW s \in Seq(Nat), NEW u \in Seq(Nat),
         NEW rest \in Seq(Nat), NEW reader, AnswerNext(s, u, resp_bulk(d).bytes, rest),
         cut \in BOOLEAN
  PROVE  Reads(s, u, resp_bulk(d), rest, reader)
<1> DEFINE n == Len(d)
           a == resp_bulk(d)
           t == push_usize(n)
           line == <<Dollar>> \o t
           x == line \o CRLF
           y == d \o CRLF
           m == Len(line) + 2
           r == Drop(s, m)
<1>1. n \in Nat /\ n \in Int /\ -I64Max <= n /\ n <= I64Max
  BY WireAssumption
<1>2. t = to_string(n)
  BY <1>1 DEF to_string
<1>3. t \in Seq(Nat) /\ Plain(t) /\ is_i64(t) /\ parse_i64(t) = n
  BY <1>1, <1>2, NumberReadBack
<1>4. a.bytes = EncodeBulk(d)
  BY DEF resp_bulk
<1>5. /\ EncodeBulk(d) \in Seq(Nat)
      /\ \A z \in Seq(Nat) : EncodeBulk(d) \o z = x \o (y \o z)
  BY BulkLayout
<1> HIDE DEF t
<1>6. line \in Seq(Nat) /\ line # <<>> /\ line[1] = Dollar /\ Tail(line) = t /\ Plain(line)
  BY <1>3, Marked
<1> HIDE DEF line
<1>7. /\ x \in Seq(Nat) /\ Len(x) = m /\ Len(line) \in Nat /\ m \in Nat
      /\ y \in Seq(Nat) /\ Len(y) = n + 2 /\ Len(s) \in Nat
  BY <1>6, PlusCrLf
<1>8. x \o (y \o rest) = s \o u
  BY <1>4, <1>5 DEF AnswerNext
<1>9. AnswerNext(s, u, line \o CRLF, y \o rest)
  BY <1>8 DEF AnswerNext
<1> HIDE DEF x, y
<1>10. y \o rest \in Seq(Nat)
  BY <1>7, ConcatProperties
<1>11. Len(a.bytes) = m + (n + 2)
  <2> DEFINE e == <<>>
             b == EncodeBulk(d)
  <2>1. e \in Seq(Nat) /\ \A z \in Seq(Nat) : z \o e = z
    BY ConcatEmptySeq
  <2> HIDE DEF e, b
  <2>2. b \in Seq(Nat) /\ b \o e = x \o (y \o e)
    BY <1>5, <2>1 DEF b
  <2>3. b = x \o y
    BY <1>7, <2>1, <2>2
  <2>4. Len(x \o y) = Len(x) + Len(y)
    BY <1>7, ConcatProperties
  <2> QED
    BY <1>4, <1>7, <2>3, <2>4 DEF b
<1>12. /\ Len(s) >= m => read_line(s) = Ok(line, r) /\ r \in Seq(Nat) /\ r \o u = y \o rest
       /\ Len(s) < m => read_line(s) = Wanting
  BY <1>6, <1>9, <1>10, LineRead
<1> HIDE DEF a
<1>13. CASE Len(s) < m
  <2>1. read_value(s, reader) = Wanting
    BY <1>12, <1>13, WantingStays
  <2>2. Len(s) < Len(a.bytes) /\ ~(Len(s) >= Len(a.bytes))
    BY <1>1, <1>7, <1>11, <1>13
  <2> QED
    BY <2>1, <2>2 DEF Reads, a
<1>14. CASE Len(s) >= m
  <2>1. read_line(s) = Ok(line, r) /\ r \in Seq(Nat) /\ DataNext(r, u, d, rest)
    BY <1>12, <1>14 DEF DataNext, y
  <2>2. Len(r) = Len(s) - m
    BY <1>7, <1>14 DEF Drop
  <2> HIDE DEF r
  <2>3. read_value(s, reader) = Meaning(line, r, reader)
    BY <2>1, ReadsLine
  <2>4. Meaning(line, r, reader) = parse_bulk_len(n, r)
    <3>1. line[1] = Dollar /\ is_i64(t) =>
            Meaning(line, r, reader) = parse_bulk_len(parse_i64(t), r)
      BY <1>6, MarkerMeans
    <3> QED
      BY <1>3, <1>6, <3>1
  <2>5. read_value(s, reader) = parse_bulk_len(n, r)
    BY <2>3, <2>4
  <2>6. /\ Len(r) >= n + 2 =>
             \E q \in Seq(Nat) : parse_bulk_len(n, r) = Ok(a.value, q) /\ q \o u = rest
        /\ Len(r) < n + 2 => parse_bulk_len(n, r) = Wanting
    BY <2>1, DataRead DEF a
  <2>7. /\ Len(s) >= Len(a.bytes) <=> Len(r) >= n + 2
        /\ Len(s) < Len(a.bytes) <=> Len(r) < n + 2
    BY <1>1, <1>7, <1>11, <2>2
  <2>8. Reads(s, u, a, rest, reader)
    BY <2>5, <2>6, <2>7 DEF Reads
  <2> QED
    BY <2>8 DEF a
<1> QED
  BY <1>7, <1>13, <1>14

(* Every flat answer is read back, and its bytes are bytes. *)
LEMMA FlatRead ==
  ASSUME NEW a, IsFlat(a), NEW s \in Seq(Nat), NEW u \in Seq(Nat), NEW rest \in Seq(Nat),
         NEW reader, AnswerNext(s, u, a.bytes, rest), cut \in BOOLEAN
  PROVE  Reads(s, u, a, rest, reader)
<1>1. CASE \E t \in Seq(Nat) : Plain(t) /\ (a = resp_simple(t) \/ a = resp_error(t))
  <2>1. \E line : LineAnswer(a, line)
    BY <1>1, SimpleAnswer
  <2> QED
    BY <2>1, LineAnswerRead
<1>2. CASE \E n \in Int : -I64Max <= n /\ n <= I64Max /\ a = resp_integer(n)
  <2>1. \E line : LineAnswer(a, line)
    BY <1>2, IntegerAnswer
  <2> QED
    BY <2>1, LineAnswerRead
<1>3. CASE \E d \in Seq(Nat) : Len(d) <= I64Max /\ a = resp_bulk(d)
  BY <1>3, BulkRead
<1>4. CASE a = resp_null
  <2>1. \E line : LineAnswer(a, line)
    BY <1>4, NullAnswer
  <2> QED
    BY <2>1, LineAnswerRead
<1> QED
  BY <1>1, <1>2, <1>3, <1>4 DEF IsFlat

(* The bytes of a flat answer. *)
LEMMA FlatBytes ==
  ASSUME NEW a, IsFlat(a)
  PROVE  a.bytes \in Seq(Nat)
<1>0. ASSUME NEW line, LineAnswer(a, line) PROVE a.bytes \in Seq(Nat)
  <2>1. line \in Seq(Nat) /\ a.bytes = line \o CRLF
    BY <1>0 DEF LineAnswer
  <2>2. a.bytes \in Seq(Nat) /\ Len(a.bytes) = Len(line) + 2 /\ Len(line) \in Nat
    BY <2>1, PlusCrLf
  <2> QED
    BY <2>2
<1>1. CASE \E t \in Seq(Nat) : Plain(t) /\ (a = resp_simple(t) \/ a = resp_error(t))
  BY <1>0, <1>1, SimpleAnswer
<1>2. CASE \E n \in Int : -I64Max <= n /\ n <= I64Max /\ a = resp_integer(n)
  BY <1>0, <1>2, IntegerAnswer
<1>3. CASE \E d \in Seq(Nat) : Len(d) <= I64Max /\ a = resp_bulk(d)
  <2>1. PICK d \in Seq(Nat) : a = resp_bulk(d)
    BY <1>3
  <2>2. a.bytes = EncodeBulk(d)
    BY <2>1 DEF resp_bulk
  <2>3. EncodeBulk(d) \in Seq(Nat)
    BY BulkLayout
  <2> QED
    BY <2>2, <2>3
<1>4. CASE a = resp_null
  BY <1>0, <1>4, NullAnswer
<1> QED
  BY <1>1, <1>2, <1>3, <1>4 DEF IsFlat

(* An empty stream gives nothing. *)
LEMMA NothingToRead ==
  ASSUME NEW reader, cut \in BOOLEAN
  PROVE  read_value(<<>>, reader) = Wanting
<1> DEFINE s == <<>>
           line == <<>>
<1>1. s \in Seq(Nat) /\ Len(s) = 0 /\ line \in Seq(Nat) /\ Len(line) = 0
  OBVIOUS
<1>2. read_line(s) = Wanting
  <2> HIDE DEF s, line
  <2>1. Plain(line) /\ Len(s) < Len(line) + 2 /\ \A i \in 1..Len(s) : s[i] = (line \o CRLF)[i]
    BY <1>1 DEF Plain
  <2> QED
    BY <1>1, <2>1, LineNotArrived
<1> QED
  BY <1>2, WantingStays

-----------------------------------------------------------------------------
(* The replies on their way.                                               *)

(* Every answer the server gives, a refused command's among them. *)
AllAnswers == Answers \cup {resp_error(<<112>>)}
FlatAnswers == \A a \in Answers : IsFlat(a)

Texts(A) == [i \in 1..Len(A) |-> A[i].bytes]
Meant(A) == [i \in 1..Len(A) |-> A[i].value]

(* The bytes of the answers in A from the one after the c-th on. *)
Unread(A, c) == FlattenSeq(SubSeq(Texts(A), c + 1, Len(Texts(A))))

(* The refusal of a malformed command is flat too. *)
LEMMA AllFlat ==
  ASSUME FlatAnswers
  PROVE  \A a \in AllAnswers : IsFlat(a) /\ a.bytes \in Seq(Nat)
<1> DEFINE t == <<112>>
           e == resp_error(t)
<1>1. t \in Seq(Nat) /\ Len(t) = 1 /\ t[1] = 112
  OBVIOUS
<1>2. Plain(t)
  <2> HIDE DEF t
  <2>1. ASSUME NEW i \in 1..Len(t) PROVE t[i] # CR /\ t[i] # LF
    <3>1. i = 1
      BY <1>1
    <3> QED
      BY <1>1, <3>1 DEF CR, LF
  <2> QED
    BY <2>1 DEF Plain
<1>3. IsFlat(e)
  <2> HIDE DEF t
  <2> QED
    BY <1>1, <1>2 DEF IsFlat
<1> HIDE DEF e
<1>4. \A a \in AllAnswers : IsFlat(a)
  <2>1. \A a \in AllAnswers : a \in Answers \/ a = e
    BY DEF AllAnswers, e
  <2> QED
    BY <1>3, <2>1 DEF FlatAnswers
<1> QED
  BY <1>4, FlatBytes

(* The texts and the values of a sequence of answers. *)
LEMMA TextsType ==
  ASSUME FlatAnswers, NEW A \in Seq(AllAnswers)
  PROVE  /\ Len(A) \in Nat /\ \A i \in 1..Len(A) : A[i] \in AllAnswers
         /\ Texts(A) \in Seq(Seq(Nat)) /\ Len(Texts(A)) = Len(A)
         /\ \A i \in 1..Len(A) : Texts(A)[i] = A[i].bytes
         /\ \E T : Meant(A) \in Seq(T)
         /\ Len(Meant(A)) = Len(A)
         /\ \A i \in 1..Len(A) : Meant(A)[i] = A[i].value
<1> DEFINE n == Len(A)
           b == Texts(A)
           v == Meant(A)
           T == {A[i].value : i \in 1..n}
           B == Seq(Nat)
<1>1. n \in Nat /\ \A i \in 1..n : A[i] \in AllAnswers
  OBVIOUS
<1>2. \A i \in 1..n : A[i].bytes \in Seq(Nat)
  BY <1>1, AllFlat
<1>3. /\ b \in [1..n -> B] /\ v \in [1..n -> T]
      /\ \A i \in 1..n : b[i] = A[i].bytes
      /\ \A i \in 1..n : v[i] = A[i].value
  BY <1>2 DEF Texts, Meant
<1> HIDE DEF n, b, v, T, B
<1>4. b \in Seq(B) /\ Len(b) = n
  BY <1>1, <1>3
<1>5. v \in Seq(T) /\ Len(v) = n
  BY <1>1, <1>3
<1> QED
  BY <1>1, <1>3, <1>4, <1>5 DEF n, b, v, B

(* What is unread, one answer at a time. *)
LEMMA UnreadIs ==
  ASSUME FlatAnswers, NEW A \in Seq(AllAnswers), NEW c \in 0..Len(A)
  PROVE  /\ Unread(A, c) \in Seq(Nat)
         /\ c = Len(A) => Unread(A, c) = <<>>
         /\ c < Len(A) => /\ c + 1 \in 1..Len(A) /\ c + 1 \in 0..Len(A)
                          /\ Unread(A, c) = A[c + 1].bytes \o Unread(A, c + 1)
<1> DEFINE t == Texts(A)
           L == Len(t)
<1>1. t \in Seq(Seq(Nat)) /\ L = Len(A) /\ L \in Nat /\ \A i \in 1..Len(A) : t[i] = A[i].bytes
  BY TextsType
<1>2. c \in 0..L
  BY <1>1
<1> HIDE DEF t
<1>3. /\ FlattenSeq(SubSeq(t, c + 1, L)) \in Seq(Nat)
      /\ c = L => FlattenSeq(SubSeq(t, c + 1, L)) = <<>>
      /\ c < L => FlattenSeq(SubSeq(t, c + 1, L))
                    = t[c + 1] \o FlattenSeq(SubSeq(t, c + 2, L))
  BY <1>1, <1>2, FlattenFrom
<1>4. /\ Unread(A, c) \in Seq(Nat)
      /\ c = L => Unread(A, c) = <<>>
  BY <1>3 DEF Unread, t
<1>5. ASSUME c < L
      PROVE  /\ c + 1 \in 1..Len(A) /\ c + 1 \in 0..Len(A)
             /\ Unread(A, c) = A[c + 1].bytes \o Unread(A, c + 1)
  <2>1. c + 1 \in 1..Len(A) /\ c + 1 \in 0..Len(A) /\ (c + 1) + 1 = c + 2
    BY <1>1, <1>2, <1>5
  <2>2. t[c + 1] = A[c + 1].bytes
    BY <1>1, <2>1
  <2>3. Unread(A, c) = t[c + 1] \o FlattenSeq(SubSeq(t, c + 2, L))
    BY <1>3, <1>5 DEF Unread, t
  <2>4. Unread(A, c + 1) = FlattenSeq(SubSeq(t, c + 2, L))
    BY <2>1 DEF Unread, t
  <2> QED
    BY <2>1, <2>2, <2>3, <2>4
<1> QED
  BY <1>1, <1>4, <1>5

(* One more answer. *)
LEMMA Answered ==
  ASSUME FlatAnswers, NEW A \in Seq(AllAnswers), NEW a \in AllAnswers, NEW c \in 0..Len(A)
  PROVE  /\ Append(A, a) \in Seq(AllAnswers) /\ Len(Append(A, a)) = Len(A) + 1
         /\ Meant(Append(A, a)) = Append(Meant(A), a.value)
         /\ Unread(Append(A, a), c) = Unread(A, c) \o a.bytes
<1> DEFINE B == Append(A, a)
           n == Len(A)
           t == Texts(A)
           x == a.bytes
<1>1. /\ B \in Seq(AllAnswers) /\ Len(B) = n + 1 /\ n \in Nat
      /\ \A i \in 1..n : B[i] = A[i]
      /\ B[n + 1] = a
  BY AppendProperties
<1>2. /\ t \in Seq(Seq(Nat)) /\ Len(t) = n /\ \A i \in 1..n : t[i] = A[i].bytes
      /\ Len(Meant(A)) = n /\ \A i \in 1..n : Meant(A)[i] = A[i].value
      /\ x \in Seq(Nat)
  BY TextsType, AllFlat
<1>3. PICK T : Meant(A) \in Seq(T)
  BY TextsType
<1> HIDE DEF n, B
<1>4. Meant(B) = Append(Meant(A), a.value)
  <2> DEFINE m == Meant(A)
             w == a.value
             U == T \cup {w}
             q == Append(m, w)
  <2>1. m \in Seq(U)
    BY <1>3, SeqMonotonic
  <2> HIDE DEF m
  <2>2. w \in U
    OBVIOUS
  <2>3. Len(m) = n /\ \A i \in 1..n : m[i] = A[i].value
    BY <1>2 DEF m
  <2> HIDE DEF w, U
  <2>4. q \in Seq(U) /\ Len(q) = n + 1 /\ (\A i \in 1..n : q[i] = m[i]) /\ q[n + 1] = w
    BY <1>1, <2>1, <2>2, <2>3, AppendProperties
  <2> HIDE DEF q
  <2>5. ASSUME NEW i \in 1..(n + 1) PROVE q[i] = B[i].value
    <3>1. CASE i = n + 1
      BY <1>1, <2>4, <3>1 DEF w
    <3>2. CASE i # n + 1
      <4>1. i \in 1..n
        BY <1>1, <3>2
      <4> QED
        BY <1>1, <2>3, <2>4, <4>1
    <3> QED
      BY <3>1, <3>2
  <2>6. q = [i \in 1..(n + 1) |-> q[i]]
    BY <1>1, <2>4
  <2>7. q = [i \in 1..(n + 1) |-> B[i].value]
    BY <2>5, <2>6
  <2> QED
    BY <1>1, <2>7 DEF Meant, q, m, w
<1>5. Texts(B) = Append(t, x)
  <2> DEFINE q == Append(t, x)
             U == Seq(Nat)
  <2> HIDE DEF t, x, U
  <2>1. t \in Seq(U) /\ x \in U /\ Len(t) = n
    BY <1>2 DEF U
  <2>2. q \in Seq(U) /\ Len(q) = n + 1 /\ (\A i \in 1..n : q[i] = t[i]) /\ q[n + 1] = x
    BY <1>1, <2>1, AppendProperties
  <2> HIDE DEF q
  <2>3. ASSUME NEW i \in 1..(n + 1) PROVE q[i] = B[i].bytes
    <3>1. CASE i = n + 1
      BY <1>1, <2>2, <3>1 DEF x
    <3>2. CASE i # n + 1
      <4>1. i \in 1..n
        BY <1>1, <3>2
      <4> QED
        BY <1>1, <1>2, <2>2, <4>1
    <3> QED
      BY <3>1, <3>2
  <2>4. q = [i \in 1..(n + 1) |-> q[i]]
    BY <1>1, <2>2
  <2>5. q = [i \in 1..(n + 1) |-> B[i].bytes]
    BY <2>3, <2>4
  <2> QED
    BY <1>1, <2>5 DEF Texts, q
<1>6. Unread(B, c) = Unread(A, c) \o x
  <2> DEFINE q == Append(t, x)
             U == Seq(Nat)
             h == SubSeq(t, c + 1, n)
  <2> HIDE DEF t, x, U
  <2>1. t \in Seq(U) /\ x \in U /\ Len(t) = n /\ c \in 0..n /\ n \in Nat
    BY <1>1, <1>2 DEF U, n
  <2>2. q \in Seq(U) /\ Len(q) = n + 1
    BY <1>1, <2>1, AppendProperties
  <2>3. h \in Seq(U)
    BY <2>1, SubSeqProperties
  <2>4. SubSeq(q, c + 1, n + 1) = Append(h, x)
    BY <2>1
  <2> HIDE DEF q, h
  <2>5. FlattenSeq(Append(h, x)) = FlattenSeq(h) \o x
    BY <2>1, <2>3, FlattenSnoc DEF U
  <2>6. Unread(B, c) = FlattenSeq(SubSeq(q, c + 1, n + 1))
    BY <1>5, <2>2 DEF Unread, q
  <2>7. Unread(A, c) = FlattenSeq(h)
    BY <2>1 DEF Unread, h, t
  <2> QED
    BY <2>4, <2>5, <2>6, <2>7
<1> QED
  BY <1>1, <1>4, <1>6 DEF B, n

(* The replies written are the answers in A; the first of them have been   *)
(* read, in order; the others are what has arrived and what follows: the   *)
(* bytes on their way, or, after a cut, bytes that are lost.               *)
ResponseAt(A, rest) ==
  /\ A \in Seq(AllAnswers) /\ rest \in Seq(Nat)
  /\ arrived \in Seq(Nat) /\ out \in Seq(Nat) /\ cut \in BOOLEAN
  /\ replies = Meant(A)
  /\ Len(values) \in 0..Len(A) /\ values = SubSeq(Meant(A), 1, Len(values))
  /\ AnswerNext(arrived, rest, Unread(A, Len(values)), <<>>)
  /\ ~cut => rest = out
  /\ cut => out = <<>> /\ phase = "closed"
  /\ failed => cut

ResponseInv == \E A, rest : ResponseAt(A, rest)

LEMMA AnswerNextIs ==
  ASSUME NEW s, NEW u, NEW x \in Seq(Nat)
  PROVE  AnswerNext(s, u, x, <<>>) <=> s \o u = x
<1>1. x \o <<>> = x
  BY ConcatEmptySeq
<1> QED
  BY <1>1 DEF AnswerNext

LEMMA ResponseInit ==
  ASSUME FlatAnswers, WireInit
  PROVE  ResponseInv
<1> DEFINE A == <<>>
           rest == <<>>
<1>1. A \in Seq(AllAnswers) /\ rest \in Seq(Nat) /\ Len(A) = 0 /\ 0 \in 0..Len(A)
  OBVIOUS
<1>2. /\ arrived = rest /\ out = rest /\ cut = FALSE /\ failed = FALSE
      /\ replies = <<>> /\ values = <<>> /\ Len(values) = 0
  BY DEF WireInit
<1>3. Unread(A, 0) = rest
  <2> HIDE DEF A
  <2>1. Unread(A, 0) = <<>>
    BY <1>1, UnreadIs
  <2> QED
    BY <2>1
<1>4. Meant(A) = <<>>
  BY DEF Meant
<1>5. SubSeq(<<>>, 1, 0) = <<>>
  OBVIOUS
<1>6. AnswerNext(rest, rest, rest, <<>>)
  BY DEF AnswerNext
<1>7. ResponseAt(A, rest)
  <2> HIDE DEF A, rest
  <2>1. AnswerNext(arrived, rest, Unread(A, Len(values)), <<>>)
    BY <1>2, <1>3, <1>6 DEF rest
  <2>2. replies = Meant(A) /\ values = SubSeq(Meant(A), 1, Len(values))
    BY <1>2, <1>4, <1>5
  <2> QED
    BY <1>1, <1>2, <2>1, <2>2 DEF ResponseAt
<1> QED
  BY <1>7 DEF ResponseInv

(* The server writes an answer. *)
LEMMA AnswerStep ==
  ASSUME FlatAnswers, NEW A, NEW rest, ResponseAt(A, rest), phase = "parse", NEW a \in AllAnswers,
         replies' = Append(replies, a.value), out' = out \o a.bytes,
         UNCHANGED <<arrived, cut, values, failed>>
  PROVE  ResponseInv'
<1> DEFINE B == Append(A, a)
           c == Len(values)
           x == a.bytes
           y == rest \o x
<1>1. /\ A \in Seq(AllAnswers) /\ rest \in Seq(Nat)
      /\ arrived \in Seq(Nat) /\ out \in Seq(Nat) /\ cut \in BOOLEAN
      /\ replies = Meant(A)
      /\ c \in 0..Len(A) /\ values = SubSeq(Meant(A), 1, c)
      /\ AnswerNext(arrived, rest, Unread(A, c), <<>>)
  BY DEF ResponseAt
<1>2. ~cut /\ rest = out /\ ~failed
  BY DEF ResponseAt
<1>3. /\ B \in Seq(AllAnswers) /\ Len(B) = Len(A) + 1
      /\ Meant(B) = Append(Meant(A), a.value)
      /\ Unread(B, c) = Unread(A, c) \o x
  BY <1>1, Answered
<1>4. x \in Seq(Nat) /\ Unread(A, c) \in Seq(Nat)
  BY <1>1, AllFlat, UnreadIs
<1> HIDE DEF x, B
<1>5. y \in Seq(Nat) /\ out' = y /\ Unread(B, c) \in Seq(Nat)
  BY <1>1, <1>2, <1>3, <1>4, ConcatProperties DEF x
<1>6. arrived \o y = Unread(B, c)
  <2>1. arrived \o rest = Unread(A, c)
    BY <1>1, <1>4, AnswerNextIs
  <2>2. arrived \o (rest \o x) = (arrived \o rest) \o x
    BY <1>1, <1>4, Regroup
  <2> QED
    BY <1>3, <2>1, <2>2
<1> HIDE DEF y
<1>7. AnswerNext(arrived, y, Unread(B, c), <<>>)
  BY <1>5, <1>6, AnswerNextIs
<1>8. c \in 0..Len(B) /\ values = SubSeq(Meant(B), 1, c)
  <2>1. PICK T : Meant(A) \in Seq(T)
    BY <1>1, TextsType
  <2> DEFINE m == Meant(A)
             w == a.value
             U == T \cup {w}
  <2>2. m \in Seq(U) /\ w \in U
    BY <2>1, SeqMonotonic
  <2>3. Len(m) = Len(A) /\ Len(A) \in Nat
    BY <1>1, TextsType
  <2> HIDE DEF m, w, U
  <2>4. SubSeq(Append(m, w), 1, c) = SubSeq(m, 1, c)
    BY <1>1, <2>2, <2>3
  <2>5. c \in 0..Len(B)
    BY <1>1, <1>3, <2>3
  <2> QED
    BY <1>1, <1>3, <2>4, <2>5 DEF m, w
<1>9. replies' = Meant(B)
  BY <1>1, <1>3
<1>10. ResponseAt(B, y)'
  <2>1. AnswerNext(arrived, y, Unread(B, c), <<>>)'
    BY <1>7
  <2> QED
    BY <1>1, <1>2, <1>3, <1>5, <1>7, <1>8, <1>9 DEF ResponseAt
<1> QED
  BY <1>10 DEF ResponseInv

(* Nothing of it changes but the task's phase. *)
LEMMA OtherStep ==
  ASSUME ResponseInv, UNCHANGED <<replies, out, arrived, cut, values, failed>>,
         phase' = phase \/ ~cut
  PROVE  ResponseInv'
BY DEF ResponseInv, ResponseAt, AnswerNext, Unread, Meant, Texts

(* Bytes reach the client. *)
LEMMA DeliverStep ==
  ASSUME FlatAnswers, ResponseInv, DeliverReply
  PROVE  ResponseInv'
<1>1. PICK A, rest : ResponseAt(A, rest)
  BY DEF ResponseInv
<1>2. /\ ~cut /\ rest = out /\ arrived \in Seq(Nat) /\ out \in Seq(Nat) /\ A \in Seq(AllAnswers)
      /\ Len(values) \in 0..Len(A)
      /\ AnswerNext(arrived, rest, Unread(A, Len(values)), <<>>)
  BY <1>1 DEF ResponseAt, DeliverReply
<1>3. PICK n \in 1..Len(out) : arrived' = arrived \o Keep(out, n) /\ out' = Drop(out, n)
  BY DEF DeliverReply
<1>4. UNCHANGED <<replies, cut, values, failed, phase>>
  BY DEF DeliverReply, serverVars
<1> DEFINE o == out
           k == Keep(o, n)
           d == Drop(o, n)
           x == Unread(A, Len(values))
<1>5. k \in Seq(Nat) /\ d \in Seq(Nat) /\ k \o d = o
  <2>1. Len(o) \in Nat /\ n \in 0..Len(o)
    BY <1>2
  <2>2. d \in Seq(Nat)
    BY <1>2, <2>1, UnreadType
  <2>3. \A i \in 1..n : o[i] \in Nat
    BY <1>2, <2>1
  <2>4. k \in Seq(Nat)
    BY <1>2, <2>1, <2>3, SubSeqProperties DEF Keep
  <2>5. k \o d = o
    <3> HIDE DEF o
    <3> QED
      BY <1>2, <2>1 DEF Keep, Drop, o
  <2> QED
    BY <2>2, <2>4, <2>5
<1> HIDE DEF k, d
<1>6. x \in Seq(Nat)
  BY <1>2, UnreadIs
<1> HIDE DEF x
<1>7. (arrived \o k) \o d = x
  <2>1. (arrived \o k) \o d = arrived \o (k \o d)
    BY <1>2, <1>5, Regroup
  <2>2. arrived \o rest = x
    BY <1>2, <1>6, AnswerNextIs DEF x
  <2> QED
    BY <1>2, <1>5, <2>1, <2>2
<1>8. arrived \o k \in Seq(Nat)
  BY <1>2, <1>5, ConcatProperties
<1>9. arrived' = arrived \o k /\ out' = d
  BY <1>3 DEF k, d
<1>10. AnswerNext(arrived \o k, d, x, <<>>)
  BY <1>6, <1>7, AnswerNextIs
<1>12. PICK e, y : e = d /\ y = x
  OBVIOUS
<1>11. ResponseAt(A, e)'
  <2>1. Unread(A, Len(values))' = y
    BY <1>4, <1>12 DEF x
  <2>2. arrived' \in Seq(Nat) /\ AnswerNext(arrived', e, y, <<>>)
    BY <1>8, <1>9, <1>10, <1>12
  <2>3. AnswerNext(arrived, e, Unread(A, Len(values)), <<>>)'
    BY <2>1, <2>2
  <2>4. /\ A \in Seq(AllAnswers) /\ e \in Seq(Nat) /\ arrived' \in Seq(Nat)
        /\ out' = e /\ cut' = FALSE /\ failed' = failed /\ ~failed
    BY <1>1, <1>2, <1>4, <1>5, <1>9, <1>12, <2>2 DEF ResponseAt
  <2>5. replies' = Meant(A) /\ Len(values)' \in 0..Len(A)
        /\ values' = SubSeq(Meant(A), 1, Len(values'))
    BY <1>1, <1>4 DEF ResponseAt
  <2> QED
    BY <2>3, <2>4, <2>5 DEF ResponseAt
<1> QED
  BY <1>11 DEF ResponseInv

(* The connection ends. *)
LEMMA CutStep ==
  ASSUME ResponseInv, Cut
  PROVE  ResponseInv'
<1>1. PICK A, rest : ResponseAt(A, rest)
  BY DEF ResponseInv
<1>2. /\ cut' = TRUE /\ phase' = "closed" /\ out' = <<>>
      /\ UNCHANGED <<replies, arrived, values, failed>>
  BY DEF Cut
<1>3. AnswerNext(arrived, rest, Unread(A, Len(values)), <<>>)'
  BY <1>1, <1>2 DEF ResponseAt
<1>4. ResponseAt(A, rest)'
  BY <1>1, <1>2, <1>3 DEF ResponseAt
<1> QED
  BY <1>4 DEF ResponseInv

(* What read_response makes of the bytes that have arrived. *)
LEMMA ResponseRead ==
  ASSUME FlatAnswers, NEW A, NEW rest, ResponseAt(A, rest)
  PROVE  LET c == Len(values)
             got == read_response(arrived)
         IN
         \/ /\ c < Len(A)
            /\ \E r \in Seq(Nat) : got = Ok(A[c + 1].value, r)
                                     /\ AnswerNext(r, rest, Unread(A, c + 1), <<>>)
         \/ got = Wanting /\ (c < Len(A) => Len(arrived) < Len(A[c + 1].bytes))
<1> DEFINE c == Len(values)
           s == arrived
           got == read_response(s)
           x == Unread(A, c)
<1>1. /\ A \in Seq(AllAnswers) /\ rest \in Seq(Nat) /\ s \in Seq(Nat) /\ cut \in BOOLEAN
      /\ c \in 0..Len(A) /\ AnswerNext(s, rest, x, <<>>)
  BY DEF ResponseAt
<1>2. Len(A) \in Nat /\ \A i \in 1..Len(A) : A[i] \in AllAnswers
  BY <1>1
<1>3. x \in Seq(Nat)
  BY <1>1, UnreadIs
<1>4. s \o rest = x
  BY <1>1, <1>3, AnswerNextIs
<1>5. PICK reader : got = read_value(s, reader)
  BY <1>1, ReadResponseIs
<1> HIDE DEF got
<1>6. CASE c = Len(A)
  <2>1. s \o rest = <<>>
    BY <1>1, <1>4, <1>6, UnreadIs
  <2>2. Len(s \o rest) = Len(s) + Len(rest) /\ Len(s) \in Nat /\ Len(rest) \in Nat
    BY <1>1, ConcatProperties
  <2>3. Len(s) = 0
    BY <2>1, <2>2
  <2>4. s = <<>>
    BY <1>1, <2>3
  <2>5. got = Wanting
    BY <1>1, <1>5, <2>4, NothingToRead
  <2>6. ~(c < Len(A))
    BY <1>2, <1>6
  <2> QED
    BY <2>5, <2>6 DEF got
<1>7. CASE c < Len(A)
  <2> DEFINE a == A[c + 1]
             y == Unread(A, c + 1)
  <2>1. c + 1 \in 1..Len(A) /\ c + 1 \in 0..Len(A) /\ x = a.bytes \o y
    BY <1>1, <1>7, UnreadIs
  <2>2. y \in Seq(Nat) /\ a \in AllAnswers
    BY <1>1, <1>2, <2>1, UnreadIs
  <2>3. IsFlat(a) /\ a.bytes \in Seq(Nat)
    BY <2>2, AllFlat
  <2>4. AnswerNext(s, rest, a.bytes, y)
    BY <1>4, <2>1 DEF AnswerNext
  <2> HIDE DEF a, y
  <2>5. Reads(s, rest, a, y, reader)
    BY <1>1, <2>2, <2>3, <2>4, FlatRead
  <2>6. CASE Len(s) >= Len(a.bytes)
    <3>1. PICK r \in Seq(Nat) : got = Ok(a.value, r) /\ r \o rest = y
      BY <1>5, <2>5, <2>6 DEF Reads
    <3>2. AnswerNext(r, rest, y, <<>>)
      BY <2>2, <3>1, AnswerNextIs
    <3> QED
      BY <1>7, <3>1, <3>2 DEF got, a, y
  <2>7. CASE Len(s) < Len(a.bytes)
    <3>1. got = Wanting
      BY <1>5, <2>5, <2>7 DEF Reads
    <3> QED
      BY <2>7, <3>1 DEF got, a
  <2>8. Len(s) \in Nat /\ Len(a.bytes) \in Nat
    BY <1>1, <2>3
  <2> QED
    BY <2>6, <2>7, <2>8
<1> QED
  BY <1>1, <1>2, <1>6, <1>7

(* The client reads a response, or finds the stream at its end. *)
LEMMA ReadStep ==
  ASSUME FlatAnswers, ResponseInv, ClientRead
  PROVE  ResponseInv'
<1> DEFINE got == read_response(arrived)
<1>1. PICK A, rest : ResponseAt(A, rest)
  BY DEF ResponseInv
<1>2. PICK c : c = Len(values)
  OBVIOUS
<1>3. /\ A \in Seq(AllAnswers) /\ cut \in BOOLEAN /\ rest \in Seq(Nat) /\ out \in Seq(Nat)
      /\ arrived \in Seq(Nat) /\ replies = Meant(A) /\ c \in 0..Len(A)
      /\ values = SubSeq(Meant(A), 1, c)
  BY <1>1, <1>2 DEF ResponseAt
<1>4. /\ UNCHANGED <<replies, out, cut, phase>> /\ got.st # "blocked" /\ ~failed
  BY DEF ClientRead, serverVars
<1>5. \/ /\ c < Len(A)
         /\ \E r \in Seq(Nat) : got = Ok(A[c + 1].value, r)
                                  /\ AnswerNext(r, rest, Unread(A, c + 1), <<>>)
      \/ got = Wanting
  BY <1>1, <1>2, ResponseRead
<1>6. ASSUME c < Len(A), NEW r \in Seq(Nat), got = Ok(A[c + 1].value, r),
             AnswerNext(r, rest, Unread(A, c + 1), <<>>)
      PROVE  ResponseInv'
  <2> DEFINE m == Meant(A)
             w == A[c + 1].value
  <2>1. got.st = "ok" /\ got.value = w /\ got.rest = r
    BY <1>6, OkFields
  <2>2. values' = Append(values, w) /\ arrived' = r /\ failed' = failed
    BY <2>1 DEF ClientRead
  <2>3. /\ Len(A) \in Nat /\ Len(m) = Len(A) /\ \A i \in 1..Len(A) : m[i] = A[i].value
    BY <1>3, TextsType
  <2>4. PICK T : m \in Seq(T)
    BY <1>3, TextsType
  <2>5. c + 1 \in 1..Len(A) /\ c + 1 \in 0..Len(A)
    BY <1>3, <1>6, <2>3
  <2>6. m[c + 1] = w
    BY <2>3, <2>5
  <2> HIDE DEF m, w
  <2>7. \A i \in 1..Len(m) : m[i] \in T
    BY <2>4
  <2>8. SubSeq(m, 1, c) \in Seq(T) /\ Len(SubSeq(m, 1, c)) = c
    BY <1>3, <2>3, <2>4, <2>7, SubSeqProperties
  <2>9. values' = SubSeq(m, 1, c + 1) /\ Len(values') = c + 1
    <3>1. SubSeq(m, 1, c + 1) = Append(SubSeq(m, 1, c), m[c + 1])
      BY <1>3, <2>3, <2>4, <2>5
    <3>2. values' = SubSeq(m, 1, c + 1)
      BY <1>3, <2>2, <2>6, <3>1 DEF m
    <3>3. Len(SubSeq(m, 1, c + 1)) = c + 1
      <4>1. \A i \in 1..(c + 1) : m[i] \in T
        BY <2>3, <2>5, <2>7
      <4> QED
        BY <1>3, <2>3, <2>4, <2>5, <4>1, SubSeqProperties
    <3> QED
      BY <3>2, <3>3
  <2>10. ResponseAt(A, rest)'
    <3>1. AnswerNext(arrived, rest, Unread(A, Len(values)), <<>>)'
      BY <1>6, <2>2, <2>9
    <3>2. /\ A \in Seq(AllAnswers) /\ rest \in Seq(Nat) /\ arrived' \in Seq(Nat)
          /\ out' \in Seq(Nat) /\ cut' \in BOOLEAN /\ replies' = Meant(A)
          /\ Len(values') \in 0..Len(A) /\ values' = SubSeq(Meant(A), 1, Len(values'))
      BY <1>3, <1>4, <2>2, <2>5, <2>9 DEF m
    <3>3. /\ ~cut' => rest = out'
          /\ cut' => out' = <<>> /\ phase' = "closed"
          /\ failed' => cut'
      BY <1>1, <1>4, <2>2 DEF ResponseAt
    <3> QED
      BY <3>1, <3>2, <3>3 DEF ResponseAt
  <2> QED
    BY <2>10 DEF ResponseInv
<1>7. CASE got = Wanting
  <2>1. cut /\ got.st # "ok"
    BY <1>3, <1>4, <1>7 DEF Wanting, Blocked, Protocol
  <2>2. failed' = TRUE /\ UNCHANGED <<values, arrived>>
    BY <2>1 DEF ClientRead
  <2>3. AnswerNext(arrived, rest, Unread(A, Len(values)), <<>>)'
    BY <1>1, <2>2 DEF ResponseAt
  <2>4. ResponseAt(A, rest)'
    BY <1>1, <1>4, <2>1, <2>2, <2>3 DEF ResponseAt
  <2> QED
    BY <2>4 DEF ResponseInv
<1> QED
  BY <1>5, <1>6, <1>7

(* A turn of the parser writes an answer or leaves the replies alone. *)
LEMMA ParseReplies ==
  ASSUME Parse
  PROVE  /\ phase = "parse" /\ UNCHANGED <<arrived, cut, values, failed>>
         /\ \/ UNCHANGED <<replies, out>>
            \/ \E a \in AllAnswers : replies' = Append(replies, a.value) /\ out' = out \o a.bytes
<1>1. phase = "parse" /\ UNCHANGED <<arrived, cut, values, failed>>
  BY DEF Parse, clientVars
<1> DEFINE Writes == \E a \in AllAnswers : /\ replies' = Append(replies, a.value)
                                           /\ out' = out \o a.bytes
           Quiet == UNCHANGED <<replies, out>>
<1>2. ASSUME NEW args, Returns(args) PROVE Writes
  BY <1>2 DEF Returns, AllAnswers
<1>3. Fails => Writes
  BY DEF Fails, AllAnswers
<1>4. (NeedMore => Quiet) /\ (Continues => Quiet) /\ (Panics => Quiet)
  BY DEF NeedMore, Continues, Panics
<1> HIDE DEF Writes, Quiet
<1>5. ASSUME ParseArrayLen PROVE Quiet \/ Writes
  BY <1>2, <1>3, <1>4, <1>5 DEF ParseArrayLen
<1>6. ASSUME ParseBulkLen PROVE Quiet \/ Writes
  BY <1>3, <1>4, <1>6 DEF ParseBulkLen
<1>7. ASSUME ParseBulkData PROVE Quiet \/ Writes
  BY <1>2, <1>3, <1>4, <1>7 DEF ParseBulkData
<1>8. Quiet \/ Writes
  BY <1>5, <1>6, <1>7 DEF Parse
<1> QED
  BY <1>1, <1>8 DEF Quiet, Writes

LEMMA ResponseStep ==
  ASSUME FlatAnswers, ResponseInv, [WireNext]_wireVars
  PROVE  ResponseInv'
<1>1. CASE ReadBuf
  <2>1. phase = "read" /\ UNCHANGED <<replies, out, arrived, cut, values, failed>>
    BY <1>1 DEF ReadBuf, clientVars
  <2>2. ~cut
    BY <2>1 DEF ResponseInv, ResponseAt
  <2> QED
    BY <2>1, <2>2, OtherStep
<1>2. CASE Parse
  <2>1. phase = "parse" /\ UNCHANGED <<arrived, cut, values, failed>>
    BY <1>2, ParseReplies
  <2>2. ~cut
    BY <2>1 DEF ResponseInv, ResponseAt
  <2>3. CASE UNCHANGED <<replies, out>>
    BY <2>1, <2>2, <2>3, OtherStep
  <2>4. ASSUME NEW a \in AllAnswers, replies' = Append(replies, a.value), out' = out \o a.bytes
        PROVE  ResponseInv'
    <3>1. PICK A, rest : ResponseAt(A, rest)
      BY DEF ResponseInv
    <3> QED
      BY <2>1, <2>4, <3>1, AnswerStep
  <2> QED
    BY <1>2, <2>3, <2>4, ParseReplies
<1>3. CASE DeliverReply
  BY <1>3, DeliverStep
<1>4. CASE Cut
  BY <1>4, CutStep
<1>5. CASE ClientRead
  BY <1>5, ReadStep
<1>6. CASE UNCHANGED wireVars
  BY <1>6, OtherStep DEF wireVars
<1> QED
  BY <1>1, <1>2, <1>3, <1>4, <1>5, <1>6 DEF WireNext

(* What the invariant says of the values read. *)
LEMMA ResponseHolds ==
  ASSUME FlatAnswers, ResponseInv
  PROVE  RepliesReadBack
<1>1. PICK A, rest : ResponseAt(A, rest)
  BY DEF ResponseInv
<1> DEFINE c == Len(values)
           m == Meant(A)
<1>2. /\ A \in Seq(AllAnswers) /\ rest \in Seq(Nat) /\ arrived \in Seq(Nat) /\ replies = m
      /\ c \in 0..Len(A) /\ values = SubSeq(m, 1, c) /\ (failed => cut) /\ (~cut => rest = out)
      /\ AnswerNext(arrived, rest, Unread(A, c), <<>>)
  BY <1>1 DEF ResponseAt
<1>3. Len(m) = Len(A) /\ Len(A) \in Nat
  BY <1>2, TextsType
<1>4. PICK T : m \in Seq(T)
  BY <1>2, TextsType
<1> HIDE DEF m
<1>5. IsPrefix(values, replies)
  <2>1. \A i \in 1..c : m[i] \in T
    BY <1>2, <1>3, <1>4
  <2>2. values \in Seq(T)
    <3>1. PICK k : k = c
      OBVIOUS
    <3>2. k \in Nat /\ 1 \in Int /\ k \in Int /\ \A i \in 1..k : m[i] \in T
      BY <1>2, <1>3, <2>1, <3>1
    <3>3. SubSeq(m, 1, k) \in Seq(T)
      BY <1>4, <3>2, SubSeqProperties
    <3> QED
      BY <1>2, <3>1, <3>3
  <2>3. SubSeq(values, 1, c) = values
    BY <2>2, SubSeqFull
  <2>4. c <= Len(m)
    BY <1>2, <1>3
  <2> QED
    BY <1>2, <2>3, <2>4 DEF IsPrefix
<1>6. ASSUME ~cut, out = <<>>, read_response(arrived).st = "blocked"
      PROVE  values = replies
  <2>1. rest = <<>> /\ arrived \o <<>> = arrived
    BY <1>2, <1>6, ConcatEmptySeq
  <2>2. CASE c < Len(A)
    <3> DEFINE a == A[c + 1]
    <3>1. \/ \E v, r : read_response(arrived) = Ok(v, r)
          \/ Len(arrived) < Len(a.bytes)
      BY <1>1, <2>2, ResponseRead
    <3>2. ASSUME NEW v, NEW r, read_response(arrived) = Ok(v, r) PROVE FALSE
      BY <1>6, <3>2, OkFields
    <3>3. Len(arrived) < Len(a.bytes)
      BY <3>1, <3>2
    <3>4. /\ Unread(A, c) = a.bytes \o Unread(A, c + 1) /\ c + 1 \in 1..Len(A)
          /\ c + 1 \in 0..Len(A) /\ Unread(A, c) \in Seq(Nat)
      BY <1>2, <2>2, UnreadIs
    <3>5. a.bytes \in Seq(Nat) /\ Unread(A, c + 1) \in Seq(Nat)
      BY <1>2, <3>4, AllFlat, UnreadIs
    <3>6. arrived = a.bytes \o Unread(A, c + 1)
      BY <1>2, <2>1, <3>4, AnswerNextIs
    <3>7. PICK x, y : x = a.bytes /\ y = Unread(A, c + 1)
      OBVIOUS
    <3>8. x \in Seq(Nat) /\ y \in Seq(Nat) /\ arrived = x \o y /\ Len(arrived) < Len(x)
      BY <3>3, <3>5, <3>6, <3>7
    <3> HIDE DEF a
    <3>9. Len(x \o y) = Len(x) + Len(y) /\ Len(x) \in Nat /\ Len(y) \in Nat
      BY <3>8, ConcatProperties
    <3>10. FALSE
      BY <3>8, <3>9
    <3> QED
      BY <3>10
  <2>3. CASE c = Len(A)
    BY <1>2, <1>3, <1>4, <2>3, SubSeqFull
  <2> QED
    BY <1>2, <1>3, <2>2, <2>3
<1> QED
  BY <1>2, <1>5, <1>6 DEF RepliesReadBack

(* read_response, on any replies of the kinds that the server's encoders   *)
(* write: the client reads their values back, in order, however the bytes  *)
(* arrive; a reply torn by the end of the connection is never taken for a  *)
(* shorter one, no read fails before a cut, and a read that waits when     *)
(* nothing is on its way has read every reply.                             *)
THEOREM ServerRepliesReadBack ==
  ASSUME FlatAnswers
  PROVE  WireSpec => []RepliesReadBack
<1>1. WireInit => ResponseInv
  BY ResponseInit
<1>2. ResponseInv /\ [WireNext]_wireVars => ResponseInv'
  BY ResponseStep
<1>3. ResponseInv => RepliesReadBack
  BY ResponseHolds
<1> QED
  BY <1>1, <1>2, <1>3, PTL DEF WireSpec

=============================================================================
