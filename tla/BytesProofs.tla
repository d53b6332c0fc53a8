------------------------------ MODULE BytesProofs ------------------------------
(***************************************************************************)
(* What reads and writes bytes reads back what was written, for frames,    *)
(* bodies, messages, names and packets of any length.                      *)
(***************************************************************************)
EXTENDS Bytes, SequenceTheorems, WellFoundedInduction, TLAPS

-----------------------------------------------------------------------------
(* Induction, by a least counterexample, and what a recursive function is. *)

\* A set of numbers has a least one.
LEMMA LeastNatural ==
  ASSUME NEW T, T \subseteq Nat, T # {}
  PROVE  \E x \in T : \A y \in T : x <= y
<1> DEFINE R == {p \in Nat \X Nat : p[1] < p[2]}
<1>1. R = OpToRel(<, Nat)
  BY DEF OpToRel
<1>2. IsWellFoundedOn(R, Nat)
  BY <1>1, NatLessThanWellFounded, Zenon
<1>3. \A x, y \in Nat : y < x => <<y, x>> \in R
  OBVIOUS
<1> HIDE DEF R
<1>4. PICK x \in T : \A y \in T : ~ (<<y, x>> \in R)
  BY <1>2, WFMin
<1>5. ASSUME NEW y \in T PROVE x <= y
  <2>1. x \in Nat /\ y \in Nat
    OBVIOUS
  <2>2. ~ (y < x)
    BY <1>3, <1>4, <2>1
  <2> QED BY <2>1, <2>2
<1> QED BY <1>5

\* What holds at m, and of each number if of the one before, holds from m to n.
LEMMA Upward ==
  ASSUME NEW m \in Nat, NEW n \in Nat, NEW H, m \in H,
         \A k \in m..n : k # m /\ k - 1 \in H => k \in H
  PROVE  m..n \subseteq H
<1> DEFINE T == {k \in m..n : k \notin H}
<1>1. SUFFICES ASSUME T # {} PROVE FALSE
  OBVIOUS
<1>2. PICK k \in T : \A j \in T : k <= j
  <2>1. T \subseteq Nat
    OBVIOUS
  <2> HIDE DEF T
  <2> QED BY <1>1, <2>1, LeastNatural
<1>3. k # m /\ k - 1 \in m..n /\ ~(k <= k - 1)
  BY <1>2
<1>4. k - 1 \in H
  BY <1>2, <1>3
<1> QED BY <1>2, <1>3, <1>4

\* f is a, and then step by step what g makes of it.
Folds(f, a, g, n) == f = [k \in 0..n |-> IF k = 0 THEN a ELSE g[<<k, f[k - 1]>>]]

LEMMA FoldThere ==
  ASSUME NEW S, NEW a \in S, NEW g, NEW n \in Nat,
         \A k \in 1..n : \A x \in S : g[<<k, x>>] \in S
  PROVE  \E f \in [0..n -> S] : Folds(f, a, g, n)
<1> DEFINE H == {k \in Nat : \E f \in [0..k -> S] : Folds(f, a, g, k)}
<1>1. 0 \in H
  <2> DEFINE f == [k \in 0..0 |-> a]
  <2>1. f \in [0..0 -> S]
    OBVIOUS
  <2>2. f = [k \in 0..0 |-> IF k = 0 THEN a ELSE g[<<k, f[k - 1]>>]]
    <3>1. \A k \in 0..0 : k = 0
      OBVIOUS
    <3> QED BY <3>1
  <2>3. Folds(f, a, g, 0)
    BY <2>2, Zenon DEF Folds
  <2> HIDE DEF f
  <2> QED BY <2>1, <2>3
<1>2. ASSUME NEW k \in 0..n, k # 0, k - 1 \in H PROVE k \in H
  <2>0. k \in 1..n
    BY <1>2
  <2>1. PICK f \in [0..(k - 1) -> S] : Folds(f, a, g, k - 1)
    BY <1>2
  <2>2. f = [j \in 0..(k - 1) |-> IF j = 0 THEN a ELSE g[<<j, f[j - 1]>>]]
    BY <2>1, Zenon DEF Folds
  <2> DEFINE h == [j \in 0..k |-> IF j = k THEN g[<<k, f[k - 1]>>] ELSE f[j]]
  <2>3. \A j \in 0..(k - 1) : h[j] = f[j]
    OBVIOUS
  <2>4. h[k] = g[<<k, f[k - 1]>>]
    OBVIOUS
  <2>5. ASSUME NEW j \in 0..k PROVE h[j] = IF j = 0 THEN a ELSE g[<<j, h[j - 1]>>]
    <3>1. CASE j = k
      <4>1. k # 0 /\ k - 1 \in 0..(k - 1)
        BY <2>0
      <4>2. h[k - 1] = f[k - 1]
        BY <2>3, <4>1
      <4> QED BY <2>4, <3>1, <4>1, <4>2, Zenon
    <3>2. CASE j # k
      <4>1. j \in 0..(k - 1) /\ (j # 0 => j - 1 \in 0..(k - 1))
        BY <3>2
      <4>2. f[j] = IF j = 0 THEN a ELSE g[<<j, f[j - 1]>>]
        BY <2>2, <4>1, Zenon
      <4> QED BY <2>3, <4>1, <4>2
    <3> QED BY <3>1, <3>2
  <2>6. h \in [0..k -> S]
    BY <2>0, <2>1
  <2>7. h = [j \in 0..k |-> h[j]]
    OBVIOUS
  <2> HIDE DEF h
  <2>8. h = [j \in 0..k |-> IF j = 0 THEN a ELSE g[<<j, h[j - 1]>>]]
    BY <2>5, <2>7
  <2>9. Folds(h, a, g, k)
    BY <2>8, Zenon DEF Folds
  <2> QED BY <2>6, <2>9
<1> HIDE DEF H
<1>3. 0..n \subseteq H
  BY <1>1, <1>2, Upward
<1>4. n \in H
  BY <1>3
<1> QED BY <1>4 DEF H

-----------------------------------------------------------------------------
(* Sequences, one after the other.                                         *)

LEMMA ASequence ==
  ASSUME NEW S, NEW n \in Nat, NEW f \in [1..n -> S]
  PROVE  f \in Seq(S) /\ Len(f) = n
OBVIOUS

LEMMA OfOne ==
  ASSUME NEW S, NEW x \in S
  PROVE  <<x>> \in Seq(S) /\ Len(<<x>>) = 1 /\ <<x>>[1] = x
OBVIOUS

LEMMA OneMore ==
  ASSUME NEW S, NEW s \in Seq(S), NEW e \in S
  PROVE  s \o <<>> = s /\ s \o <<e>> = Append(s, e)
OBVIOUS

LEMMA PartIs ==
  ASSUME NEW S, NEW s \in Seq(S), NEW m \in Nat, NEW n \in Nat, 1 <= m, m <= n + 1, n <= Len(s)
  PROVE  /\ SubSeq(s, m, n) \in Seq(S) /\ Len(SubSeq(s, m, n)) = n - m + 1
         /\ \A j \in 1..(n - m + 1) : SubSeq(s, m, n)[j] = s[m + j - 1]
OBVIOUS

\* The first k of ss, one after the other.
Joins(f, ss) == f = [k \in 0..Len(ss) |-> IF k = 0 THEN <<>> ELSE f[k - 1] \o ss[k]]
Joined(ss) == CHOOSE f : Joins(f, ss)

LEMMA JoinedIs ==
  ASSUME NEW S, NEW ss \in Seq(Seq(S))
  PROVE  /\ Joined(ss) \in [0..Len(ss) -> Seq(S)]
         /\ Joined(ss)[0] = <<>>
         /\ \A k \in 1..Len(ss) : Joined(ss)[k] = Joined(ss)[k - 1] \o ss[k]
<1> DEFINE n == Len(ss)
           g == [p \in (1..n) \X Seq(S) |-> p[2] \o ss[p[1]]]
<1>0. n \in Nat /\ \A k \in 1..n : ss[k] \in Seq(S)
  OBVIOUS
<1>1. \A k \in 1..n : \A x \in Seq(S) : g[<<k, x>>] = x \o ss[k]
  OBVIOUS
<1>2. \A k \in 1..n : \A x \in Seq(S) : g[<<k, x>>] \in Seq(S)
  BY <1>0, <1>1, ConcatProperties
<1>3. <<>> \in Seq(S)
  OBVIOUS
<1> HIDE DEF n, g
<1>4. PICK f \in [0..n -> Seq(S)] : Folds(f, <<>>, g, n)
  BY <1>0, <1>2, <1>3, FoldThere
<1>5. f = [k \in 0..n |-> IF k = 0 THEN <<>> ELSE g[<<k, f[k - 1]>>]]
  BY <1>4, Zenon DEF Folds
<1>6. ASSUME NEW k \in 0..n PROVE f[k] = IF k = 0 THEN <<>> ELSE f[k - 1] \o ss[k]
  <2>1. f[k] = IF k = 0 THEN <<>> ELSE g[<<k, f[k - 1]>>]
    BY <1>5, Zenon
  <2>2. CASE k # 0
    <3>1. k \in 1..n /\ k - 1 \in 0..n
      BY <1>0, <2>2
    <3>2. f[k - 1] \in Seq(S)
      BY <1>4, <3>1
    <3> QED BY <1>1, <2>1, <2>2, <3>1, <3>2
  <2> QED BY <2>1, <2>2
<1>7. f = [k \in 0..n |-> IF k = 0 THEN <<>> ELSE f[k - 1] \o ss[k]]
  BY <1>4, <1>6
<1>8. Joins(f, ss)
  BY <1>7, Zenon DEF Joins, n
<1>9. PICK h : h = Joined(ss)
  OBVIOUS
<1>10. Joins(h, ss)
  BY <1>8, <1>9, Zenon DEF Joined
<1>11. h = [k \in 0..n |-> IF k = 0 THEN <<>> ELSE h[k - 1] \o ss[k]]
  BY <1>10, Zenon DEF Joins, n
<1>12. ASSUME NEW k \in 0..n PROVE h[k] = IF k = 0 THEN <<>> ELSE h[k - 1] \o ss[k]
  BY <1>11, Zenon
<1>13. \A k \in 0..n : f[k] = h[k]
  <2>1. 0 \in 0..n
    BY <1>0
  <2>2. f[0] = h[0]
    BY <1>6, <1>12, <2>1
  <2>3. ASSUME NEW k \in 0..n, k # 0, f[k - 1] = h[k - 1] PROVE f[k] = h[k]
    BY <1>6, <1>12, <2>3, Zenon
  <2> DEFINE H == {k \in Nat : f[k] = h[k]}
  <2>4. 0 \in H /\ \A k \in 0..n : k # 0 /\ k - 1 \in H => k \in H
    BY <2>2, <2>3
  <2>5. n \in Nat /\ 0 \in Nat
    BY <1>0
  <2> HIDE DEF H
  <2>6. 0..n \subseteq H
    BY <2>4, <2>5, Upward
  <2> QED BY <2>6 DEF H
<1>14. DOMAIN h = 0..n
  BY <1>11, Zenon
<1>15. h = [k \in 0..n |-> h[k]]
  BY <1>11, <1>14
<1>16. h \in [0..n -> Seq(S)]
  BY <1>4, <1>13, <1>15
<1>17. 0 \in 0..n /\ \A k \in 1..n : k \in 0..n /\ k # 0
  BY <1>0
<1>18. h[0] = <<>> /\ \A k \in 1..n : h[k] = h[k - 1] \o ss[k]
  BY <1>12, <1>17, Zenon
<1> QED BY <1>9, <1>16, <1>18, Zenon DEF n

\* FlattenSeq does the same, but begins with the first.
Flattens(f, ss) == f = [i \in 1..Len(ss) |-> IF i = 1 THEN ss[i] ELSE f[i - 1] \o ss[i]]

LEMMA FlattenIs ==
  ASSUME NEW S, NEW ss \in Seq(Seq(S))
  PROVE  FlattenSeq(ss) = Joined(ss)[Len(ss)]
<1> DEFINE n == Len(ss)  J == Joined(ss)
<1>0. n \in Nat /\ \A k \in 1..n : ss[k] \in Seq(S)
  OBVIOUS
<1>1. /\ J \in [0..n -> Seq(S)] /\ J[0] = <<>>
      /\ \A k \in 1..n : J[k] = J[k - 1] \o ss[k]
  BY JoinedIs
<1> HIDE DEF n, J
<1>2. CASE n = 0
  <2>1. ss = <<>> /\ Len(ss) = 0
    BY <1>2 DEF n
  <2>2. FlattenSeq(ss) = ss
    BY <2>1, Zenon DEF FlattenSeq
  <2> QED BY <1>1, <1>2, <2>1, <2>2 DEF n, J
<1>3. CASE n # 0
  <2>1. FlattenSeq(ss) = (CHOOSE f : Flattens(f, ss))[n]
    BY <1>3, Zenon DEF FlattenSeq, Flattens, n
  <2> DEFINE I == [i \in 1..n |-> J[i]]
  <2>2. ASSUME NEW i \in 1..n PROVE I[i] = IF i = 1 THEN ss[i] ELSE I[i - 1] \o ss[i]
    <3>1. I[i] = J[i - 1] \o ss[i]
      BY <1>1
    <3>2. CASE i = 1
      <4>1. i - 1 = 0
        BY <3>2
      <4>2. I[i] = <<>> \o ss[i]
        BY <1>1, <3>1, <4>1, Zenon
      <4>3. ss[i] \in Seq(S)
        BY <1>0
      <4>4. <<>> \o ss[i] = ss[i]
        BY <4>3, ConcatEmptySeq
      <4> QED BY <3>2, <4>2, <4>4
    <3>3. CASE i # 1
      <4>1. i - 1 \in 1..n
        BY <1>0, <3>3
      <4> QED BY <3>1, <3>3, <4>1
    <3> QED BY <3>2, <3>3
  <2>3. I = [i \in 1..n |-> I[i]]
    OBVIOUS
  <2> HIDE DEF I
  <2>4. I = [i \in 1..n |-> IF i = 1 THEN ss[i] ELSE I[i - 1] \o ss[i]]
    BY <2>2, <2>3
  <2>5. Flattens(I, ss)
    BY <2>4, Zenon DEF Flattens, n
  <2>6. PICK f : f = CHOOSE h : Flattens(h, ss)
    OBVIOUS
  <2>7. Flattens(f, ss)
    BY <2>5, <2>6, Zenon
  <2>8. f = [i \in 1..n |-> IF i = 1 THEN ss[i] ELSE f[i - 1] \o ss[i]]
    BY <2>7, Zenon DEF Flattens, n
  <2>9. ASSUME NEW i \in 1..n PROVE f[i] = IF i = 1 THEN ss[i] ELSE f[i - 1] \o ss[i]
    BY <2>8, Zenon
  <2> DEFINE H == {i \in Nat : f[i] = I[i]}
  <2>10. 1 \in H
    <3>1. 1 \in 1..n
      BY <1>0, <1>3
    <3> QED BY <2>2, <2>9, <3>1
  <2>11. ASSUME NEW i \in 1..n, i # 1, i - 1 \in H PROVE i \in H
    BY <2>2, <2>9, <2>11
  <2> HIDE DEF H
  <2>12. 1..n \subseteq H
    BY <1>0, <2>10, <2>11, Upward
  <2>13. n \in 1..n
    BY <1>0, <1>3
  <2>14. f[n] = I[n] /\ I[n] = J[n]
    BY <2>12, <2>13 DEF H, I
  <2> QED BY <2>1, <2>6, <2>14 DEF n, J
<1> QED BY <1>2, <1>3

LEMMA FlattenType ==
  ASSUME NEW S, NEW ss \in Seq(Seq(S))
  PROVE  FlattenSeq(ss) \in Seq(S)
<1>1. Len(ss) \in 0..Len(ss)
  OBVIOUS
<1>2. PICK J \in [0..Len(ss) -> Seq(S)] : J = Joined(ss)
  BY JoinedIs
<1>3. J[Len(ss)] \in Seq(S)
  BY <1>1
<1> QED BY <1>2, <1>3, FlattenIs

\* What is joined of a part is what is joined of the whole.
LEMMA JoinedAlike ==
  ASSUME NEW S, NEW ss \in Seq(Seq(S)), NEW tt \in Seq(Seq(S)), NEW n \in 0..Len(ss),
         n <= Len(tt), \A i \in 1..n : ss[i] = tt[i]
  PROVE  Joined(ss)[n] = Joined(tt)[n]
<1> DEFINE J == Joined(ss)  K == Joined(tt)
           H == {k \in Nat : J[k] = K[k]}
<1>0. n \in Nat /\ 0 \in Nat /\ Len(ss) \in Nat /\ Len(tt) \in Nat
  OBVIOUS
<1>1. J[0] = <<>> /\ \A k \in 1..Len(ss) : J[k] = J[k - 1] \o ss[k]
  BY JoinedIs
<1>2. K[0] = <<>> /\ \A k \in 1..Len(tt) : K[k] = K[k - 1] \o tt[k]
  BY JoinedIs
<1> HIDE DEF J, K
<1>3. 0 \in H
  BY <1>1, <1>2
<1>4. ASSUME NEW k \in 0..n, k # 0, k - 1 \in H PROVE k \in H
  <2>1. k \in Nat /\ k \in 1..Len(ss) /\ k \in 1..Len(tt) /\ k \in 1..n
    BY <1>0, <1>4
  <2>2. J[k - 1] = K[k - 1] /\ ss[k] = tt[k]
    BY <1>4, <2>1
  <2>3. J[k] = K[k]
    BY <1>1, <1>2, <2>1, <2>2, Zenon
  <2> QED BY <2>1, <2>3
<1> HIDE DEF H
<1>5. 0..n \subseteq H
  BY <1>0, <1>3, <1>4, Upward
<1>6. n \in H
  BY <1>0, <1>5
<1> QED BY <1>6 DEF H, J, K

\* One more.
LEMMA FlattenAppend ==
  ASSUME NEW S, NEW ss \in Seq(Seq(S)), NEW s \in Seq(S)
  PROVE  FlattenSeq(Append(ss, s)) = FlattenSeq(ss) \o s
<1> DEFINE tt == Append(ss, s)
<1>1. /\ tt \in Seq(Seq(S)) /\ Len(tt) = Len(ss) + 1
      /\ \A i \in 1..Len(ss) : tt[i] = ss[i]
      /\ tt[Len(ss) + 1] = s
  BY AppendProperties
<1> HIDE DEF tt
<1>2. Len(ss) \in Nat /\ Len(ss) \in 0..Len(ss)
  OBVIOUS
<1>3. Joined(tt)[Len(ss)] = Joined(ss)[Len(ss)]
  <2>1. Len(ss) <= Len(tt) /\ \A i \in 1..Len(ss) : ss[i] = tt[i]
    BY <1>1, <1>2
  <2> QED BY <1>1, <1>2, <2>1, JoinedAlike
<1>4. Joined(tt)[Len(ss) + 1] = Joined(tt)[Len(ss)] \o s
  <2>1. Len(ss) + 1 \in 1..Len(tt) /\ (Len(ss) + 1) - 1 = Len(ss)
    BY <1>1, <1>2
  <2> QED BY <1>1, <2>1, JoinedIs
<1>5. FlattenSeq(tt) = Joined(tt)[Len(tt)]
  BY <1>1, FlattenIs
<1> QED BY <1>1, <1>3, <1>4, <1>5, FlattenIs DEF tt

\* A part comes first, and is not longer.
LEMMA JoinedGrows ==
  ASSUME NEW S, NEW ss \in Seq(Seq(S)), NEW i \in 0..Len(ss), NEW j \in i..Len(ss)
  PROVE  \E t \in Seq(S) : Joined(ss)[j] = Joined(ss)[i] \o t
<1> DEFINE J == Joined(ss)
           H == {k \in Nat : \E t \in Seq(S) : J[k] = J[i] \o t}
<1>0. i \in Nat /\ j \in Nat /\ Len(ss) \in Nat /\ i <= j /\ j <= Len(ss) /\ i \in i..j /\ j \in i..j
  OBVIOUS
<1>1. J \in [0..Len(ss) -> Seq(S)] /\ \A k \in 1..Len(ss) : J[k] = J[k - 1] \o ss[k]
  BY JoinedIs
<1> HIDE DEF J
<1>2. PICK a \in Seq(S) : a = J[i]
  BY <1>1
<1>3. i \in H
  <2>1. a \o <<>> = a /\ <<>> \in Seq(S)
    BY ConcatEmptySeq
  <2> QED BY <1>0, <1>2, <2>1
<1>4. ASSUME NEW k \in i..j, k # i, k - 1 \in H PROVE k \in H
  <2>1. PICK t \in Seq(S) : J[k - 1] = a \o t
    BY <1>2, <1>4
  <2>2. k \in Nat /\ k \in 1..Len(ss)
    BY <1>0, <1>4
  <2>3. PICK b \in Seq(S) : b = ss[k]
    BY <2>2
  <2>4. J[k] = (a \o t) \o b
    BY <1>1, <2>1, <2>2, <2>3, Zenon
  <2>5. t \o b \in Seq(S)
    BY ConcatProperties
  <2>6. (a \o t) \o b = a \o (t \o b)
    BY ConcatAssociative
  <2> QED BY <1>2, <2>2, <2>4, <2>5, <2>6
<1> HIDE DEF H
<1>5. i..j \subseteq H
  BY <1>0, <1>3, <1>4, Upward
<1>6. j \in H
  BY <1>0, <1>5
<1> QED BY <1>6 DEF H, J

\* A sequence comes first in what it is followed by, and only then.
LEMMA PrefixIs ==
  ASSUME NEW S, NEW s \in Seq(S), NEW t \in Seq(S)
  PROVE  IsPrefix(s, t) <=> \E u \in Seq(S) : t = s \o u
<1>1. ASSUME IsPrefix(s, t) PROVE \E u \in Seq(S) : t = s \o u
  <2>1. Len(s) \in Nat /\ Len(t) \in Nat /\ Len(s) <= Len(t) /\ SubSeq(s, 1, Len(s)) = SubSeq(t, 1, Len(s))
    BY <1>1 DEF IsPrefix
  <2>2. SubSeq(s, 1, Len(s)) = s /\ SubSeq(t, 1, Len(t)) = t
    BY SubSeqFull
  <2>3. SubSeq(t, 1, Len(s)) \o SubSeq(t, Len(s) + 1, Len(t)) = SubSeq(t, 1, Len(t))
    <3>1. 1 \in 1..(Len(t) + 1) /\ Len(s) \in (1 - 1)..Len(t) /\ Len(t) \in Len(s)..Len(t)
      BY <2>1
    <3> QED BY <3>1, ConcatAdjacentSubSeq
  <2>4. SubSeq(t, Len(s) + 1, Len(t)) \in Seq(S)
    BY <2>1
  <2> QED BY <2>1, <2>2, <2>3, <2>4
<1>2. ASSUME NEW u \in Seq(S), t = s \o u PROVE IsPrefix(s, t)
  <2>1. Len(s) \in Nat /\ Len(u) \in Nat /\ Len(t) = Len(s) + Len(u)
    BY <1>2, ConcatProperties
  <2>2. CASE Len(s) = 0
    <3>1. SubSeq(s, 1, Len(s)) = <<>> /\ SubSeq(t, 1, Len(s)) = <<>>
      BY <2>2, SubSeqEmpty
    <3> QED BY <2>1, <2>2, <3>1 DEF IsPrefix
  <2>3. CASE Len(s) # 0
    <3>1. 1 \in 1..Len(s) /\ Len(s) \in 1..Len(s)
      BY <2>1, <2>3
    <3>2. SubSeq(t, 1, Len(s)) = SubSeq(s, 1, Len(s))
      BY <1>2, <3>1, SubSeqOfConcat1
    <3> QED BY <2>1, <3>2 DEF IsPrefix
  <2> QED BY <2>2, <2>3
<1> QED BY <1>1, <1>2

Leads(S, s, t) == \E u \in Seq(S) : t = s \o u

LEMMA PrefixLeads ==
  ASSUME NEW S, NEW s \in Seq(S), NEW t \in Seq(S), IsPrefix(s, t)
  PROVE  Leads(S, s, t)
BY PrefixIs DEF Leads

-----------------------------------------------------------------------------
(* Finding the daemon: what has been parsed is of records that went before. *)

Past(type) == {i \in 1..(next - 1) : packet[i].type = type}

Shaped ==
  parsed = [instance |-> parsed.instance, port |-> parsed.port, target |-> parsed.target,
            ip |-> parsed.ip, aname |-> parsed.aname]

\* The port and the target are those of a service of ours, the one pointed to if one is.
ServiceIs ==
  \/ parsed.port = 0 /\ parsed.target = Discovery!NoName
  \/ \E i \in Past("srv") :
       /\ packet[i].name = parsed.instance /\ parsed.instance \in Instances
       /\ packet[i].port = parsed.port /\ packet[i].data = parsed.target

AddressIs ==
  /\ parsed.ip # 0 => \E j \in Past("a") : packet[j].data = parsed.ip /\ packet[j].name = parsed.aname
  /\ \A j \in Past("a") : packet[j].data # 0 => parsed.ip # 0

\* Of answers about one daemon nothing else has been taken.
OneDaemon ==
  \A d \in Instances : Discovery!Answers(d) =>
    /\ parsed.instance \in {Discovery!NoName, d}
    /\ \A i \in Past("srv") : packet[i].name = d => parsed.port # 0

FoundIs ==
  /\ found # Discovery!Nothing => found.port # 0 /\ found.ip # 0
  /\ (found # Discovery!Nothing /\ packet # <<>>) =>
       /\ next > Len(packet) /\ Discovery!Complete
       /\ found = [port |-> parsed.port, ip |-> parsed.ip, name |-> parsed.instance]

DiscoveryInv ==
  /\ asked \in 0..MaxQueries
  /\ packet \in Answered \union {<<>>} /\ next \in 1..(Len(packet) + 1)
  /\ Shaped /\ ServiceIs /\ AddressIs /\ OneDaemon /\ FoundIs

LEMMA PacketIs ==
  ASSUME Discovery!Parameters, NEW p \in Answered \union {<<>>}
  PROVE  Len(p) \in Nat /\ DOMAIN p = 1..Len(p)
<1>1. CASE p \in Answered
  <2>1. PICK S : p \in Seq(S)
    BY <1>1 DEF Discovery!Parameters
  <2> QED BY <2>1
<1>2. CASE p = <<>>
  BY <1>2
<1> QED BY <1>1, <1>2

\* Nothing parsed yet, of whatever packet.
LEMMA BlankIs ==
  ASSUME parsed = Discovery!Blank, next = 1
  PROVE  Shaped /\ ServiceIs /\ AddressIs /\ OneDaemon
<1>1. Past("srv") = {} /\ Past("a") = {}
  BY DEF Past
<1> QED BY <1>1 DEF Shaped, ServiceIs, AddressIs, OneDaemon, Discovery!Blank

LEMMA DiscoveryBegins ==
  ASSUME Discovery!Parameters, Discovery!Init
  PROVE  DiscoveryInv
<1>1. Shaped /\ ServiceIs /\ AddressIs /\ OneDaemon
  BY BlankIs DEF Discovery!Init
<1>2. FoundIs
  BY DEF FoundIs, Discovery!Init
<1>3. asked \in 0..MaxQueries /\ packet = <<>> /\ next = 1 /\ Len(packet) = 0
  BY DEF Discovery!Init, Discovery!Parameters
<1> QED BY <1>1, <1>2, <1>3 DEF DiscoveryInv

LEMMA RecordParsed ==
  ASSUME Discovery!Parameters, DiscoveryInv, Discovery!Record
  PROVE  DiscoveryInv'
<1> DEFINE rec == packet[next]
<1>0. /\ Len(packet) \in Nat /\ DOMAIN packet = 1..Len(packet) /\ next \in 1..Len(packet)
      /\ next <= Len(packet)
  BY PacketIs DEF DiscoveryInv, Discovery!Record
<1>1. CASE rec.type = "cut"
  <2>1. packet' = <<>> /\ next' = 1 /\ parsed' = Discovery!Blank /\ found' = found /\ asked' = asked
    BY <1>1 DEF Discovery!Record, Discovery!Drops
  <2>2. Shaped' /\ ServiceIs' /\ AddressIs' /\ OneDaemon'
    <3>1. Past("srv")' = {} /\ Past("a")' = {}
      BY <2>1 DEF Past
    <3>2. (parsed = Discovery!Blank)' /\ (next = 1)'
      BY <2>1 DEF Discovery!Blank
    <3> QED BY <3>1, <3>2 DEF Shaped, ServiceIs, AddressIs, OneDaemon, Discovery!Blank
  <2>3. FoundIs'
    BY <2>1 DEF FoundIs, DiscoveryInv
  <2>4. Len(packet') = 0
    BY <2>1
  <2> QED BY <2>1, <2>2, <2>3, <2>4 DEF DiscoveryInv
<1>2. CASE rec.type # "cut"
  <2>1. /\ packet' = packet /\ next' = next + 1 /\ found' = found /\ asked' = asked
        /\ parsed' = CASE rec.type = "ptr" -> Discovery!Pointed(rec)
                       [] rec.type = "srv" -> Discovery!Served(rec)
                       [] rec.type = "a" -> Discovery!Addressed(rec)
                       [] OTHER -> parsed
    BY <1>2 DEF Discovery!Record
  <2>2. found = Discovery!Nothing \/ packet = <<>>
    BY <1>0 DEF DiscoveryInv, FoundIs
  <2>3. packet # <<>>
    BY <1>0
  <2>4. FoundIs'
    BY <2>1, <2>2, <2>3 DEF FoundIs, DiscoveryInv
  <2>5. next' \in 1..(Len(packet') + 1)
    BY <1>0, <2>1
  <2>6. ASSUME NEW type
        PROVE  Past(type)' = IF rec.type = type THEN Past(type) \union {next} ELSE Past(type)
    BY <1>0, <2>1 DEF Past
  <2>7. \A d : Discovery!Answers(d)' = Discovery!Answers(d)
    BY <2>1 DEF Discovery!Answers, Discovery!Of
  <2>8. next \in DOMAIN packet
    BY <1>0
  <2>a. Shaped /\ ServiceIs /\ AddressIs /\ OneDaemon
    BY DEF DiscoveryInv
  <2>9. CASE rec.type = "ptr"
    <3>1. Past("srv")' = Past("srv") /\ Past("a")' = Past("a")
      BY <2>6, <2>9
    <3>2. parsed' = Discovery!Pointed(rec)
      BY <2>1, <2>9
    <3>3. CASE rec.name = Discovery!Service /\ parsed.instance = Discovery!NoName
      <4>1. parsed' = [instance |-> rec.data, port |-> parsed.port, target |-> parsed.target,
                       ip |-> parsed.ip, aname |-> parsed.aname]
        BY <2>a, <3>2, <3>3 DEF Shaped, Discovery!Pointed
      <4>2. parsed.port = 0 /\ parsed.target = Discovery!NoName
        BY <2>a, <3>3 DEF ServiceIs, Discovery!Parameters
      <4>3. Shaped' /\ ServiceIs' /\ AddressIs'
        BY <2>1, <2>a, <3>1, <4>1, <4>2 DEF Shaped, ServiceIs, AddressIs
      <4>4. ASSUME NEW d \in Instances, Discovery!Answers(d) PROVE rec.data = d
        BY <2>8, <2>9, <3>3, <4>4 DEF Discovery!Answers, Discovery!Of
      <4>5. OneDaemon'
        BY <2>1, <2>7, <2>a, <3>1, <4>1, <4>4 DEF OneDaemon
      <4> QED BY <2>1, <2>4, <2>5, <4>3, <4>5 DEF DiscoveryInv
    <3>4. CASE ~(rec.name = Discovery!Service /\ parsed.instance = Discovery!NoName)
      <4>1. parsed' = parsed
        BY <3>2, <3>4 DEF Discovery!Pointed
      <4>2. Shaped' /\ ServiceIs' /\ AddressIs'
        BY <2>1, <2>a, <3>1, <4>1 DEF Shaped, ServiceIs, AddressIs
      <4>3. OneDaemon'
        BY <2>1, <2>7, <2>a, <3>1, <4>1 DEF OneDaemon
      <4> QED BY <2>1, <2>4, <2>5, <4>2, <4>3 DEF DiscoveryInv
    <3> QED BY <3>3, <3>4
  <2>10. CASE rec.type = "srv"
    <3>1. Past("srv")' = Past("srv") \union {next} /\ Past("a")' = Past("a")
      BY <2>6, <2>10
    <3>2. parsed' = Discovery!Served(rec)
      BY <2>1, <2>10
    <3>3. CASE rec.name \notin Instances
               \/ (parsed.instance # Discovery!NoName /\ rec.name # parsed.instance)
      <4>1. parsed' = parsed
        BY <3>2, <3>3 DEF Discovery!Served
      <4>2. Shaped' /\ ServiceIs' /\ AddressIs'
        BY <2>1, <2>a, <3>1, <4>1 DEF Shaped, ServiceIs, AddressIs
      <4>3. ASSUME NEW d \in Instances, Discovery!Answers(d) PROVE rec.name # d
        BY <2>a, <3>3, <4>3 DEF OneDaemon
      <4>4. OneDaemon'
        BY <2>1, <2>7, <2>a, <3>1, <4>1, <4>3 DEF OneDaemon
      <4> QED BY <2>1, <2>4, <2>5, <4>2, <4>4 DEF DiscoveryInv
    <3>4. CASE rec.name \in Instances
               /\ (parsed.instance = Discovery!NoName \/ rec.name = parsed.instance)
      <4>1. parsed' = [instance |-> rec.name, port |-> rec.port, target |-> rec.data,
                       ip |-> parsed.ip, aname |-> parsed.aname]
        BY <2>a, <3>2, <3>4 DEF Shaped, Discovery!Served
      <4>2. Shaped' /\ AddressIs'
        BY <2>1, <2>a, <3>1, <4>1 DEF Shaped, AddressIs
      <4>3. ServiceIs'
        BY <2>1, <3>1, <3>4, <4>1 DEF ServiceIs
      <4>4. ASSUME NEW d \in Instances, Discovery!Answers(d) PROVE rec.name = d /\ rec.port # 0
        BY <2>8, <2>10, <3>4, <4>4 DEF Discovery!Answers, Discovery!Of
      <4>5. OneDaemon'
        BY <2>1, <2>7, <4>1, <4>4 DEF OneDaemon
      <4> QED BY <2>1, <2>4, <2>5, <4>2, <4>3, <4>5 DEF DiscoveryInv
    <3> QED BY <3>3, <3>4
  <2>11. CASE rec.type = "a"
    <3>1. Past("srv")' = Past("srv") /\ Past("a")' = Past("a") \union {next}
      BY <2>6, <2>11
    <3>2. parsed' = Discovery!Addressed(rec)
      BY <2>1, <2>11
    <3>3. CASE parsed.ip = 0
      <4>1. parsed' = [instance |-> parsed.instance, port |-> parsed.port,
                       target |-> parsed.target, ip |-> rec.data, aname |-> rec.name]
        BY <2>a, <3>2, <3>3 DEF Shaped, Discovery!Addressed
      <4>2. Shaped' /\ ServiceIs'
        BY <2>1, <2>a, <3>1, <4>1 DEF Shaped, ServiceIs
      <4>3. \A j \in Past("a") : packet[j].data = 0
        BY <2>a, <3>3 DEF AddressIs
      <4>4. AddressIs'
        BY <2>1, <3>1, <4>1, <4>3 DEF AddressIs
      <4>5. OneDaemon'
        BY <2>1, <2>7, <2>a, <3>1, <4>1 DEF OneDaemon
      <4> QED BY <2>1, <2>4, <2>5, <4>2, <4>4, <4>5 DEF DiscoveryInv
    <3>4. CASE parsed.ip # 0
      <4>1. parsed' = parsed
        BY <3>2, <3>4 DEF Discovery!Addressed
      <4>2. Shaped' /\ ServiceIs' /\ AddressIs'
        BY <2>1, <2>a, <3>1, <3>4, <4>1 DEF Shaped, ServiceIs, AddressIs
      <4>3. OneDaemon'
        BY <2>1, <2>7, <2>a, <3>1, <4>1 DEF OneDaemon
      <4> QED BY <2>1, <2>4, <2>5, <4>2, <4>3 DEF DiscoveryInv
    <3> QED BY <3>3, <3>4
  <2>12. CASE rec.type \notin {"ptr", "srv", "a"}
    <3>1. Past("srv")' = Past("srv") /\ Past("a")' = Past("a") /\ parsed' = parsed
      BY <2>1, <2>6, <2>12
    <3>2. Shaped' /\ ServiceIs' /\ AddressIs'
      BY <2>1, <2>a, <3>1 DEF Shaped, ServiceIs, AddressIs
    <3>3. OneDaemon'
      BY <2>1, <2>7, <2>a, <3>1 DEF OneDaemon
    <3> QED BY <2>1, <2>4, <2>5, <3>2, <3>3 DEF DiscoveryInv
  <2> QED BY <2>9, <2>10, <2>11, <2>12
<1> QED BY <1>1, <1>2

LEMMA DiscoveryNext ==
  ASSUME Discovery!Parameters, DiscoveryInv, [Discovery!Next]_(Discovery!vars)
  PROVE  DiscoveryInv'
<1>0. Len(packet) \in Nat
  BY PacketIs DEF DiscoveryInv
<1>a. ASSUME packet' = packet, next' = next, parsed' = parsed
      PROVE  (Shaped /\ ServiceIs /\ AddressIs /\ OneDaemon)'
  <2>1. \A type : Past(type)' = Past(type)
    BY <1>a DEF Past
  <2>2. \A d : Discovery!Answers(d)' = Discovery!Answers(d)
    BY <1>a DEF Discovery!Answers, Discovery!Of
  <2>3. (Shaped /\ ServiceIs /\ AddressIs)'
    BY <1>a, <2>1 DEF DiscoveryInv, Shaped, ServiceIs, AddressIs
  <2>4. OneDaemon'
    BY <1>a, <2>1, <2>2 DEF DiscoveryInv, OneDaemon
  <2> QED BY <2>3, <2>4
<1>b. ASSUME packet' \in Answered \union {<<>>}, next' = 1, parsed' = Discovery!Blank
      PROVE  /\ (Shaped /\ ServiceIs /\ AddressIs /\ OneDaemon)'
             /\ next' \in 1..(Len(packet') + 1)
  <2>1. Past("srv")' = {} /\ Past("a")' = {}
    BY <1>b DEF Past
  <2>2. Len(packet') \in Nat
    BY <1>b, PacketIs
  <2> QED BY <1>b, <2>1, <2>2 DEF Shaped, ServiceIs, AddressIs, OneDaemon, Discovery!Blank
<1>1. CASE Discovery!Start
  <2>1. /\ asked' = 1 /\ found' = Discovery!Nothing
        /\ packet' = packet /\ next' = next /\ parsed' = parsed
    BY <1>1 DEF Discovery!Start
  <2>2. asked' \in 0..MaxQueries
    BY <2>1 DEF Discovery!Parameters
  <2>3. FoundIs'
    BY <2>1 DEF FoundIs
  <2> QED BY <1>a, <2>1, <2>2, <2>3 DEF DiscoveryInv
<1>2. CASE Discovery!AskAgain
  <2>1. /\ asked' \in 0..MaxQueries /\ found' = found
        /\ packet' = packet /\ next' = next /\ parsed' = parsed
    BY <1>2 DEF Discovery!AskAgain, Discovery!Parameters
  <2>2. FoundIs'
    BY <1>2, <2>1 DEF FoundIs, Discovery!AskAgain
  <2> QED BY <1>a, <2>1, <2>2 DEF DiscoveryInv
<1>3. CASE Discovery!Receive
  <2>1. /\ asked' = asked /\ found' = found /\ found = Discovery!Nothing
        /\ packet' \in Answered /\ next' = 1 /\ parsed' = Discovery!Blank
    BY <1>3 DEF Discovery!Receive
  <2>2. FoundIs'
    BY <2>1 DEF FoundIs
  <2> QED BY <1>b, <2>1, <2>2 DEF DiscoveryInv
<1>4. CASE Discovery!Record
  BY <1>4, RecordParsed
<1>5. CASE Discovery!Conclude
  <2>1. CASE Discovery!Complete
    <3>1. /\ found' = [port |-> parsed.port, ip |-> parsed.ip, name |-> parsed.instance]
          /\ packet' = packet /\ next' = next /\ parsed' = parsed /\ asked' = asked
          /\ next > Len(packet)
      BY <1>5, <2>1 DEF Discovery!Conclude
    <3>2. FoundIs'
      BY <2>1, <3>1 DEF FoundIs, Discovery!Complete
    <3> QED BY <1>a, <3>1, <3>2 DEF DiscoveryInv
  <2>2. CASE ~Discovery!Complete
    <3>1. /\ found' = found /\ asked' = asked
          /\ packet' = <<>> /\ next' = 1 /\ parsed' = Discovery!Blank
      BY <1>5, <2>2 DEF Discovery!Conclude, Discovery!Drops
    <3>2. FoundIs'
      BY <3>1 DEF FoundIs, DiscoveryInv
    <3> QED BY <1>b, <3>1, <3>2 DEF DiscoveryInv
  <2> QED BY <2>1, <2>2
<1>6. CASE Discovery!Stop
  <2>1. /\ asked' = 0 /\ found' = found
        /\ packet' = <<>> /\ next' = 1 /\ parsed' = Discovery!Blank
    BY <1>6 DEF Discovery!Stop
  <2>2. FoundIs' /\ asked' \in 0..MaxQueries
    BY <2>1 DEF FoundIs, DiscoveryInv, Discovery!Parameters
  <2> QED BY <1>b, <2>1, <2>2 DEF DiscoveryInv
<1>7. CASE UNCHANGED Discovery!vars
  <2>1. /\ asked' = asked /\ found' = found
        /\ packet' = packet /\ next' = next /\ parsed' = parsed
    BY <1>7 DEF Discovery!vars
  <2>2. FoundIs'
    BY <2>1 DEF FoundIs, DiscoveryInv, Discovery!Complete
  <2> QED BY <1>a, <2>1, <2>2 DEF DiscoveryInv
<1> QED BY <1>1, <1>2, <1>3, <1>4, <1>5, <1>6, <1>7 DEF Discovery!Next

\* The device goes to a daemon of ours, at its own port and at an address of its host,
\* and understands an answer about one daemon in any order (nev_mdns_parse).
LEMMA DiscoveryShows ==
  ASSUME Discovery!Parameters, DiscoveryInv
  PROVE  Discovery!TypeOK /\ Discovery!DaemonIsFound
<1>0. /\ Len(packet) \in Nat /\ DOMAIN packet = 1..Len(packet) /\ next \in 1..(Len(packet) + 1)
  BY PacketIs DEF DiscoveryInv
<1>1. Discovery!TypeOK
  BY DEF Discovery!TypeOK, DiscoveryInv, FoundIs
<1>2. ASSUME NEW type PROVE Past(type) \subseteq Discovery!Of(type)
  BY <1>0 DEF Past, Discovery!Of
<1>3. Discovery!GoesToADaemon
  <2> SUFFICES ASSUME found # Discovery!Nothing, packet # <<>>
               PROVE  /\ found.name \in Instances
                      /\ \E i \in Discovery!Of("srv") : \E j \in Discovery!Of("a") :
                           /\ packet[i].name = found.name /\ packet[i].port = found.port
                           /\ packet[j].data = found.ip
                           /\ packet[i].data # Discovery!NoName /\ packet[j].name # Discovery!NoName
                                => packet[i].data = packet[j].name
    BY DEF Discovery!GoesToADaemon
  <2>1. /\ Discovery!Complete
        /\ found.port = parsed.port /\ found.ip = parsed.ip /\ found.name = parsed.instance
    BY DEF DiscoveryInv, FoundIs
  <2>2. PICK i \in Past("srv") :
          /\ packet[i].name = parsed.instance /\ parsed.instance \in Instances
          /\ packet[i].port = parsed.port /\ packet[i].data = parsed.target
    BY <2>1 DEF DiscoveryInv, ServiceIs, Discovery!Complete
  <2>3. PICK j \in Past("a") : packet[j].data = parsed.ip /\ packet[j].name = parsed.aname
    BY <2>1 DEF DiscoveryInv, AddressIs, Discovery!Complete
  <2>4. i \in Discovery!Of("srv") /\ j \in Discovery!Of("a")
    BY <1>2
  <2> QED BY <2>1, <2>2, <2>3, <2>4 DEF Discovery!Complete
<1>4. Discovery!AnyOrderWillDo
  <2> SUFFICES ASSUME packet # <<>>, next > Len(packet), NEW d \in Instances, Discovery!Answers(d)
               PROVE  Discovery!Complete
    BY DEF Discovery!AnyOrderWillDo
  <2>1. \A type : Past(type) = Discovery!Of(type)
    BY <1>0 DEF Past, Discovery!Of
  <2>2. parsed.port # 0
    BY <2>1 DEF DiscoveryInv, OneDaemon, Discovery!Answers
  <2>3. parsed.ip # 0
    BY <2>1 DEF DiscoveryInv, AddressIs, Discovery!Answers
  <2>4. PICK i \in Discovery!Of("srv") :
          /\ packet[i].name = parsed.instance /\ parsed.instance \in Instances
          /\ packet[i].data = parsed.target
    BY <2>1, <2>2 DEF DiscoveryInv, ServiceIs
  <2>5. PICK j \in Discovery!Of("a") : packet[j].name = parsed.aname
    BY <2>1, <2>3 DEF DiscoveryInv, AddressIs
  <2>6. packet[i].name = d
    BY <2>4 DEF Discovery!Answers
  <2>7. packet[j].name = packet[i].data
    BY <2>6 DEF Discovery!Answers
  <2> QED BY <2>2, <2>3, <2>4, <2>5, <2>7 DEF Discovery!Complete
<1> QED BY <1>1, <1>3, <1>4 DEF Discovery!DaemonIsFound

-----------------------------------------------------------------------------
(* Names: the cursor is where the bytes of the name itself lead.           *)

Packed == pkt \in Packets /\ nameAt \in 0..(Names!Size - 1)

LEMMA OctetsAre == \A b : b \in Names!Octets <=> b \in Nat /\ b <= 255
BY DEF Names!Octets

LEMMA ByteIs ==
  ASSUME Names!Parameters, Packed
  PROVE  /\ Names!Size \in Nat /\ pkt \in Seq(Names!Octets)
         /\ \A i \in 0..(Names!Size - 1) : Names!Byte(i) \in Nat /\ Names!Byte(i) <= 255
<1>1. pkt \in Seq(Names!Octets)
  BY DEF Names!Parameters, Packed
<1>2. Names!Size \in Nat /\ Names!Size = Len(pkt)
  BY <1>1 DEF Names!Size
<1>3. ASSUME NEW i \in 0..(Names!Size - 1) PROVE Names!Byte(i) \in Nat /\ Names!Byte(i) <= 255
  <2>1. i + 1 \in 1..Len(pkt)
    BY <1>2
  <2>2. pkt[i + 1] \in Names!Octets
    BY <1>1, <2>1, ElementOfSeq, Zenon
  <2> QED BY <2>2, OctetsAre, Zenon DEF Names!Byte
<1> QED BY <1>1, <1>2, <1>3

Walks(f) == f = [k \in 0..Names!Size |-> IF k = 0 THEN nameAt ELSE Names!Next1(f[k - 1])]

LEMMA ReachedIs ==
  ASSUME Names!Parameters, Packed
  PROVE  /\ Names!Reached[0] = nameAt
         /\ \A k \in 1..Names!Size : Names!Reached[k] = Names!Next1(Names!Reached[k - 1])
<1> DEFINE n == Names!Size
           g == [p \in (1..n) \X Nat |-> Names!Next1(p[2])]
<1>0. n \in Nat /\ nameAt \in Nat
  BY ByteIs DEF Packed
<1>1. \A i \in Nat : Names!Next1(i) \in Nat
  <2>1. ASSUME NEW i \in Nat, i < n PROVE Names!Byte(i) \in Nat
    <3>1. i \in 0..(Names!Size - 1)
      BY <1>0, <2>1
    <3> QED BY <3>1, ByteIs, Zenon
  <2> QED BY <1>0, <2>1 DEF Names!Next1
<1>2. \A k \in 1..n : \A x \in Nat : g[<<k, x>>] = Names!Next1(x)
  OBVIOUS
<1> HIDE DEF n, g
<1>3. \A k \in 1..n : \A x \in Nat : g[<<k, x>>] \in Nat
  BY <1>1, <1>2
<1>4. PICK f \in [0..n -> Nat] : Folds(f, nameAt, g, n)
  BY <1>0, <1>3, FoldThere
<1>5. f = [k \in 0..n |-> IF k = 0 THEN nameAt ELSE g[<<k, f[k - 1]>>]]
  BY <1>4, Zenon DEF Folds
<1>6. ASSUME NEW k \in 0..n PROVE f[k] = IF k = 0 THEN nameAt ELSE Names!Next1(f[k - 1])
  <2>1. f[k] = IF k = 0 THEN nameAt ELSE g[<<k, f[k - 1]>>]
    BY <1>5, Zenon
  <2>2. CASE k # 0
    <3>1. k \in 1..n /\ k - 1 \in 0..n
      BY <1>0, <2>2
    <3>2. f[k - 1] \in Nat
      BY <1>4, <3>1
    <3>3. g[<<k, f[k - 1]>>] = Names!Next1(f[k - 1])
      BY <1>2, <3>1, <3>2, Zenon
    <3> QED BY <2>1, <2>2, <3>3, Zenon
  <2> QED BY <2>1, <2>2
<1>7. f = [k \in 0..n |-> IF k = 0 THEN nameAt ELSE Names!Next1(f[k - 1])]
  <2>1. f = [k \in 0..n |-> f[k]]
    BY <1>4
  <2> QED BY <1>6, <2>1, Zenon
<1>8. Walks(f)
  BY <1>7, Zenon DEF Walks, n
<1>9. PICK h : h = Names!Reached
  OBVIOUS
<1>10. Walks(h)
  BY <1>8, <1>9, Zenon DEF Names!Reached, Walks
<1>11. h = [k \in 0..n |-> IF k = 0 THEN nameAt ELSE Names!Next1(h[k - 1])]
  BY <1>10, Zenon DEF Walks, n
<1>12. \A k \in 0..n : h[k] = IF k = 0 THEN nameAt ELSE Names!Next1(h[k - 1])
  BY <1>11, Zenon
<1>13. 0 \in 0..n /\ \A k \in 1..n : k \in 0..n /\ k # 0
  BY <1>0
<1>14. h[0] = nameAt /\ \A k \in 1..n : h[k] = Names!Next1(h[k - 1])
  BY <1>12, <1>13, Zenon
<1> QED BY <1>9, <1>14, Zenon DEF n

\* Where it stays it ends.
LEMMA ReachedStays ==
  ASSUME Names!Parameters, Packed, NEW k \in 0..Names!Size, NEW i, Names!Reached[k] = i,
         Names!Next1(i) = i
  PROVE  Names!Reached[Names!Size] = i
<1> DEFINE R == Names!Reached  n == Names!Size
           H == {j \in Nat : R[j] = i}
<1>0. n \in Nat /\ k \in Nat /\ n \in k..n
  BY ByteIs
<1>1. \A j \in 1..n : R[j] = Names!Next1(R[j - 1])
  BY ReachedIs
<1>2. k \in H
  BY <1>0
<1> HIDE DEF R, n
<1>3. ASSUME NEW j \in k..n, j # k, j - 1 \in H PROVE j \in H
  <2>1. j \in 1..n /\ j \in Nat
    BY <1>0, <1>3
  <2>2. R[j] = i
    BY <1>1, <1>3, <2>1, Zenon
  <2> QED BY <2>1, <2>2
<1> HIDE DEF H
<1>4. k..n \subseteq H
  BY <1>0, <1>2, <1>3, Upward
<1>5. n \in H
  BY <1>0, <1>4
<1> QED BY <1>5 DEF H, R, n

-----------------------------------------------------------------------------
(* Names: what is written lies in the packet as it was written.            *)

LEMMA Within ==
  ASSUME NEW S, NEW a \in Seq(S), NEW b \in Seq(S), NEW c \in Seq(S), NEW s, s = (a \o b) \o c
  PROVE  /\ Len(s) = Len(a) + Len(b) + Len(c)
         /\ \A j \in 1..Len(b) : s[Len(a) + j] = b[j]
<1>1. Len(a) \in Nat /\ Len(b) \in Nat /\ Len(c) \in Nat
  OBVIOUS
<1>2. PICK d \in Seq(S) : d = a \o b
  BY ConcatProperties
<1>3. Len(d) = Len(a) + Len(b) /\ \A j \in 1..Len(b) : d[Len(a) + j] = b[j]
  BY <1>1, <1>2, ConcatProperties
<1>4. Len(s) = Len(d) + Len(c) /\ \A j \in 1..Len(d) : s[j] = d[j]
  BY <1>1, <1>2, ConcatProperties
<1> QED BY <1>1, <1>3, <1>4

DottedParts(labels) ==
  [i \in DOMAIN labels |-> IF i = 1 THEN labels[i] ELSE <<Names!Dot>> \o labels[i]]

\* What of a name is written and what of it is read, after the first k labels.
WrittenUpTo(labels, k) == Joined(Names!Labelled(labels))[k]
DottedUpTo(labels, k) == Joined(DottedParts(labels))[k]

LEMMA KnownIs ==
  ASSUME Names!Parameters, NEW labels \in WrittenNames
  PROVE  /\ labels \in Seq(Seq(Names!Octets)) /\ Len(labels) \in Nat /\ DOMAIN labels = 1..Len(labels)
         /\ \A i \in 1..Len(labels) : /\ labels[i] \in Seq(Names!Octets)
                                       /\ 1 <= Len(labels[i]) /\ Len(labels[i]) <= 63
         /\ Names!Labelled(labels) \in Seq(Seq(Names!Octets)) /\ Len(Names!Labelled(labels)) = Len(labels)
         /\ DottedParts(labels) \in Seq(Seq(Names!Octets)) /\ Len(DottedParts(labels)) = Len(labels)
<1>1. /\ labels \in Seq(Seq(Names!Octets))
      /\ \A i \in DOMAIN labels : 1 <= Len(labels[i]) /\ Len(labels[i]) <= 63
  <2>1. /\ labels \in Seq(Seq(Names!Octets))
        /\ \A i \in DOMAIN labels : labels[i] # <<>> /\ Len(labels[i]) < 64
    BY DEF Names!Parameters, Names!Reserved
  <2>2. ASSUME NEW i \in DOMAIN labels PROVE 1 <= Len(labels[i]) /\ Len(labels[i]) <= 63
    <3>1. PICK l : l = labels[i] /\ l \in Seq(Names!Octets) /\ l # <<>> /\ Len(l) < 64
      BY <2>1
    <3>2. Len(l) \in Nat \ {0}
      BY <3>1, EmptySeq, Zenon
    <3> QED BY <3>1, <3>2
  <2> QED BY <2>1, <2>2
<1>2. Len(labels) \in Nat /\ DOMAIN labels = 1..Len(labels)
  BY <1>1
<1>3. \A i \in 1..Len(labels) : /\ labels[i] \in Seq(Names!Octets)
                               /\ 1 <= Len(labels[i]) /\ Len(labels[i]) <= 63
  BY <1>1, <1>2
<1>4. ASSUME NEW i \in 1..Len(labels)
      PROVE  <<Len(labels[i])>> \o labels[i] \in Seq(Names!Octets) /\ <<46>> \o labels[i] \in Seq(Names!Octets)
  <2>1. PICK l \in Seq(Names!Octets) : l = labels[i]
    BY <1>3
  <2>2. <<Len(l)>> \in Seq(Names!Octets) /\ <<46>> \in Seq(Names!Octets)
    <3>1. Len(l) \in Names!Octets /\ 46 \in Names!Octets
      <4>1. Len(labels[i]) <= 63
        BY <1>3
      <4>2. Len(l) \in Nat /\ Len(l) <= 63
        BY <2>1, <4>1
      <4> QED BY <4>2, OctetsAre
    <3> QED BY <3>1
  <2>3. <<Len(l)>> \o l \in Seq(Names!Octets) /\ <<46>> \o l \in Seq(Names!Octets)
    BY <2>2, ConcatProperties
  <2> QED BY <2>1, <2>3
<1>5. Names!Labelled(labels) \in Seq(Seq(Names!Octets)) /\ Len(Names!Labelled(labels)) = Len(labels)
  BY <1>2, <1>4 DEF Names!Labelled
<1>6. DottedParts(labels) \in Seq(Seq(Names!Octets)) /\ Len(DottedParts(labels)) = Len(labels)
  <2>1. \A i \in 1..Len(labels) :
          (IF i = 1 THEN labels[i] ELSE <<Names!Dot>> \o labels[i]) \in Seq(Names!Octets)
    BY <1>3, <1>4 DEF Names!Dot
  <2>2. DottedParts(labels) \in [1..Len(labels) -> Seq(Names!Octets)]
    BY <1>2, <2>1 DEF DottedParts
  <2> QED BY <1>2, <2>2, ASequence
<1> QED BY <1>1, <1>2, <1>3, <1>5, <1>6

LEMMA UpToIs ==
  ASSUME Names!Parameters, NEW labels \in WrittenNames
  PROVE  /\ \A k \in 0..Len(labels) : /\ WrittenUpTo(labels, k) \in Seq(Names!Octets)
                                      /\ DottedUpTo(labels, k) \in Seq(Names!Octets)
         /\ WrittenUpTo(labels, 0) = <<>> /\ DottedUpTo(labels, 0) = <<>>
         /\ \A k \in 1..Len(labels) :
              /\ WrittenUpTo(labels, k) = WrittenUpTo(labels, k - 1) \o (<<Len(labels[k])>> \o labels[k])
              /\ DottedUpTo(labels, k) = DottedUpTo(labels, k - 1)
                                           \o (IF k = 1 THEN labels[k] ELSE <<46>> \o labels[k])
         /\ Names!Written(labels) = WrittenUpTo(labels, Len(labels)) \o <<0>>
         /\ Names!Dotted(labels) = DottedUpTo(labels, Len(labels))
<1> DEFINE W == Joined(Names!Labelled(labels))  D == Joined(DottedParts(labels))  n == Len(labels)
<1>0. /\ Names!Labelled(labels) \in Seq(Seq(Names!Octets)) /\ Len(Names!Labelled(labels)) = n
      /\ DottedParts(labels) \in Seq(Seq(Names!Octets)) /\ Len(DottedParts(labels)) = n
      /\ n \in Nat /\ DOMAIN labels = 1..n
  BY KnownIs
<1>1. /\ W \in [0..n -> Seq(Names!Octets)] /\ W[0] = <<>>
      /\ \A k \in 1..n : W[k] = W[k - 1] \o Names!Labelled(labels)[k]
  BY <1>0, JoinedIs
<1>2. /\ D \in [0..n -> Seq(Names!Octets)] /\ D[0] = <<>>
      /\ \A k \in 1..n : D[k] = D[k - 1] \o DottedParts(labels)[k]
  BY <1>0, JoinedIs
<1>3. \A k \in 1..n : Names!Labelled(labels)[k] = <<Len(labels[k])>> \o labels[k]
  BY <1>0 DEF Names!Labelled
<1>4. \A k \in 1..n : DottedParts(labels)[k] = IF k = 1 THEN labels[k] ELSE <<46>> \o labels[k]
  BY <1>0 DEF DottedParts, Names!Dot
<1>5. Names!Written(labels) = W[n] \o <<0>>
  BY <1>0, FlattenIs, Zenon DEF Names!Written
<1>6. Names!Dotted(labels) = D[n]
  <2>1. Names!Dotted(labels) = FlattenSeq(DottedParts(labels))
    BY Zenon DEF Names!Dotted, DottedParts
  <2> QED BY <1>0, <2>1, FlattenIs, Zenon
<1> HIDE DEF W, D, n
<1>7. \A k \in 0..n : W[k] \in Seq(Names!Octets) /\ D[k] \in Seq(Names!Octets)
  BY <1>1, <1>2
<1>8. \A k \in 1..n : /\ W[k] = W[k - 1] \o (<<Len(labels[k])>> \o labels[k])
                     /\ D[k] = D[k - 1] \o (IF k = 1 THEN labels[k] ELSE <<46>> \o labels[k])
  BY <1>1, <1>2, <1>3, <1>4, Zenon
<1> QED BY <1>1, <1>2, <1>5, <1>6, <1>7, <1>8, Zenon DEF WrittenUpTo, DottedUpTo, W, D, n

LEMMA UpToGrows ==
  ASSUME Names!Parameters, NEW labels \in WrittenNames, NEW k \in 0..Len(labels)
  PROVE  /\ \E t \in Seq(Names!Octets) : WrittenUpTo(labels, Len(labels)) = WrittenUpTo(labels, k) \o t
         /\ \E t \in Seq(Names!Octets) : DottedUpTo(labels, Len(labels)) = DottedUpTo(labels, k) \o t
<1>1. k \in 0..Len(labels) /\ Len(labels) \in k..Len(labels)
  BY KnownIs
<1>2. ASSUME NEW ss \in Seq(Seq(Names!Octets)), Len(ss) = Len(labels)
      PROVE  \E t \in Seq(Names!Octets) : Joined(ss)[Len(labels)] = Joined(ss)[k] \o t
  <2>1. k \in 0..Len(ss) /\ Len(ss) \in k..Len(ss)
    BY <1>1, <1>2
  <2>2. \E t \in Seq(Names!Octets) : Joined(ss)[Len(ss)] = Joined(ss)[k] \o t
    BY <2>1, JoinedGrows
  <2> QED BY <1>2, <2>2
<1>3. /\ Names!Labelled(labels) \in Seq(Seq(Names!Octets)) /\ Len(Names!Labelled(labels)) = Len(labels)
      /\ DottedParts(labels) \in Seq(Seq(Names!Octets)) /\ Len(DottedParts(labels)) = Len(labels)
  BY KnownIs
<1> QED BY <1>2, <1>3, Zenon DEF WrittenUpTo, DottedUpTo

\* The name that is known begins where this one does, and there is room for it.
LiesHere(labels) ==
  /\ IsPrefix(Names!Written(labels), SubSeq(pkt, nameAt + 1, Names!Size))
  /\ Len(Names!Dotted(labels)) < OutCap

Past1(labels, k) == nameAt + Len(WrittenUpTo(labels, k))

LEMMA PacketFollows ==
  ASSUME Names!Parameters, Packed, NEW labels \in WrittenNames, LiesHere(labels)
  PROVE  /\ Names!Written(labels) \in Seq(Names!Octets)
         /\ \E u \in Seq(Names!Octets) :
              SubSeq(pkt, nameAt + 1, Names!Size) = Names!Written(labels) \o u
<1> DEFINE q == SubSeq(pkt, nameAt + 1, Names!Size)  w == Names!Written(labels)
<1>1. q \in Seq(Names!Octets)
  BY ByteIs DEF Names!Size, Packed
<1>2. w \in Seq(Names!Octets)
  <2>1. PICK z : z \in Seq(Names!Octets) /\ z = <<0>>
    <3>1. 0 \in Names!Octets
      BY OctetsAre
    <3> QED BY <3>1, OfOne
  <2>2. Len(labels) \in 0..Len(labels)
    BY KnownIs
  <2>3. WrittenUpTo(labels, Len(labels)) \in Seq(Names!Octets)
    BY <2>2, UpToIs
  <2>4. w = WrittenUpTo(labels, Len(labels)) \o z
    BY <2>1, UpToIs
  <2> QED BY <2>1, <2>3, <2>4, ConcatProperties
<1>3. IsPrefix(w, q)
  BY Zenon DEF LiesHere
<1> HIDE DEF w, q
<1>4. \E u \in Seq(Names!Octets) : q = w \o u
  <2>1. Leads(Names!Octets, w, q)
    BY <1>1, <1>2, <1>3, PrefixLeads
  <2> QED BY <2>1, Zenon DEF Leads
<1> QED BY <1>2, <1>4 DEF w, q

LEMMA PacketAhead ==
  ASSUME Names!Parameters, Packed, NEW labels \in WrittenNames, LiesHere(labels),
         NEW a \in Seq(Names!Octets), NEW b \in Seq(Names!Octets), NEW c \in Seq(Names!Octets),
         Names!Written(labels) = (a \o b) \o c
  PROVE  /\ nameAt + Len(a) + Len(b) + Len(c) <= Names!Size
         /\ \A j \in 1..Len(b) : Names!Byte(nameAt + Len(a) + j - 1) = b[j]
<1> DEFINE q == SubSeq(pkt, nameAt + 1, Names!Size)
<1>0. Names!Size \in Nat /\ pkt \in Seq(Names!Octets) /\ Names!Size = Len(pkt) /\ nameAt \in 0..(Len(pkt) - 1)
  BY ByteIs DEF Names!Size, Packed
<1>1. q \in Seq(Names!Octets) /\ Len(q) = Len(pkt) - nameAt /\ \A i \in 1..Len(q) : q[i] = pkt[nameAt + i]
  BY <1>0
<1> HIDE DEF q
<1>2. PICK w : w \in Seq(Names!Octets) /\ w = Names!Written(labels)
  BY ConcatProperties
<1>4. PICK u : u \in Seq(Names!Octets) /\ q = w \o u
  BY <1>2, PacketFollows DEF q
<1>5. PICK d : d \in Seq(Names!Octets) /\ d = a \o b
  BY ConcatProperties
<1>6. PICK e : e \in Seq(Names!Octets) /\ e = c \o u
  BY <1>4, ConcatProperties
<1>7. (d \o c) \o u = d \o e
  <2>1. (d \o c) \o u = d \o (c \o u)
    BY <1>4, <1>5, ConcatAssociative, SMTT(40)
  <2> QED BY <1>6, <2>1, Zenon
<1>8. q = (a \o b) \o e
  BY <1>2, <1>4, <1>5, <1>7, Zenon
<1>9. /\ Len(q) = Len(a) + Len(b) + Len(e)
      /\ \A j \in 1..Len(b) : q[Len(a) + j] = b[j]
  BY <1>6, <1>8, Within
<1>10. Len(e) = Len(c) + Len(u) /\ Len(u) \in Nat /\ Len(c) \in Nat /\ Len(a) \in Nat /\ Len(b) \in Nat
  BY <1>4, <1>6, ConcatProperties
<1>11. ASSUME NEW j \in 1..Len(b) PROVE Names!Byte(nameAt + Len(a) + j - 1) = b[j]
  <2>1. q[Len(a) + j] = b[j] /\ Len(a) + j \in 1..Len(q)
    BY <1>9, <1>10
  <2>2. pkt[nameAt + (Len(a) + j)] = b[j]
    BY <1>1, <2>1
  <2>3. (nameAt + Len(a) + j - 1) + 1 = nameAt + (Len(a) + j)
    BY <1>0, <1>10
  <2> QED BY <2>2, <2>3, Zenon DEF Names!Byte
<1>12. nameAt + Len(a) + Len(b) + Len(c) <= Len(pkt)
  BY <1>0, <1>1, <1>9, <1>10
<1> QED BY <1>0, <1>11, <1>12

LEMMA EndAhead ==
  ASSUME Names!Parameters, Packed, NEW labels \in WrittenNames, LiesHere(labels)
  PROVE  /\ Past1(labels, Len(labels)) \in 0..(Names!Size - 1)
         /\ Names!Byte(Past1(labels, Len(labels))) = 0
<1>1. PICK a \in Seq(Names!Octets) : a = WrittenUpTo(labels, Len(labels))
  <2>1. Len(labels) \in 0..Len(labels)
    BY KnownIs
  <2> QED BY <2>1, UpToIs
<1>2. 0 \in Names!Octets
  BY DEF Names!Octets
<1>3. PICK z \in Seq(Names!Octets) : z = <<0>> /\ Len(z) = 1 /\ z[1] = 0
  BY <1>2, OfOne
<1>c. PICK c \in Seq(Names!Octets) : c = <<>> /\ Len(c) = 0
  BY EmptySeq
<1>4. PICK d \in Seq(Names!Octets) : d = a \o z
  BY ConcatProperties
<1>5. Names!Written(labels) = (a \o z) \o c
  <2>1. d \o <<>> = d
    BY ConcatEmptySeq
  <2>2. Names!Written(labels) = a \o z
    BY <1>1, <1>3, UpToIs, Zenon
  <2> QED BY <1>c, <1>4, <2>1, <2>2, Zenon
<1>6. /\ nameAt + Len(a) + Len(z) + Len(c) <= Names!Size
      /\ \A j \in 1..Len(z) : Names!Byte(nameAt + Len(a) + j - 1) = z[j]
  BY <1>5, PacketAhead
<1>7. nameAt \in Nat /\ Len(a) \in Nat /\ nameAt + Len(a) + 1 - 1 = nameAt + Len(a) /\ Names!Size \in Nat
  BY ByteIs DEF Packed
<1>8. 1 \in 1..Len(z) /\ Len(z) = 1 /\ z[1] = 0
  BY <1>3
<1>9. Names!Byte(nameAt + Len(a)) = 0
  BY <1>6, <1>7, <1>8
<1> QED BY <1>c, <1>1, <1>6, <1>7, <1>8, <1>9 DEF Past1

LEMMA LabelAhead ==
  ASSUME Names!Parameters, Packed, NEW labels \in WrittenNames, LiesHere(labels),
         NEW k \in 0..(Len(labels) - 1)
  PROVE  LET p == Past1(labels, k)  l == labels[k + 1]
         IN /\ p \in 0..(Names!Size - 1) /\ p + 1 + Len(l) <= Names!Size
            /\ Names!Byte(p) = Len(l) /\ 1 <= Len(l) /\ Len(l) <= 63
            /\ Names!Label(p) = l
            /\ p + 1 + Len(l) = Past1(labels, k + 1)
<1>0. Len(labels) \in Nat /\ k \in Nat /\ k \in 0..Len(labels) /\ k + 1 \in 1..Len(labels) /\ (k + 1) - 1 = k
  BY KnownIs
<1>1. PICK l : l \in Seq(Names!Octets) /\ l = labels[k + 1]
  BY <1>0, KnownIs
<1>2. PICK a : a \in Seq(Names!Octets) /\ a = WrittenUpTo(labels, k)
  BY <1>0, UpToIs
<1>3. Len(l) \in Nat /\ 1 <= Len(l) /\ Len(l) <= 63 /\ Len(l) \in Names!Octets
  <2>1. Len(l) \in Nat /\ 1 <= Len(l) /\ Len(l) <= 63
    BY <1>0, <1>1, KnownIs
  <2> QED BY <2>1, OctetsAre
<1>4. PICK h : h \in Seq(Names!Octets) /\ h = <<Len(l)>> /\ Len(h) = 1 /\ h[1] = Len(l)
  BY <1>3, OfOne
<1>5. PICK b : b \in Seq(Names!Octets) /\ b = h \o l
  BY <1>1, <1>4, ConcatProperties
<1>6. Len(b) = 1 + Len(l) /\ b[1] = Len(l) /\ \A j \in 1..Len(l) : b[1 + j] = l[j]
  <2>1. Len(b) = Len(h) + Len(l) /\ \A j \in 1..Len(h) : b[j] = h[j]
    BY <1>1, <1>4, <1>5, ConcatProperties
  <2>2. \A j \in 1..Len(l) : b[Len(h) + j] = l[j]
    BY <1>1, <1>4, <1>5, ConcatProperties
  <2>3. 1 \in 1..Len(h)
    BY <1>4
  <2> QED BY <1>4, <2>1, <2>2, <2>3
<1>7. WrittenUpTo(labels, k + 1) = a \o b
  BY <1>0, <1>1, <1>2, <1>4, <1>5, UpToIs, Zenon
<1>8. PICK t : t \in Seq(Names!Octets) /\ WrittenUpTo(labels, Len(labels)) = WrittenUpTo(labels, k + 1) \o t
  <2>1. k + 1 \in 0..Len(labels)
    BY <1>0
  <2> QED BY <2>1, UpToGrows
<1>9. PICK d : d \in Seq(Names!Octets) /\ d = a \o b
  BY <1>2, <1>5, ConcatProperties
<1>10. PICK z : z \in Seq(Names!Octets) /\ z = <<0>>
  <2>1. 0 \in Names!Octets
    BY DEF Names!Octets
  <2> QED BY <2>1, OfOne
<1>11. PICK c : c \in Seq(Names!Octets) /\ c = t \o z
  BY <1>8, <1>10, ConcatProperties
<1>12. (d \o t) \o z = d \o c
  <2>1. (d \o t) \o z = d \o (t \o z)
    BY <1>8, <1>9, <1>10, ConcatAssociative, SMTT(40)
  <2> QED BY <1>11, <2>1, Zenon
<1>13. Names!Written(labels) = (a \o b) \o c
  BY <1>7, <1>8, <1>9, <1>10, <1>12, UpToIs, Zenon
<1>14. /\ nameAt + Len(a) + Len(b) + Len(c) <= Names!Size
       /\ \A j \in 1..Len(b) : Names!Byte(nameAt + Len(a) + j - 1) = b[j]
  BY <1>2, <1>5, <1>11, <1>13, PacketAhead
<1>15. /\ nameAt \in Nat /\ Len(a) \in Nat /\ Len(c) \in Nat /\ Names!Size \in Nat /\ Len(l) \in Nat
       /\ pkt \in Seq(Names!Octets) /\ Names!Size = Len(pkt)
  <2>1. Len(a) \in Nat /\ Len(c) \in Nat /\ Len(l) \in Nat
    BY <1>1, <1>2, <1>11
  <2> QED BY <2>1, ByteIs DEF Packed, Names!Size
<1> DEFINE p == nameAt + Len(a)
<1>16. p \in 0..(Names!Size - 1) /\ p + 1 + Len(l) <= Names!Size
  <2>1. nameAt + Len(a) + (1 + Len(l)) + Len(c) <= Names!Size
    BY <1>6, <1>14
  <2> QED BY <1>15, <2>1
<1>17. Names!Byte(p) = Len(l)
  <2>1. 1 \in 1..Len(b) /\ nameAt + Len(a) + 1 - 1 = p
    BY <1>6, <1>15
  <2> QED BY <1>6, <1>14, <2>1
<1>18. ASSUME NEW j \in 1..Len(l) PROVE pkt[p + 1 + j] = l[j]
  <2>1. 1 + j \in 1..Len(b) /\ nameAt + Len(a) + (1 + j) - 1 = p + j /\ p + j + 1 = p + 1 + j
    BY <1>6, <1>15
  <2>2. Names!Byte(p + j) = b[1 + j]
    BY <1>14, <2>1
  <2> QED BY <1>6, <2>1, <2>2 DEF Names!Byte
<1>19. Names!Label(p) = l
  <2> DEFINE s == SubSeq(pkt, p + 2, p + 1 + Len(l))
  <2>1. Names!Label(p) = s
    BY <1>17 DEF Names!Label
  <2>2. s \in Seq(Names!Octets) /\ Len(s) = Len(l) /\ \A j \in 1..Len(l) : s[j] = pkt[p + 1 + j]
    <3>1. /\ p + 2 \in Nat /\ p + 1 + Len(l) \in Nat /\ 1 <= p + 2 /\ p + 2 <= (p + 1 + Len(l)) + 1
          /\ p + 1 + Len(l) <= Len(pkt) /\ (p + 1 + Len(l)) - (p + 2) + 1 = Len(l)
          /\ \A j \in 1..Len(l) : (p + 2) + j - 1 = p + 1 + j
      BY <1>15, <1>16
    <3>2. /\ s \in Seq(Names!Octets) /\ Len(s) = (p + 1 + Len(l)) - (p + 2) + 1
          /\ \A j \in 1..((p + 1 + Len(l)) - (p + 2) + 1) : s[j] = pkt[(p + 2) + j - 1]
      BY <1>15, <3>1, PartIs
    <3> HIDE DEF s
    <3> QED BY <3>1, <3>2
  <2> HIDE DEF s
  <2>3. s = l
    BY <1>1, <1>18, <2>2, SeqEqual
  <2> QED BY <2>1, <2>3
<1>20. p + 1 + Len(l) = Past1(labels, k + 1)
  <2>1. Len(d) = Len(a) + Len(b)
    BY <1>2, <1>5, <1>9, ConcatProperties
  <2>2. Past1(labels, k + 1) = nameAt + Len(d)
    BY <1>7, <1>9 DEF Past1
  <2> QED BY <1>6, <1>15, <2>1, <2>2
<1>21. p = Past1(labels, k)
  BY <1>2 DEF Past1
<1> QED BY <1>1, <1>3, <1>16, <1>17, <1>19, <1>20, <1>21

\* What is read after k labels, with one more.
LEMMA DottedNext ==
  ASSUME Names!Parameters, NEW labels \in WrittenNames, NEW k \in 0..(Len(labels) - 1)
  PROVE  LET d == DottedUpTo(labels, k)
             longer == (IF d = <<>> THEN <<>> ELSE Append(d, Names!Dot)) \o labels[k + 1]
         IN /\ longer = DottedUpTo(labels, k + 1)
            /\ Len(longer) <= Len(Names!Dotted(labels))
<1>0. /\ Len(labels) \in Nat /\ k \in Nat /\ k \in 0..Len(labels)
      /\ k + 1 \in 1..Len(labels) /\ (k + 1) - 1 = k
  BY KnownIs
<1>1. PICK l : l \in Seq(Names!Octets) /\ l = labels[k + 1]
  BY <1>0, KnownIs
<1>2. PICK d : d \in Seq(Names!Octets) /\ d = DottedUpTo(labels, k)
  BY <1>0, UpToIs
<1>o. 46 \in Names!Octets
  BY DEF Names!Octets
<1> DEFINE longer == (IF d = <<>> THEN <<>> ELSE Append(d, 46)) \o l
<1>3. DottedUpTo(labels, k + 1) = d \o (IF k + 1 = 1 THEN l ELSE <<46>> \o l)
  BY <1>0, <1>1, <1>2, UpToIs, Zenon
<1>4. longer = DottedUpTo(labels, k + 1)
  <2>1. CASE k = 0
    <3>1. d = <<>>
      BY <1>2, <2>1, UpToIs
    <3> QED BY <1>3, <2>1, <3>1
  <2>2. CASE k # 0
    <3>1. k \in 1..Len(labels) /\ k - 1 \in 0..Len(labels)
      BY <1>0, <2>2
    <3>2. PICK m : m \in Seq(Names!Octets) /\ m = labels[k]
      BY <3>1, KnownIs
    <3>m. Len(m) >= 1
      <4>1. Len(labels[k]) >= 1
        BY <3>1, KnownIs
      <4> QED BY <3>2, <4>1
    <3>3. PICK e : e \in Seq(Names!Octets) /\ e = DottedUpTo(labels, k - 1)
      BY <3>1, UpToIs
    <3>4. PICK x : x \in Seq(Names!Octets) /\ x = (IF k = 1 THEN m ELSE <<46>> \o m) /\ Len(x) >= 1
      <4>1. PICK c : c \in Seq(Names!Octets) /\ c = <<46>> /\ Len(c) = 1
        BY <1>o, OfOne
      <4>2. c \o m \in Seq(Names!Octets) /\ Len(c \o m) = Len(c) + Len(m) /\ Len(m) \in Nat
        BY <3>2, <4>1, ConcatProperties
      <4>3. CASE k = 1
        BY <3>2, <3>m, <4>3
      <4>4. CASE k # 1
        <5>1. (IF k = 1 THEN m ELSE <<46>> \o m) = c \o m
          BY <4>1, <4>4
        <5>2. Len(c \o m) >= 1
          BY <3>m, <4>1, <4>2
        <5> QED BY <4>2, <5>1, <5>2
      <4> QED BY <4>3, <4>4
    <3>5. d = e \o x
      BY <1>2, <3>1, <3>2, <3>3, <3>4, UpToIs, Zenon
    <3>6. Len(d) = Len(e) + Len(x) /\ Len(e) \in Nat
      BY <3>3, <3>4, <3>5, ConcatProperties
    <3>7. d # <<>>
      <4>1. Len(d) # 0
        BY <3>4, <3>6
      <4> QED BY <4>1
    <3>8. PICK z : z \in Seq(Names!Octets) /\ z = <<46>>
      BY <1>o, OfOne
    <3>9. Append(d, 46) = d \o z
      BY <1>2, <1>o, <3>8, AppendIsConcat
    <3>10. (d \o z) \o l = d \o (z \o l)
      <4>1. z \in Seq(Names!Octets) /\ l \in Seq(Names!Octets) /\ d \in Seq(Names!Octets)
        BY <1>1, <1>2, <3>8, Zenon
      <4> HIDE DEF longer
      <4> QED BY <4>1, ConcatAssociative, SMTT(40)
    <3>11. k + 1 # 1
      BY <1>0, <2>2
    <3> QED BY <1>1, <1>3, <3>7, <3>8, <3>9, <3>10, <3>11, Zenon
  <2> QED BY <2>1, <2>2
<1>5. Len(longer) <= Len(Names!Dotted(labels))
  <2>1. k + 1 \in 0..Len(labels)
    BY <1>0
  <2>2. PICK t : t \in Seq(Names!Octets) /\ DottedUpTo(labels, Len(labels)) = DottedUpTo(labels, k + 1) \o t
    BY <2>1, UpToGrows
  <2>3. PICK x : x \in Seq(Names!Octets) /\ x = DottedUpTo(labels, k + 1)
    BY <2>1, UpToIs
  <2>4. Len(x \o t) = Len(x) + Len(t) /\ Len(x) \in Nat /\ Len(t) \in Nat
    BY <2>2, <2>3, ConcatProperties
  <2>5. Names!Dotted(labels) = x \o t
    BY <2>2, <2>3, UpToIs
  <2>6. longer = x
    BY <1>4, <2>3
  <2> HIDE DEF longer
  <2> QED BY <2>4, <2>5, <2>6
<1> QED BY <1>1, <1>2, <1>4, <1>5 DEF Names!Dot

-----------------------------------------------------------------------------
(* Names: the invariant.                                                   *)

\* Up to the first pointer the cursor is where the name's own bytes lead.
Walking ==
  nameState = "reading" /\ nameEnd = Names!None =>
    /\ nameAt <= offset
    /\ \E k \in 0..(offset - nameAt) : offset = Names!Reached[k]
EndIs == nameEnd # Names!None => nameEnd = Names!EndOf /\ nameEnd > nameAt

\* So many labels of a name that is known are behind the cursor and in the dotted name.
InPlace(labels) ==
  LiesHere(labels) =>
    /\ nameState # "bad"
    /\ nameState = "reading" =>
         \E k \in 0..Len(labels) : offset = Past1(labels, k) /\ dotted = DottedUpTo(labels, k)
    /\ nameState = "read" => dotted = Names!Dotted(labels)

NamesInv ==
  /\ Packed
  /\ offset \in 0..Names!Size /\ hops \in 0..MaxJumps /\ nameEnd \in 0..Names!Size
  /\ dotted \in Seq(Names!Octets) /\ Len(dotted) < OutCap
  /\ nameState \in {"reading", "bad", "read"}
  /\ nameState = "read" => nameEnd # Names!None
  /\ Walking /\ EndIs
  /\ \A labels \in WrittenNames : InPlace(labels)

Longer == (IF dotted = <<>> THEN <<>> ELSE Append(dotted, Names!Dot)) \o Names!Label(offset)

\* What a turn of the loop finds at the cursor, and does.
AtEnd == offset < Names!Size /\ Names!Byte(offset) = 0
AtLabel ==
  /\ offset < Names!Size /\ 1 <= Names!Byte(offset) /\ Names!Byte(offset) <= 63
  /\ offset + 1 + Names!Byte(offset) <= Names!Size /\ Len(Longer) < OutCap
AtPointer ==
  /\ offset + 1 < Names!Size /\ 192 <= Names!Byte(offset)
  /\ hops + 1 <= MaxJumps /\ Names!Target(offset) < offset

LEMMA TurnIs ==
  ASSUME Names!Parameters, NamesInv, Names!Next
  PROVE  /\ nameState = "reading" /\ pkt' = pkt /\ nameAt' = nameAt
         /\ \/ /\ ~AtEnd /\ ~AtLabel
               /\ nameState' = "bad" /\ UNCHANGED <<offset, hops, nameEnd, dotted>>
            \/ /\ AtPointer
               /\ offset' = Names!Target(offset) /\ hops' = hops + 1
               /\ nameEnd' = IF nameEnd = 0 THEN offset + 2 ELSE nameEnd
               /\ UNCHANGED <<dotted, nameState>>
            \/ /\ AtEnd /\ nameState' = "read"
               /\ nameEnd' = IF nameEnd = 0 THEN offset + 1 ELSE nameEnd
               /\ UNCHANGED <<offset, hops, dotted>>
            \/ /\ AtLabel /\ dotted' = Longer /\ offset' = offset + 1 + Names!Byte(offset)
               /\ UNCHANGED <<hops, nameEnd, nameState>>
<1>0. Names!Size \in Nat /\ offset \in Nat /\ hops \in Nat /\ MaxJumps \in Nat /\ Packed
  BY ByteIs DEF NamesInv, Names!Parameters
<1>1. nameState = "reading" /\ pkt' = pkt /\ nameAt' = nameAt
  BY DEF Names!Next, Names!Turn
<1>2. CASE offset >= Names!Size
  BY <1>0, <1>1, <1>2 DEF Names!Next, Names!Turn, Names!Fails, AtEnd, AtLabel
<1>3. CASE offset < Names!Size
  <2>0. Names!Byte(offset) \in Nat
    <3>1. offset \in 0..(Names!Size - 1)
      BY <1>0, <1>3
    <3> QED BY <1>0, <3>1, ByteIs
  <2>1. IF Names!Byte(offset) >= 192 THEN Names!Follow
        ELSE IF Names!Byte(offset) = 0 THEN Names!Stop
        ELSE IF Names!Byte(offset) >= 64 THEN Names!Fails ELSE Names!TakeLabel
    BY <1>0, <1>3, <2>0 DEF Names!Next, Names!Turn, Names!Pointer, Names!Reserved
  <2>2. CASE Names!Byte(offset) >= 192
    <3>1. Names!Follow /\ ~AtEnd /\ ~AtLabel
      BY <2>0, <2>1, <2>2 DEF AtEnd, AtLabel
    <3>2. CASE offset + 1 >= Names!Size \/ hops + 1 > MaxJumps \/ Names!Target(offset) >= offset
      <4>1. Names!Fails
        BY <3>1, <3>2, Zenon DEF Names!Follow
      <4> QED BY <1>1, <3>1, <4>1 DEF Names!Fails
    <3>3. CASE ~(offset + 1 >= Names!Size \/ hops + 1 > MaxJumps \/ Names!Target(offset) >= offset)
      <4>1. /\ offset' = Names!Target(offset) /\ hops' = hops + 1
            /\ nameEnd' = IF nameEnd = 0 THEN offset + 2 ELSE nameEnd
            /\ UNCHANGED <<dotted, nameState>>
        BY <3>1, <3>3, Zenon DEF Names!Follow, Names!None
      <4>2. Names!Target(offset) \in Int
        <5>1. offset + 1 \in 0..(Names!Size - 1)
          BY <1>0, <3>3
        <5>2. Names!Byte(offset + 1) \in Nat
          BY <1>0, <5>1, ByteIs
        <5> QED BY <2>0, <5>2 DEF Names!Target, Names!Pointer
      <4>3. AtPointer
        BY <1>0, <2>0, <2>2, <3>3, <4>2 DEF AtPointer
      <4> QED BY <1>1, <4>1, <4>3, Zenon
    <3> QED BY <3>2, <3>3
  <2>3. CASE Names!Byte(offset) = 0
    <3>1. Names!Stop /\ AtEnd
      BY <1>3, <2>1, <2>3 DEF AtEnd
    <3> QED BY <1>1, <3>1 DEF Names!Stop, Names!None
  <2>4. CASE Names!Byte(offset) # 0 /\ Names!Byte(offset) >= 64 /\ ~(Names!Byte(offset) >= 192)
    <3>1. Names!Fails /\ ~AtEnd /\ ~AtLabel
      BY <2>0, <2>1, <2>4 DEF AtEnd, AtLabel
    <3> QED BY <1>1, <3>1 DEF Names!Fails
  <2>5. CASE Names!Byte(offset) # 0 /\ ~(Names!Byte(offset) >= 64) /\ ~(Names!Byte(offset) >= 192)
    <3>1. Names!TakeLabel /\ ~AtEnd
      BY <2>0, <2>1, <2>5 DEF AtEnd
    <3>2. Names!TakeLabel <=>
            IF offset + 1 + Names!Byte(offset) > Names!Size \/ Len(Longer) >= OutCap THEN Names!Fails
            ELSE /\ dotted' = Longer
                 /\ offset' = offset + 1 + Names!Byte(offset)
                 /\ UNCHANGED <<hops, nameEnd, nameState>>
      BY Zenon DEF Names!TakeLabel, Longer
    <3>3. CASE offset + 1 + Names!Byte(offset) > Names!Size \/ Len(Longer) >= OutCap
      <4>1. Names!Fails
        BY <3>1, <3>2, <3>3, Zenon
      <4>2. ~AtLabel
        <5>1. Len(Longer) \in Nat /\ OutCap \in Nat
          BY DEF Longer, Names!Parameters
        <5> QED BY <1>0, <2>0, <3>3, <5>1 DEF AtLabel
      <4> QED BY <1>1, <3>1, <4>1, <4>2 DEF Names!Fails
    <3>4. CASE ~(offset + 1 + Names!Byte(offset) > Names!Size \/ Len(Longer) >= OutCap)
      <4>1. /\ dotted' = Longer /\ offset' = offset + 1 + Names!Byte(offset)
            /\ UNCHANGED <<hops, nameEnd, nameState>>
        BY <3>1, <3>2, <3>4, Zenon
      <4>2. AtLabel
        <5>1. Len(Longer) \in Nat /\ OutCap \in Nat
          BY DEF Longer, Names!Parameters
        <5> QED BY <1>0, <1>3, <2>0, <2>5, <3>4, <5>1 DEF AtLabel
      <4> QED BY <1>1, <4>1, <4>2
    <3> QED BY <3>3, <3>4
  <2> QED BY <2>2, <2>3, <2>4, <2>5
<1> QED BY <1>0, <1>2, <1>3

\* A name that is known is ended or goes on with its next label.
LEMMA KnownAhead ==
  ASSUME Names!Parameters, NamesInv, nameState = "reading", NEW labels \in WrittenNames, LiesHere(labels)
  PROVE  \/ AtEnd /\ dotted = Names!Dotted(labels)
         \/ /\ AtLabel /\ ~AtEnd
            /\ \E k \in 0..Len(labels) : /\ offset + 1 + Names!Byte(offset) = Past1(labels, k)
                                         /\ Longer = DottedUpTo(labels, k)
<1>0. Packed /\ Len(labels) \in Nat /\ Names!Size \in Nat
  BY KnownIs, ByteIs DEF NamesInv
<1>1. PICK k \in 0..Len(labels) : offset = Past1(labels, k) /\ dotted = DottedUpTo(labels, k)
  BY DEF NamesInv, InPlace
<1>2. CASE k = Len(labels)
  <2>1. offset \in 0..(Names!Size - 1) /\ Names!Byte(offset) = 0
    BY <1>0, <1>1, <1>2, EndAhead
  <2>2. dotted = Names!Dotted(labels)
    BY <1>1, <1>2, UpToIs
  <2> QED BY <1>0, <2>1, <2>2 DEF AtEnd
<1>3. CASE k # Len(labels)
  <2>1. k \in 0..(Len(labels) - 1) /\ k + 1 \in 0..Len(labels)
    BY <1>0, <1>3
  <2>2. /\ offset \in 0..(Names!Size - 1) /\ offset + 1 + Len(labels[k + 1]) <= Names!Size
        /\ Names!Byte(offset) = Len(labels[k + 1])
        /\ 1 <= Len(labels[k + 1]) /\ Len(labels[k + 1]) <= 63
        /\ Names!Label(offset) = labels[k + 1]
        /\ offset + 1 + Len(labels[k + 1]) = Past1(labels, k + 1)
    BY <1>0, <1>1, <2>1, LabelAhead
  <2>3. Longer = DottedUpTo(labels, k + 1) /\ Len(Longer) <= Len(Names!Dotted(labels))
    BY <1>1, <2>1, <2>2, DottedNext, Zenon DEF Longer
  <2>4. Len(Longer) < OutCap
    <3>1. Len(Longer) \in Nat /\ Len(Names!Dotted(labels)) \in Nat /\ OutCap \in Nat
      <4>1. k + 1 \in 0..Len(labels) /\ Len(labels) \in 0..Len(labels)
        BY <1>0, <2>1
      <4>2. Longer \in Seq(Names!Octets) /\ Names!Dotted(labels) \in Seq(Names!Octets)
        BY <2>3, <4>1, UpToIs
      <4> QED BY <4>2 DEF Names!Parameters
    <3> QED BY <2>3, <3>1 DEF LiesHere
  <2>5. AtLabel /\ ~AtEnd
    <3>1. Names!Byte(offset) \in Nat
      BY <1>0, <2>2, ByteIs
    <3>2. /\ offset < Names!Size /\ 1 <= Names!Byte(offset) /\ Names!Byte(offset) <= 63
          /\ offset + 1 + Names!Byte(offset) <= Names!Size /\ Names!Byte(offset) # 0
      <4>1. PICK n : n \in Nat /\ n = Names!Byte(offset)
        BY <3>1
      <4>2. offset \in 0..(Names!Size - 1) /\ offset + 1 + n <= Names!Size /\ 1 <= n /\ n <= 63
        BY <2>2, <4>1, Zenon
      <4>3. offset < Names!Size /\ n # 0
        BY <1>0, <4>1, <4>2
      <4> QED BY <4>1, <4>2, <4>3, Zenon
    <3> QED BY <2>4, <3>2, Zenon DEF AtLabel, AtEnd
  <2>6. offset + 1 + Names!Byte(offset) = Past1(labels, k + 1)
    BY <2>2
  <2> QED BY <2>1, <2>3, <2>5, <2>6
<1> QED BY <1>2, <1>3

\* Where the name ends by its own bytes, the cursor being there.
LEMMA EndHere ==
  ASSUME Names!Parameters, NamesInv, nameState = "reading", nameEnd = 0, offset < Names!Size,
         Names!Byte(offset) = 0 \/ Names!Byte(offset) >= 192
  PROVE  /\ Names!EndOf = IF Names!Byte(offset) = 0 THEN offset + 1 ELSE offset + 2
         /\ nameAt <= offset
<1>0. Packed /\ Names!Size \in Nat /\ offset \in Nat /\ nameAt \in Nat
  BY ByteIs DEF NamesInv, Packed
<1>1. PICK k \in 0..(offset - nameAt) : offset = Names!Reached[k] /\ nameAt <= offset
  BY DEF NamesInv, Walking, Names!None
<1>2. k \in 0..Names!Size
  BY <1>0, <1>1
<1>3. Names!Next1(offset) = offset
  BY DEF Names!Next1, Names!Pointer
<1>4. Names!Reached[Names!Size] = offset
  BY <1>0, <1>1, <1>2, <1>3, ReachedStays
<1> QED BY <1>1, <1>4 DEF Names!EndOf

\* The packet stays, and what is said of it and the name alone.
LEMMA NameStays ==
  ASSUME pkt' = pkt, nameAt' = nameAt
  PROVE  /\ Names!Size' = Names!Size /\ (Packed' <=> Packed)
         /\ Names!Reached' = Names!Reached /\ Names!EndOf' = Names!EndOf
         /\ \A labels : LiesHere(labels)' <=> LiesHere(labels)
         /\ \A labels, k : Past1(labels, k)' = Past1(labels, k)
<1>1. Names!Size' = Names!Size /\ \A i : Names!Byte(i)' = Names!Byte(i)
  BY DEF Names!Size, Names!Byte
<1>2. Names!Reached' = Names!Reached
  BY DEF Names!Reached, Names!Next1, Names!Byte, Names!Size
<1>3. Names!EndOf' = Names!EndOf
  BY <1>1, <1>2 DEF Names!EndOf
<1>4. Packed' <=> Packed
  BY <1>1 DEF Packed
<1>5. \A labels : LiesHere(labels)' <=> LiesHere(labels)
  BY <1>1 DEF LiesHere
<1>6. \A labels, k : Past1(labels, k)' = Past1(labels, k)
  BY DEF Past1
<1> QED BY <1>1, <1>2, <1>3, <1>4, <1>5, <1>6

LEMMA NamesBegins ==
  ASSUME Names!Parameters, Names!Init
  PROVE  NamesInv
<1>1. Packed /\ offset = nameAt /\ hops = 0 /\ nameEnd = 0 /\ dotted = <<>> /\ nameState = "reading"
  BY DEF Names!Init, Packed, Names!None
<1>2. Names!Size \in Nat /\ nameAt \in 0..(Names!Size - 1) /\ OutCap \in Nat \ {0} /\ MaxJumps \in Nat
  BY <1>1, ByteIs DEF Packed, Names!Parameters
<1>3. Walking /\ EndIs
  <2>1. Names!Reached[0] = nameAt
    BY <1>1, ReachedIs
  <2> QED BY <1>1, <1>2, <2>1 DEF Walking, EndIs, Names!None
<1>4. ASSUME NEW labels \in WrittenNames PROVE InPlace(labels)
  <2>1. WrittenUpTo(labels, 0) = <<>> /\ DottedUpTo(labels, 0) = <<>> /\ 0 \in 0..Len(labels)
    <3>1. Len(labels) \in Nat
      BY KnownIs
    <3>2. WrittenUpTo(labels, 0) = <<>> /\ DottedUpTo(labels, 0) = <<>>
      BY UpToIs
    <3> QED BY <3>1, <3>2
  <2>2. Past1(labels, 0) = nameAt
    BY <1>2, <2>1 DEF Past1
  <2> QED BY <1>1, <2>1, <2>2 DEF InPlace
<1>5. dotted \in Seq(Names!Octets) /\ Len(dotted) < OutCap
  BY <1>1, <1>2
<1>6. offset \in 0..Names!Size /\ hops \in 0..MaxJumps /\ nameEnd \in 0..Names!Size
  BY <1>1, <1>2
<1> QED BY <1>1, <1>3, <1>4, <1>5, <1>6 DEF NamesInv

LEMMA NamesNext ==
  ASSUME Names!Parameters, NamesInv, [Names!Next]_(Names!vars)
  PROVE  NamesInv'
<1>1. CASE UNCHANGED Names!vars
  <2>1. /\ pkt' = pkt /\ nameAt' = nameAt /\ offset' = offset /\ hops' = hops
        /\ nameEnd' = nameEnd /\ dotted' = dotted /\ nameState' = nameState
    BY <1>1 DEF Names!vars
  <2> QED BY <2>1, NameStays DEF NamesInv, Walking, EndIs, InPlace
<1>2. CASE Names!Next
  <2>0. nameState = "reading" /\ pkt' = pkt /\ nameAt' = nameAt
    BY <1>2, TurnIs
  <2>a. /\ Names!Size' = Names!Size /\ Packed' /\ Names!Reached' = Names!Reached
        /\ Names!EndOf' = Names!EndOf
        /\ \A labels : LiesHere(labels)' <=> LiesHere(labels)
        /\ \A labels, k : Past1(labels, k)' = Past1(labels, k)
    BY <2>0, NameStays DEF NamesInv
  <2>b. /\ Names!Size \in Nat /\ nameAt \in Nat /\ offset \in Nat /\ hops \in Nat
        /\ MaxJumps \in Nat /\ nameEnd \in Nat /\ nameEnd <= Names!Size /\ offset <= Names!Size
        /\ dotted \in Seq(Names!Octets) /\ Len(dotted) < OutCap /\ Packed
    BY ByteIs DEF NamesInv, Packed, Names!Parameters
  <2>c. ASSUME NEW labels \in WrittenNames, LiesHere(labels)
        PROVE  \/ AtEnd /\ dotted = Names!Dotted(labels)
               \/ /\ AtLabel /\ ~AtEnd
                  /\ \E k \in 0..Len(labels) : /\ offset + 1 + Names!Byte(offset) = Past1(labels, k)
                                               /\ Longer = DottedUpTo(labels, k)
    BY <2>0, <2>c, KnownAhead
  <2>d. ASSUME offset < Names!Size PROVE offset \in 0..(Names!Size - 1) /\ Names!Byte(offset) \in Nat
    <3>1. offset \in 0..(Names!Size - 1)
      BY <2>b, <2>d
    <3> QED BY <2>b, <3>1, ByteIs
  <2>1. CASE /\ ~AtEnd /\ ~AtLabel
             /\ nameState' = "bad" /\ UNCHANGED <<offset, hops, nameEnd, dotted>>
    <3>1. Walking' /\ EndIs'
      <4>1. Walking'
        BY <2>1 DEF Walking
      <4>2. EndIs'
        BY <2>0, <2>1, <2>a, Zenon DEF EndIs, NamesInv
      <4> QED BY <4>1, <4>2
    <3>2. ASSUME NEW labels \in WrittenNames PROVE InPlace(labels)'
      BY <2>1, <2>a, <2>c DEF InPlace
    <3> QED BY <2>1, <2>a, <3>1, <3>2 DEF NamesInv
  <2>2. CASE /\ AtPointer
             /\ offset' = Names!Target(offset) /\ hops' = hops + 1
             /\ nameEnd' = IF nameEnd = 0 THEN offset + 2 ELSE nameEnd
             /\ UNCHANGED <<dotted, nameState>>
    <3>0. offset + 1 < Names!Size /\ offset < Names!Size /\ Names!Byte(offset) >= 192
      BY <2>2, <2>b DEF AtPointer
    <3>1. Names!Target(offset) \in 0..(offset - 1)
      <4>1. Names!Byte(offset) \in Nat
        BY <2>d, <3>0
      <4>2. offset + 1 \in 0..(Names!Size - 1)
        BY <2>b, <3>0
      <4>3. Names!Byte(offset + 1) \in Nat
        BY <2>b, <4>2, ByteIs
      <4>4. Names!Target(offset) \in Nat
        BY <3>0, <4>1, <4>3 DEF Names!Target, Names!Pointer
      <4> QED BY <2>2, <2>b, <4>4 DEF AtPointer
    <3>2. nameEnd' # 0
      BY <2>2, <2>b
    <3>3. Walking' /\ EndIs'
      <4>1. CASE nameEnd = 0
        <5>1. Names!EndOf = offset + 2 /\ nameAt <= offset
          <6>1. Names!Byte(offset) # 0
            BY <2>d, <3>0
          <6> QED BY <2>0, <3>0, <4>1, <6>1, EndHere
        <5>2. nameEnd' = offset + 2 /\ nameEnd' > nameAt
          BY <2>2, <2>b, <4>1, <5>1
        <5>3. nameEnd' = Names!EndOf' /\ nameEnd' > nameAt'
          BY <2>0, <2>a, <5>1, <5>2
        <5> QED BY <3>2, <5>3, Zenon DEF Walking, EndIs, Names!None
      <4>2. CASE nameEnd # 0
        <5>1. nameEnd' = nameEnd /\ nameEnd = Names!EndOf /\ nameEnd > nameAt
          BY <2>2, <4>2 DEF NamesInv, EndIs, Names!None
        <5> QED BY <2>0, <2>a, <3>2, <5>1 DEF Walking, EndIs, Names!None
      <4> QED BY <4>1, <4>2
    <3>4. ASSUME NEW labels \in WrittenNames PROVE InPlace(labels)'
      <4>1. ~AtEnd /\ ~AtLabel
        BY <2>d, <3>0 DEF AtEnd, AtLabel
      <4> QED BY <2>a, <2>c, <4>1 DEF InPlace
    <3>5. offset' \in 0..Names!Size /\ hops' \in 0..MaxJumps /\ nameEnd' \in 0..Names!Size
      BY <2>2, <2>b, <3>0, <3>1 DEF AtPointer
    <3> QED BY <2>0, <2>2, <2>a, <2>b, <3>3, <3>4, <3>5 DEF NamesInv
  <2>3. CASE /\ AtEnd /\ nameState' = "read"
             /\ nameEnd' = IF nameEnd = 0 THEN offset + 1 ELSE nameEnd
             /\ UNCHANGED <<offset, hops, dotted>>
    <3>0. offset < Names!Size /\ Names!Byte(offset) = 0
      BY <2>3 DEF AtEnd
    <3>2. nameEnd' # 0
      BY <2>3, <2>b
    <3>3. Walking' /\ EndIs'
      <4>1. CASE nameEnd = 0
        <5>1. Names!EndOf = offset + 1 /\ nameAt <= offset
          BY <2>0, <3>0, <4>1, EndHere
        <5>2. nameEnd' = offset + 1 /\ nameEnd' > nameAt
          BY <2>3, <2>b, <4>1, <5>1
        <5>3. nameEnd' = Names!EndOf' /\ nameEnd' > nameAt'
          BY <2>0, <2>a, <5>1, <5>2
        <5> QED BY <3>2, <5>3, Zenon DEF Walking, EndIs, Names!None
      <4>2. CASE nameEnd # 0
        <5>1. nameEnd' = nameEnd /\ nameEnd = Names!EndOf /\ nameEnd > nameAt
          BY <2>3, <4>2 DEF NamesInv, EndIs, Names!None
        <5> QED BY <2>0, <2>a, <3>2, <5>1 DEF Walking, EndIs, Names!None
      <4> QED BY <4>1, <4>2
    <3>4. ASSUME NEW labels \in WrittenNames PROVE InPlace(labels)'
      <4>1. LiesHere(labels) => dotted = Names!Dotted(labels)
        BY <2>3, <2>c
      <4>2. Names!Dotted(labels)' = Names!Dotted(labels)
        OBVIOUS
      <4> QED BY <2>3, <2>a, <4>1, <4>2 DEF InPlace
    <3>5. offset' \in 0..Names!Size /\ hops' \in 0..MaxJumps /\ nameEnd' \in 0..Names!Size
      BY <2>3, <2>b, <3>0 DEF NamesInv
    <3> QED BY <2>3, <2>a, <2>b, <3>2, <3>3, <3>4, <3>5 DEF NamesInv, Names!None
  <2>4. CASE /\ AtLabel /\ dotted' = Longer /\ offset' = offset + 1 + Names!Byte(offset)
             /\ UNCHANGED <<hops, nameEnd, nameState>>
    <3>0. /\ offset < Names!Size /\ 1 <= Names!Byte(offset) /\ Names!Byte(offset) <= 63
          /\ offset + 1 + Names!Byte(offset) <= Names!Size /\ Len(Longer) < OutCap
          /\ Names!Byte(offset) \in Nat
      BY <2>4, <2>d DEF AtLabel
    <3>1. offset' \in 0..Names!Size /\ offset' \in Nat
      BY <2>4, <2>b, <3>0
    <3>2. Longer \in Seq(Names!Octets)
      <4>1. PICK l : l \in Seq(Names!Octets) /\ l = Names!Label(offset)
        <5>1. pkt \in Seq(Names!Octets) /\ Names!Size = Len(pkt)
          BY <2>b, ByteIs DEF Names!Size
        <5>2. /\ offset + 2 \in Nat /\ offset + 1 + Names!Byte(offset) \in Nat /\ 1 <= offset + 2
              /\ offset + 2 <= (offset + 1 + Names!Byte(offset)) + 1
              /\ offset + 1 + Names!Byte(offset) <= Len(pkt)
          BY <2>b, <3>0, <5>1
        <5> QED BY <5>1, <5>2, PartIs DEF Names!Label
      <4>2. PICK d : d \in Seq(Names!Octets) /\ d = IF dotted = <<>> THEN <<>> ELSE Append(dotted, Names!Dot)
        <5>1. Names!Dot \in Names!Octets
          BY DEF Names!Dot, Names!Octets
        <5>2. Append(dotted, Names!Dot) \in Seq(Names!Octets) /\ <<>> \in Seq(Names!Octets)
          BY <2>b, <5>1, AppendProperties
        <5> QED BY <5>2
      <4>3. d \o l \in Seq(Names!Octets)
        BY <4>1, <4>2, ConcatProperties
      <4> QED BY <4>1, <4>2, <4>3, Zenon DEF Longer
    <3>3. Walking'
      <4>1. CASE nameEnd # 0
        BY <2>4, <4>1 DEF Walking, Names!None
      <4>2. CASE nameEnd = 0
        <5>1. PICK k \in 0..(offset - nameAt) : offset = Names!Reached[k] /\ nameAt <= offset
          BY <2>0, <4>2 DEF NamesInv, Walking, Names!None
        <5>2. k + 1 \in 1..Names!Size /\ (k + 1) - 1 = k /\ k + 1 \in 0..(offset' - nameAt) /\ nameAt <= offset'
          <6>1. PICK n : n \in Nat /\ n = Names!Byte(offset) /\ 1 <= n /\ offset + 1 + n <= Names!Size
            BY <3>0
          <6>2. offset' = offset + 1 + n
            BY <2>4, <6>1
          <6> QED BY <2>b, <5>1, <6>1, <6>2
        <5>3. Names!Reached[k + 1] = Names!Next1(Names!Reached[k])
          BY <2>b, <5>2, ReachedIs
        <5>4. Names!Next1(offset) = offset + 1 + Names!Byte(offset)
          BY <2>b, <3>0 DEF Names!Next1, Names!Pointer
        <5>5. offset' = Names!Reached[k + 1]
          BY <2>4, <5>1, <5>3, <5>4
        <5> QED BY <2>0, <2>a, <5>2, <5>5 DEF Walking
      <4> QED BY <4>1, <4>2
    <3>4. EndIs'
      BY <2>0, <2>4, <2>a DEF EndIs, NamesInv
    <3>5. ASSUME NEW labels \in WrittenNames PROVE InPlace(labels)'
      <4>1. ~AtEnd
        BY <3>0 DEF AtEnd
      <4>2. LiesHere(labels) =>
              \E k \in 0..Len(labels) : offset' = Past1(labels, k) /\ dotted' = DottedUpTo(labels, k)
        BY <2>4, <2>c, <4>1
      <4> QED BY <2>0, <2>4, <2>a, <4>2 DEF InPlace
    <3> QED BY <2>0, <2>4, <2>a, <2>b, <3>0, <3>1, <3>2, <3>3, <3>4, <3>5 DEF NamesInv
  <2> QED BY <1>2, <2>1, <2>2, <2>3, <2>4, TurnIs
<1> QED BY <1>1, <1>2

\* A name ends where its own bytes do and what was written is read (read_name).
LEMMA NamesShows ==
  ASSUME Names!Parameters, NamesInv
  PROVE  Names!TypeOK /\ Names!NamesAreRead
<1>1. Names!TypeOK
  BY DEF NamesInv, Packed, Names!TypeOK
<1>2. Names!EndsInPlace
  BY DEF NamesInv, EndIs, Names!EndsInPlace
<1>3. Names!ReadsWritten
  BY DEF NamesInv, InPlace, LiesHere, Names!ReadsWritten
<1> QED BY <1>1, <1>2, <1>3 DEF Names!NamesAreRead

-----------------------------------------------------------------------------
(* Frames: what is left of a sequence.                                     *)

From(s, p) == SubSeq(s, p + 1, Len(s))

LEMMA FromIs ==
  ASSUME NEW S, NEW s \in Seq(S), NEW p \in 0..Len(s)
  PROVE  /\ From(s, p) \in Seq(S) /\ Len(From(s, p)) = Len(s) - p
         /\ \A j \in 1..(Len(s) - p) : From(s, p)[j] = s[p + j]
BY DEF From

\* What is left once more has been taken.
LEMMA FromFrom ==
  ASSUME NEW S, NEW s \in Seq(S), NEW p \in 0..Len(s), NEW q \in 0..(Len(s) - p)
  PROVE  From(From(s, p), q) = From(s, p + q)
<1> DEFINE t == From(s, p)  u == From(t, q)  v == From(s, p + q)
<1>0. Len(s) \in Nat /\ p \in Nat /\ q \in Nat
  OBVIOUS
<1>1. t \in Seq(S) /\ Len(t) = Len(s) - p /\ \A j \in 1..(Len(s) - p) : t[j] = s[p + j]
  BY FromIs
<1>3. /\ v \in Seq(S) /\ Len(v) = Len(s) - (p + q)
      /\ \A j \in 1..(Len(s) - (p + q)) : v[j] = s[p + q + j]
  <2>1. p + q \in 0..Len(s)
    OBVIOUS
  <2> QED BY <2>1, FromIs
<1> HIDE DEF t, v
<1>2. u \in Seq(S) /\ Len(u) = Len(t) - q /\ \A j \in 1..(Len(t) - q) : u[j] = t[q + j]
  <2>1. q \in 0..Len(t)
    BY <1>1
  <2> QED BY <1>1, <2>1, FromIs
<1> HIDE DEF u
<1>4. Len(u) = Len(v)
  BY <1>0, <1>1, <1>2, <1>3
<1>5. ASSUME NEW j \in 1..Len(u) PROVE u[j] = v[j]
  <2>1. j \in 1..(Len(t) - q) /\ q + j \in 1..(Len(s) - p) /\ j \in 1..(Len(s) - (p + q)) /\ p + (q + j) = p + q + j
    BY <1>0, <1>1, <1>2, <1>3, <1>4
  <2>2. u[j] = t[q + j] /\ t[q + j] = s[p + (q + j)] /\ v[j] = s[p + q + j]
    BY <1>1, <1>2, <1>3, <2>1
  <2> QED BY <2>1, <2>2
<1>6. u = v
  BY <1>2, <1>3, <1>4, <1>5, SeqEqual
<1> QED BY <1>6 DEF u, v, t

\* What is left of a part and then something.
LEMMA FromConcat ==
  ASSUME NEW S, NEW s \in Seq(S), NEW t \in Seq(S), NEW p \in 0..Len(s)
  PROVE  From(s \o t, p) = From(s, p) \o t
<1> DEFINE a == From(s, p)  b == s \o t  c == a \o t  d == From(b, p)
<1>0. Len(s) \in Nat /\ Len(t) \in Nat /\ p \in Nat /\ p <= Len(s)
  OBVIOUS
<1>1. a \in Seq(S) /\ Len(a) = Len(s) - p /\ \A j \in 1..(Len(s) - p) : a[j] = s[p + j]
  BY FromIs
<1>2. /\ b \in Seq(S) /\ Len(b) = Len(s) + Len(t)
      /\ \A i \in 1..Len(s) : b[i] = s[i]
      /\ \A i \in 1..Len(t) : b[Len(s) + i] = t[i]
  BY ConcatProperties
<1> HIDE DEF a, b
<1>3. /\ c \in Seq(S) /\ Len(c) = Len(a) + Len(t)
      /\ \A i \in 1..Len(a) : c[i] = a[i]
      /\ \A i \in 1..Len(t) : c[Len(a) + i] = t[i]
  <2>1. a \in Seq(S)
    BY <1>1
  <2> QED BY <2>1, ConcatProperties
<1>4. d \in Seq(S) /\ Len(d) = Len(b) - p /\ \A j \in 1..(Len(b) - p) : d[j] = b[p + j]
  <2>1. p \in 0..Len(b)
    BY <1>0, <1>2
  <2> QED BY <1>2, <2>1, FromIs
<1> HIDE DEF c, d
<1>5. Len(c) = Len(d)
  BY <1>0, <1>1, <1>2, <1>3, <1>4
<1>6. ASSUME NEW j \in 1..Len(d) PROVE d[j] = c[j]
  <2>1. j \in 1..(Len(b) - p) /\ j \in Nat
    BY <1>0, <1>2, <1>4
  <2>2. d[j] = b[p + j]
    BY <1>4, <2>1
  <2>3. CASE j <= Len(a)
    <3>1. j \in 1..Len(a) /\ j \in 1..(Len(s) - p) /\ p + j \in 1..Len(s)
      BY <1>0, <1>1, <2>1, <2>3
    <3>2. c[j] = a[j] /\ a[j] = s[p + j] /\ b[p + j] = s[p + j]
      BY <1>1, <1>2, <1>3, <3>1
    <3> QED BY <2>2, <3>2
  <2>4. CASE j > Len(a)
    <3> DEFINE i == j - Len(a)
    <3>1. i \in 1..Len(t) /\ Len(a) + i = j /\ Len(s) + i = p + j
      BY <1>0, <1>1, <1>2, <2>1, <2>4
    <3> HIDE DEF i
    <3>2. c[Len(a) + i] = t[i] /\ b[Len(s) + i] = t[i]
      BY <1>2, <1>3, <3>1
    <3> QED BY <2>2, <3>1, <3>2
  <2> QED BY <1>0, <1>1, <2>1, <2>3, <2>4
<1>7. c = d
  BY <1>3, <1>4, <1>5, <1>6, SeqEqual
<1> QED BY <1>7 DEF a, b, c, d

LEMMA FromPast ==
  ASSUME NEW S, NEW s \in Seq(S), NEW t \in Seq(S)
  PROVE  From(s \o t, Len(s)) = t
<1>0. Len(s) \in 0..Len(s)
  OBVIOUS
<1>1. From(s, Len(s)) = <<>>
  <2>1. From(s, Len(s)) \in Seq(S) /\ Len(From(s, Len(s))) = Len(s) - Len(s)
    BY <1>0, FromIs
  <2>2. Len(From(s, Len(s))) = 0
    BY <2>1
  <2> QED BY <2>1, <2>2, EmptySeq, Zenon
<1>2. <<>> \o t = t
  BY ConcatEmptySeq
<1> QED BY <1>0, <1>1, <1>2, FromConcat, Zenon

LEMMA FromNothing ==
  ASSUME NEW S, NEW s \in Seq(S)
  PROVE  From(s, 0) = s
<1>1. <<>> \o s = s /\ <<>> \in Seq(S) /\ Len(<<>>) = 0
  BY ConcatEmptySeq
<1> QED BY <1>1, FromPast, Zenon

\* What is read and what is left make the whole.
LEMMA Cut ==
  ASSUME NEW S, NEW s \in Seq(S), NEW k \in 0..Len(s)
  PROVE  /\ SubSeq(s, 1, k) \in Seq(S) /\ Len(SubSeq(s, 1, k)) = k
         /\ From(s, k) \in Seq(S) /\ SubSeq(s, 1, k) \o From(s, k) = s
<1> DEFINE a == SubSeq(s, 1, k)  b == From(s, k)  c == a \o b
<1>0. k \in Nat /\ Len(s) \in Nat /\ k <= Len(s)
  OBVIOUS
<1>1. a \in Seq(S) /\ Len(a) = k /\ \A j \in 1..k : a[j] = s[j]
  OBVIOUS
<1>2. b \in Seq(S) /\ Len(b) = Len(s) - k /\ \A j \in 1..(Len(s) - k) : b[j] = s[k + j]
  BY FromIs
<1> HIDE DEF a, b
<1>3. /\ c \in Seq(S) /\ Len(c) = Len(a) + Len(b)
      /\ \A i \in 1..Len(a) : c[i] = a[i]
      /\ \A i \in 1..Len(b) : c[Len(a) + i] = b[i]
  BY <1>1, <1>2, ConcatProperties
<1> HIDE DEF c
<1>4. ASSUME NEW j \in 1..Len(s) PROVE c[j] = s[j]
  <2>1. CASE j <= k
    <3>1. j \in 1..k /\ j \in 1..Len(a)
      BY <1>0, <1>1, <2>1
    <3> QED BY <1>1, <1>3, <3>1
  <2>2. CASE j > k
    <3> DEFINE i == j - k
    <3>1. i \in 1..(Len(s) - k) /\ i \in 1..Len(b) /\ k + i = j
      BY <1>0, <1>2, <2>2
    <3> HIDE DEF i
    <3>2. c[k + i] = b[i] /\ b[i] = s[k + i]
      BY <1>1, <1>2, <1>3, <3>1
    <3> QED BY <3>1, <3>2
  <2> QED BY <1>0, <2>1, <2>2
<1>5. Len(c) = Len(s)
  BY <1>0, <1>1, <1>2, <1>3
<1>6. c = s
  BY <1>3, <1>4, <1>5, SeqEqual
<1> QED BY <1>1, <1>2, <1>6 DEF a, b, c

-----------------------------------------------------------------------------
(* Frames: what is encoded is decoded.                                     *)

Header(payload) == IF Len(payload) <= Short THEN 2 ELSE 3
IsCode(c, op, payload) ==
  /\ c \in Seq(Nat) /\ Len(c) = Header(payload) + Len(payload)
  /\ c[1] = op /\ c[Header(payload)] = Len(payload)
  /\ c[2] = IF Len(payload) <= Short THEN Len(payload) ELSE 126
  /\ \A j \in 1..Len(payload) : c[Header(payload) + j] = payload[j]

LEMMA EncodedIs ==
  ASSUME Frames!Parameters, NEW op \in Nat, NEW payload \in Seq(Nat)
  PROVE  /\ Frames!Encoded(op, payload) \in Seq(Nat)
         /\ IsCode(Frames!Encoded(op, payload), op, payload)
<1> DEFINE c == Frames!Encoded(op, payload)
           n == Len(payload)
           h == IF n <= Short THEN 2 ELSE 3
<1>0. n \in Nat /\ Short \in Nat
  BY DEF Frames!Parameters
<1>1. PICK head : head = <<op>> \o (IF n <= Short THEN <<n>> ELSE <<126, n>>)
  OBVIOUS
<1>2. /\ head \in Seq(Nat) /\ Len(head) = h
      /\ head[1] = op /\ head[h] = n /\ head[2] = IF n <= Short THEN n ELSE 126
  <2>1. CASE n <= Short
    BY <1>0, <1>1, <2>1
  <2>2. CASE ~(n <= Short)
    BY <1>0, <1>1, <2>2
  <2> QED BY <2>1, <2>2
<1>3. c = head \o payload
  BY <1>1, Zenon DEF Frames!Encoded, Frames!Extended
<1> HIDE DEF c, n
<1>4. /\ c \in Seq(Nat) /\ Len(c) = Len(head) + Len(payload)
      /\ \A i \in 1..Len(head) : c[i] = head[i]
      /\ \A i \in 1..Len(payload) : c[Len(head) + i] = payload[i]
  <2>1. head \in Seq(Nat)
    BY <1>2
  <2> QED BY <1>3, <2>1, ConcatProperties
<1>5. 1 \in 1..Len(head) /\ 2 \in 1..Len(head) /\ h \in 1..Len(head)
  BY <1>2
<1>6. c[1] = op /\ c[h] = n /\ c[2] = (IF n <= Short THEN n ELSE 126) /\ Len(c) = h + n
  BY <1>2, <1>4, <1>5 DEF n
<1> HIDE DEF h
<1>7. \A j \in 1..Len(payload) : c[h + j] = payload[j]
  BY <1>2, <1>4
<1> QED BY <1>4, <1>6, <1>7, Zenon DEF IsCode, Header, c, n, h

Heads(a, x) == \A i \in 1..Len(a) : x[i] = a[i]

\* A frame that is all there at the front is read as it was sent.
LEMMA FrameIsRead ==
  ASSUME Frames!Parameters, NEW op \in Nat, NEW payload \in Seq(Nat), NEW b \in Seq(Nat), NEW x,
         Heads(b, x), Heads(Frames!Encoded(op, payload), x), Frames!Whole(b)
  PROVE  /\ b[1] = op /\ Frames!FrameLen(b) = Len(Frames!Encoded(op, payload))
         /\ Len(Frames!Encoded(op, payload)) <= Len(b)
         /\ Frames!Payload(b) = payload
<1> DEFINE c == Frames!Encoded(op, payload)
           n == Len(payload)
           h == IF n <= Short THEN 2 ELSE 3
<1>0. n \in Nat /\ Short \in Nat /\ Short < 126 /\ Len(b) \in Nat
  BY DEF Frames!Parameters, Frames!Extended
<1>1. /\ c \in Seq(Nat) /\ Len(c) = h + n /\ c[1] = op /\ c[h] = n
      /\ c[2] = (IF n <= Short THEN n ELSE 126)
      /\ \A j \in 1..n : c[h + j] = payload[j]
  <2>1. IsCode(c, op, payload)
    BY EncodedIs
  <2> HIDE DEF c
  <2> QED BY <2>1, Zenon DEF IsCode, Header
<1>h. (h = 2 /\ n <= Short) \/ (h = 3 /\ ~(n <= Short))
  OBVIOUS
<1>2. \A i \in 1..Len(b) : x[i] = b[i]
  BY Zenon DEF Heads
<1>3. \A i \in 1..Len(c) : x[i] = c[i]
  BY Zenon DEF Heads
<1> HIDE DEF c, n, h
<1>4. Len(b) >= 2 /\ Len(b) >= Frames!HeadLen(b) /\ Len(b) >= Frames!FrameLen(b)
  BY DEF Frames!Whole, Frames!HasHead
<1>5. b[1] = op /\ b[2] = c[2]
  <2>1. 1 \in 1..Len(b) /\ 2 \in 1..Len(b) /\ 1 \in 1..Len(c) /\ 2 \in 1..Len(c)
    <3>1. Len(b) >= 2
      BY <1>4
    <3>2. Len(c) \in Nat /\ Len(c) >= 2
      BY <1>0, <1>1, <1>h
    <3> QED BY <1>0, <3>1, <3>2
  <2>2. b[1] = x[1] /\ b[2] = x[2] /\ x[1] = c[1] /\ x[2] = c[2]
    BY <1>2, <1>3, <2>1, Zenon
  <2> QED BY <1>1, <2>2
<1>6. Frames!HeadLen(b) = h
  <2>1. CASE n <= Short
    BY <1>0, <1>1, <1>5, <1>h, <2>1 DEF Frames!HeadLen, Frames!Extended
  <2>2. CASE ~(n <= Short)
    BY <1>1, <1>5, <1>h, <2>2 DEF Frames!HeadLen, Frames!Extended
  <2> QED BY <2>1, <2>2
<1>7. b[h] = n
  <2>1. h \in 1..Len(b) /\ h \in 1..Len(c)
    <3>1. Len(b) >= h
      BY <1>4, <1>6
    <3>2. Len(c) \in Nat /\ Len(c) >= h
      BY <1>0, <1>1, <1>h
    <3> QED BY <1>0, <1>h, <3>1, <3>2
  <2>2. b[h] = x[h] /\ x[h] = c[h]
    BY <1>2, <1>3, <2>1, Zenon
  <2> QED BY <1>1, <2>2
<1>8. Frames!FrameLen(b) = h + n
  BY <1>6, <1>7 DEF Frames!FrameLen, Frames!PayloadLen
<1>9. Frames!Payload(b) = payload
  <2> DEFINE s == SubSeq(b, h + 1, h + n)
  <2>1. Frames!Payload(b) = s
    BY <1>6, <1>8 DEF Frames!Payload
  <2>2. h + n <= Len(b) /\ h \in Nat
    BY <1>4, <1>8, <1>h
  <2>3. s \in Seq(Nat) /\ Len(s) = n /\ \A j \in 1..n : s[j] = b[h + j]
    <3>1. /\ h + 1 \in Nat /\ h + n \in Nat /\ 1 <= h + 1 /\ h + 1 <= (h + n) + 1
          /\ (h + n) - (h + 1) + 1 = n /\ \A j \in 1..n : (h + 1) + j - 1 = h + j
      BY <1>0, <2>2
    <3>2. /\ s \in Seq(Nat) /\ Len(s) = (h + n) - (h + 1) + 1
          /\ \A j \in 1..((h + n) - (h + 1) + 1) : s[j] = b[(h + 1) + j - 1]
      <4>1. h + 1 \in Nat /\ h + n \in Nat /\ 1 <= h + 1 /\ h + 1 <= (h + n) + 1 /\ h + n <= Len(b)
        BY <2>2, <3>1
      <4> HIDE DEF s
      <4> QED BY <4>1, PartIs, Zenon DEF s
    <3> HIDE DEF s
    <3> QED BY <3>1, <3>2
  <2> HIDE DEF s
  <2>4. ASSUME NEW j \in 1..n PROVE s[j] = payload[j]
    <3>1. h + j \in 1..Len(b) /\ h + j \in 1..Len(c)
      BY <1>0, <1>1, <2>2
    <3>2. b[h + j] = x[h + j] /\ x[h + j] = c[h + j]
      BY <1>2, <1>3, <3>1, Zenon
    <3>3. c[h + j] = payload[j] /\ s[j] = b[h + j]
      BY <1>1, <2>3
    <3> QED BY <3>2, <3>3
  <2>5. s = payload
    BY <2>3, <2>4, SeqEqual DEF n
  <2> QED BY <2>1, <2>5
<1> QED BY <1>1, <1>4, <1>5, <1>8, <1>9 DEF c

\* What the frames are on the wire, and what of them is handed out.
Codes(frames) == [i \in DOMAIN frames |-> Frames!Encoded(frames[i].op, frames[i].payload)]
Handed(frames) ==
  [i \in DOMAIN frames |-> IF frames[i].op = Frames!Bin THEN <<frames[i].payload>> ELSE <<>>]

LEMMA SentIs ==
  ASSUME Frames!Parameters, NEW frames \in Seq(Inbound)
  PROVE  /\ Codes(frames) \in Seq(Seq(Nat)) /\ Len(Codes(frames)) = Len(frames)
         /\ Handed(frames) \in Seq(Seq(Seq(Nat))) /\ Len(Handed(frames)) = Len(frames)
         /\ \A i \in 1..Len(frames) :
              /\ frames[i].op \in Nat /\ frames[i].payload \in Seq(Nat)
              /\ Codes(frames)[i] = Frames!Encoded(frames[i].op, frames[i].payload)
              /\ Handed(frames)[i] = IF frames[i].op = Frames!Bin THEN <<frames[i].payload>> ELSE <<>>
         /\ Frames!Messages(frames) = FlattenSeq(Handed(frames))
<1>1. DOMAIN frames = 1..Len(frames) /\ Len(frames) \in Nat
  OBVIOUS
<1>2. ASSUME NEW i \in 1..Len(frames)
      PROVE  /\ frames[i].op \in Nat /\ frames[i].payload \in Seq(Nat)
             /\ Frames!Encoded(frames[i].op, frames[i].payload) \in Seq(Nat)
             /\ <<frames[i].payload>> \in Seq(Seq(Nat))
  <2>1. frames[i] \in Inbound
    OBVIOUS
  <2>2. frames[i].op \in Nat /\ frames[i].payload \in Seq(Nat)
    BY <2>1 DEF Frames!Parameters
  <2>3. Frames!Encoded(frames[i].op, frames[i].payload) \in Seq(Nat)
    BY <2>2, EncodedIs
  <2> QED BY <2>2, <2>3, OfOne
<1>3. Codes(frames) \in [1..Len(frames) -> Seq(Nat)]
  BY <1>1, <1>2 DEF Codes
<1>4. Handed(frames) \in [1..Len(frames) -> Seq(Seq(Nat))]
  <2>1. <<>> \in Seq(Seq(Nat))
    OBVIOUS
  <2> QED BY <1>1, <1>2, <2>1 DEF Handed
<1>5. Frames!Messages(frames) = FlattenSeq(Handed(frames))
  BY Zenon DEF Frames!Messages, Handed
<1>6. \A i \in 1..Len(frames) :
        /\ Codes(frames)[i] = Frames!Encoded(frames[i].op, frames[i].payload)
        /\ Handed(frames)[i] = IF frames[i].op = Frames!Bin THEN <<frames[i].payload>> ELSE <<>>
  BY <1>1 DEF Codes, Handed
<1> QED BY <1>1, <1>2, <1>3, <1>4, <1>5, <1>6, ASequence

\* Where the part from ss[k + 1] on begins, and what follows ss[k + 1].
Ahead(S, ss, k, t) ==
  /\ t \in Seq(S)
  /\ From(FlattenSeq(ss), Len(Joined(ss)[k])) = ss[k + 1] \o t
  /\ From(FlattenSeq(ss), Len(Joined(ss)[k + 1])) = t

LEMMA JoinedAhead ==
  ASSUME NEW S, NEW ss \in Seq(Seq(S)), NEW k \in 0..(Len(ss) - 1)
  PROVE  \E t : Ahead(S, ss, k, t)
<1>0. /\ Len(ss) \in Nat /\ k \in 0..Len(ss) /\ k + 1 \in 1..Len(ss) /\ (k + 1) - 1 = k
      /\ k + 1 \in 0..Len(ss) /\ Len(ss) \in (k + 1)..Len(ss)
  OBVIOUS
<1>t. Joined(ss) \in [0..Len(ss) -> Seq(S)]
  BY JoinedIs
<1>1. \A i \in 1..Len(ss) : Joined(ss)[i] = Joined(ss)[i - 1] \o ss[i]
  BY JoinedIs
<1>2. PICK a : a = Joined(ss)[k]
  OBVIOUS
<1>3. PICK b : b = ss[k + 1]
  OBVIOUS
<1>4. PICK c : c = Joined(ss)[k + 1]
  OBVIOUS
<1>5. a \in Seq(S) /\ b \in Seq(S) /\ c \in Seq(S)
  <2>1. a \in Seq(S)
    BY <1>0, <1>t, <1>2
  <2>2. b \in Seq(S)
    BY <1>0, <1>3
  <2>3. c \in Seq(S)
    BY <1>0, <1>t, <1>4
  <2> QED BY <2>1, <2>2, <2>3
<1>6. c = a \o b
  BY <1>0, <1>1, <1>2, <1>3, <1>4, Zenon
<1>7. PICK t : t \in Seq(S) /\ Joined(ss)[Len(ss)] = Joined(ss)[k + 1] \o t
  <2>1. PICK m : m = k + 1
    OBVIOUS
  <2>2. m \in 0..Len(ss) /\ Len(ss) \in m..Len(ss)
    BY <1>0, <2>1
  <2>3. \E t \in Seq(S) : Joined(ss)[Len(ss)] = Joined(ss)[m] \o t
    BY <2>2, JoinedGrows
  <2> QED BY <2>1, <2>3, Zenon
<1>8. FlattenSeq(ss) = c \o t
  BY <1>4, <1>7, FlattenIs, Zenon
<1>9. b \o t \in Seq(S) /\ a \o (b \o t) = (a \o b) \o t
  <2>1. t \in Seq(S)
    BY <1>7
  <2>2. b \o t \in Seq(S)
    BY <1>5, <2>1, ConcatProperties
  <2>3. a \o (b \o t) = (a \o b) \o t
    BY <1>5, <2>1, ConcatAssociative, SMTT(40)
  <2> QED BY <2>2, <2>3
<1>10. FlattenSeq(ss) = a \o (b \o t)
  BY <1>6, <1>8, <1>9, Zenon
<1>11. From(FlattenSeq(ss), Len(c)) = t
  BY <1>5, <1>7, <1>8, FromPast, Zenon
<1>12. From(FlattenSeq(ss), Len(a)) = b \o t
  BY <1>5, <1>9, <1>10, FromPast, Zenon
<1> QED BY <1>2, <1>3, <1>4, <1>7, <1>11, <1>12, Zenon DEF Ahead

\* One more part changes nothing of what came before.
LEMMA JoinedBefore ==
  ASSUME NEW S, NEW ss \in Seq(Seq(S)), NEW tt \in Seq(Seq(S)), Len(tt) = Len(ss) + 1,
         \A i \in 1..Len(ss) : tt[i] = ss[i]
  PROVE  /\ \A k \in 0..Len(ss) : Joined(tt)[k] = Joined(ss)[k]
         /\ FlattenSeq(tt) = FlattenSeq(ss) \o tt[Len(tt)]
<1>0. Len(ss) \in Nat /\ Len(tt) \in 1..Len(tt) /\ Len(ss) \in 0..Len(ss) /\ Len(tt) - 1 = Len(ss)
  OBVIOUS
<1>1. ASSUME NEW k \in 0..Len(ss) PROVE Joined(tt)[k] = Joined(ss)[k]
  <2>1. k <= Len(tt) /\ \A i \in 1..k : ss[i] = tt[i]
    BY <1>0
  <2> QED BY <2>1, JoinedAlike
<1>2. Joined(tt)[Len(tt)] = Joined(tt)[Len(tt) - 1] \o tt[Len(tt)]
  BY <1>0, JoinedIs
<1>3. FlattenSeq(ss) = Joined(ss)[Len(ss)] /\ FlattenSeq(tt) = Joined(tt)[Len(tt)]
  BY FlattenIs
<1> QED BY <1>0, <1>1, <1>2, <1>3

\* One more frame is sent.
LEMMA SentMore ==
  ASSUME Frames!Parameters, NEW frames \in Seq(Inbound), NEW f \in Inbound, NEW more,
         more = Append(frames, f)
  PROVE  /\ more \in Seq(Inbound) /\ Len(more) = Len(frames) + 1
         /\ \A k \in 0..Len(frames) :
              /\ Joined(Codes(more))[k] = Joined(Codes(frames))[k]
              /\ Joined(Handed(more))[k] = Joined(Handed(frames))[k]
         /\ FlattenSeq(Codes(more)) = FlattenSeq(Codes(frames)) \o Frames!Encoded(f.op, f.payload)
<1>1. /\ more \in Seq(Inbound) /\ Len(more) = Len(frames) + 1 /\ Len(frames) \in Nat
      /\ \A i \in 1..Len(frames) : more[i] = frames[i]
      /\ more[Len(more)] = f
  BY AppendProperties
<1>2. /\ Codes(frames) \in Seq(Seq(Nat)) /\ Len(Codes(frames)) = Len(frames)
      /\ Handed(frames) \in Seq(Seq(Seq(Nat))) /\ Len(Handed(frames)) = Len(frames)
  BY SentIs
<1>3. /\ Codes(more) \in Seq(Seq(Nat)) /\ Len(Codes(more)) = Len(more)
      /\ Handed(more) \in Seq(Seq(Seq(Nat))) /\ Len(Handed(more)) = Len(more)
  BY <1>1, SentIs
<1>4. DOMAIN frames = 1..Len(frames) /\ DOMAIN more = 1..Len(more)
  BY <1>1
<1>5. \A i \in 1..Len(frames) : Codes(more)[i] = Codes(frames)[i] /\ Handed(more)[i] = Handed(frames)[i]
  BY <1>1, <1>4 DEF Codes, Handed
<1>6. Codes(more)[Len(more)] = Frames!Encoded(f.op, f.payload)
  BY <1>1, <1>4 DEF Codes
<1>7. /\ \A k \in 0..Len(frames) : Joined(Codes(more))[k] = Joined(Codes(frames))[k]
      /\ FlattenSeq(Codes(more)) = FlattenSeq(Codes(frames)) \o Codes(more)[Len(more)]
  <2>1. /\ Len(Codes(more)) = Len(Codes(frames)) + 1
        /\ \A i \in 1..Len(Codes(frames)) : Codes(more)[i] = Codes(frames)[i]
    BY <1>1, <1>2, <1>3, <1>5
  <2>2. PICK A : A = Codes(frames)
    OBVIOUS
  <2>3. PICK B : B = Codes(more)
    OBVIOUS
  <2>4. /\ A \in Seq(Seq(Nat)) /\ B \in Seq(Seq(Nat)) /\ Len(B) = Len(A) + 1
        /\ \A i \in 1..Len(A) : B[i] = A[i]
    BY <1>2, <1>3, <2>1, <2>2, <2>3, Zenon
  <2>5. (\A k \in 0..Len(A) : Joined(B)[k] = Joined(A)[k]) /\ FlattenSeq(B) = FlattenSeq(A) \o B[Len(B)]
    BY <2>4, JoinedBefore
  <2>6. Len(A) = Len(frames) /\ Len(B) = Len(more)
    BY <1>2, <1>3, <2>2, <2>3
  <2> QED BY <2>2, <2>3, <2>5, <2>6, Zenon
<1>8. \A k \in 0..Len(frames) : Joined(Handed(more))[k] = Joined(Handed(frames))[k]
  <2>1. /\ Len(Handed(more)) = Len(Handed(frames)) + 1
        /\ \A i \in 1..Len(Handed(frames)) : Handed(more)[i] = Handed(frames)[i]
    BY <1>1, <1>2, <1>3, <1>5
  <2>2. PICK A : A = Handed(frames)
    OBVIOUS
  <2>3. PICK B : B = Handed(more)
    OBVIOUS
  <2>4. /\ A \in Seq(Seq(Seq(Nat))) /\ B \in Seq(Seq(Seq(Nat))) /\ Len(B) = Len(A) + 1
        /\ \A i \in 1..Len(A) : B[i] = A[i]
    BY <1>2, <1>3, <2>1, <2>2, <2>3, Zenon
  <2>5. (\A k \in 0..Len(A) : Joined(B)[k] = Joined(A)[k]) /\ FlattenSeq(B) = FlattenSeq(A) \o B[Len(B)]
    BY <2>4, JoinedBefore
  <2>6. Len(A) = Len(frames) /\ Len(B) = Len(more)
    BY <1>2, <1>3, <2>2, <2>3
  <2> QED BY <2>2, <2>3, <2>5, <2>6, Zenon
<1> QED BY <1>1, <1>6, <1>7, <1>8, Zenon

-----------------------------------------------------------------------------
(* Frames: what leaves.                                                    *)

FramesOut ==
  /\ tx \in Seq(Nat) /\ received \in Seq(Nat) /\ queued \in Seq(Seq(Nat))
  /\ received \o tx = FlattenSeq(<<Frames!Request>> \o queued)

\* The socket takes a part of t.
LEMMA Flushes ==
  ASSUME NEW t \in Seq(Nat), received \in Seq(Nat), Frames!Flushed(t, TRUE)
  PROVE  /\ tx' \in Seq(Nat) /\ received' \in Seq(Nat) /\ received' \o tx' = received \o t
<1>1. PICK k \in 0..Len(t) : tx' = From(t, k) /\ received' = received \o SubSeq(t, 1, k)
  BY Zenon DEF Frames!Flushed, From
<1>2. PICK a : a = SubSeq(t, 1, k)
  OBVIOUS
<1>3. a \in Seq(Nat) /\ tx' \in Seq(Nat) /\ a \o tx' = t
  BY <1>1, <1>2, Cut, Zenon
<1>4. received' = received \o a
  BY <1>1, <1>2
<1>5. received \o a \in Seq(Nat)
  BY <1>3, ConcatProperties
<1>6. (received \o a) \o tx' = received \o (a \o tx')
  <2>1. a \in Seq(Nat) /\ tx' \in Seq(Nat)
    BY <1>3
  <2> QED BY <2>1, ConcatAssociative
<1> QED BY <1>3, <1>4, <1>5, <1>6, Zenon

LEMMA Request1 ==
  ASSUME NEW q \in Seq(Seq(Nat)), NEW e \in Seq(Nat)
  PROVE  /\ <<Frames!Request>> \o q \in Seq(Seq(Nat))
         /\ FlattenSeq(<<Frames!Request>> \o Append(q, e)) = FlattenSeq(<<Frames!Request>> \o q) \o e
         /\ FlattenSeq(<<Frames!Request>> \o <<>>) = Frames!Request /\ Frames!Request \in Seq(Nat)
<1>1. Frames!Request \in Seq(Nat)
  BY DEF Frames!Request
<1>2. PICK r : r = <<Frames!Request>>
  OBVIOUS
<1>3. r \in Seq(Seq(Nat)) /\ Len(r) = 1 /\ r[1] = Frames!Request
  BY <1>1, <1>2, OfOne
<1>4. r \o q \in Seq(Seq(Nat))
  BY <1>3, ConcatProperties
<1>5. r \o Append(q, e) = Append(r \o q, e)
  BY <1>3
<1>6. FlattenSeq(Append(r \o q, e)) = FlattenSeq(r \o q) \o e
  BY <1>4, FlattenAppend
<1>7. r \o <<>> = r
  BY <1>3, ConcatEmptySeq
<1>8. FlattenSeq(r) = Frames!Request
  <2>1. FlattenSeq(r) = Joined(r)[1] /\ Joined(r)[0] = <<>> /\ Joined(r)[1] = Joined(r)[0] \o r[1]
    <3>1. 1 \in 1..Len(r) /\ 1 - 1 = 0
      BY <1>3
    <3>2. FlattenSeq(r) = Joined(r)[Len(r)]
      BY <1>3, FlattenIs
    <3>3. Joined(r)[0] = <<>> /\ \A k \in 1..Len(r) : Joined(r)[k] = Joined(r)[k - 1] \o r[k]
      BY <1>3, JoinedIs
    <3>4. Joined(r)[1] = Joined(r)[1 - 1] \o r[1]
      BY <3>1, <3>3
    <3> QED BY <1>3, <3>1, <3>2, <3>3, <3>4
  <2>2. <<>> \o Frames!Request = Frames!Request
    BY <1>1, ConcatEmptySeq
  <2> QED BY <1>3, <2>1, <2>2, Zenon
<1> QED BY <1>1, <1>2, <1>4, <1>5, <1>6, <1>7, <1>8, Zenon

\* What is going out goes on, or a frame is begun when nothing is going out.
LEMMA OutKeeps ==
  ASSUME FramesOut,
         \/ UNCHANGED <<tx, queued, received>>
         \/ Frames!Flushed(tx, TRUE) /\ queued' = queued
         \/ /\ tx = <<>>
            /\ \E e \in Seq(Nat) : queued' = Append(queued, e) /\ Frames!Flushed(e, TRUE)
  PROVE  FramesOut'
<1>0. /\ tx \in Seq(Nat) /\ received \in Seq(Nat) /\ queued \in Seq(Seq(Nat))
      /\ received \o tx = FlattenSeq(<<Frames!Request>> \o queued)
  BY DEF FramesOut
<1>1. CASE UNCHANGED <<tx, queued, received>>
  <2>1. tx' = tx /\ queued' = queued /\ received' = received
    BY <1>1
  <2> QED BY <1>0, <2>1, Zenon DEF FramesOut
<1>2. CASE Frames!Flushed(tx, TRUE) /\ queued' = queued
  <2>1. tx' \in Seq(Nat) /\ received' \in Seq(Nat) /\ received' \o tx' = received \o tx
    BY <1>0, <1>2, Flushes, Zenon
  <2> QED BY <1>0, <1>2, <2>1, Zenon DEF FramesOut
<1>3. ASSUME tx = <<>>, NEW e \in Seq(Nat), queued' = Append(queued, e), Frames!Flushed(e, TRUE)
      PROVE  FramesOut'
  <2>1. tx' \in Seq(Nat) /\ received' \in Seq(Nat) /\ received' \o tx' = received \o e
    BY <1>0, <1>3, Flushes, Zenon
  <2>2. received \o tx = received
    BY <1>0, <1>3, ConcatEmptySeq
  <2>3. FlattenSeq(<<Frames!Request>> \o queued') = FlattenSeq(<<Frames!Request>> \o queued) \o e
    BY <1>0, <1>3, Request1, Zenon
  <2>4. queued' \in Seq(Seq(Nat))
    BY <1>0, <1>3, AppendProperties
  <2> QED BY <1>0, <2>1, <2>2, <2>3, <2>4, Zenon DEF FramesOut
<1> QED BY <1>1, <1>2, <1>3

-----------------------------------------------------------------------------
(* Frames: what arrives.                                                   *)

Left == From(ws.rx, ws.pending) \o wire.bytes
HandedUpTo(k) == got = Joined(Handed(sent))[k]
Arrived(k) ==
  /\ HandedUpTo(k)
  /\ Left = From(FlattenSeq(Codes(sent)), Len(Joined(Codes(sent))[k]))

\* The peer has accepted the upgrade, and then sent frames.
Accepts == Left = Frames!Accepted \o FlattenSeq(Codes(sent))
Asking ==
  /\ ws.pending = 0 /\ got = <<>>
  /\ Accepts \/ (sent = <<>> /\ (Left = <<>> \/ Left \in Responses))

WsIs(w) ==
  /\ w \in [state : {"connecting", "upgrading", "open", "closed"}, rx : Seq(Nat), pending : Nat]
  /\ Len(w.rx) <= RxCap /\ w.pending <= Len(w.rx)
WireIs(w) == w \in [bytes : Seq(Nat), closed : BOOLEAN]

FramesIn ==
  /\ WsIs(ws) /\ WireIs(wire) /\ polling \in BOOLEAN /\ sent \in Seq(Inbound)
  /\ polling => ws.state = "open" /\ ws.pending = 0
  /\ \E k \in 0..Len(sent) : HandedUpTo(k)
  /\ ws.state \in {"connecting", "upgrading"} => Asking
  /\ ws.state = "open" => \E k \in 0..Len(sent) : Arrived(k)

LEMMA LeftIs ==
  ASSUME WsIs(ws), WireIs(wire)
  PROVE  /\ ws.rx \in Seq(Nat) /\ ws.pending \in 0..Len(ws.rx) /\ wire.bytes \in Seq(Nat)
         /\ From(ws.rx, ws.pending) \in Seq(Nat) /\ Left \in Seq(Nat)
         /\ Len(Left) = (Len(ws.rx) - ws.pending) + Len(wire.bytes)
         /\ ws.pending = 0 => Left = ws.rx \o wire.bytes
<1>1. ws.rx \in Seq(Nat) /\ ws.pending \in 0..Len(ws.rx) /\ wire.bytes \in Seq(Nat)
  <2>1. ws.rx \in Seq(Nat) /\ ws.pending \in Nat /\ ws.pending <= Len(ws.rx) /\ wire.bytes \in Seq(Nat)
    BY DEF WsIs, WireIs
  <2> QED BY <2>1
<1>2. PICK a : a = From(ws.rx, ws.pending)
  OBVIOUS
<1>3. a \in Seq(Nat) /\ Len(a) = Len(ws.rx) - ws.pending
  BY <1>1, <1>2, FromIs
<1>4. a \o wire.bytes \in Seq(Nat) /\ Len(a \o wire.bytes) = Len(a) + Len(wire.bytes)
  BY <1>1, <1>3, ConcatProperties
<1>5. ws.pending = 0 => a = ws.rx
  BY <1>1, <1>2, FromNothing
<1> QED BY <1>1, <1>2, <1>3, <1>4, <1>5, Zenon DEF Left

\* Nothing but a flag, or nothing.
LEMMA InStays ==
  ASSUME FramesIn, ws' = ws, WireIs(wire'), wire.bytes' = wire.bytes,
         polling' = polling \/ polling' = FALSE, sent' = sent, got' = got
  PROVE  FramesIn'
<1>1. Left' = Left
  BY DEF Left
<1>2. \A k : (HandedUpTo(k)' <=> HandedUpTo(k)) /\ (Arrived(k)' <=> Arrived(k))
  BY <1>1 DEF HandedUpTo, Arrived
<1>3. Asking' <=> Asking
  BY <1>1 DEF Asking, Accepts
<1>4. polling' \in BOOLEAN /\ (polling' => polling)
  <2>1. polling \in BOOLEAN
    BY DEF FramesIn
  <2>2. CASE polling' = polling
    BY <2>1, <2>2
  <2>3. CASE polling' = FALSE
    BY <2>3
  <2> QED BY <2>2, <2>3, Zenon
<1>5. \A k : HandedUpTo(k)' <=> HandedUpTo(k)
  BY <1>2
<1>6. /\ WsIs(ws)' /\ WireIs(wire)' /\ sent' \in Seq(Inbound)
      /\ polling' => ws'.state = "open" /\ ws'.pending = 0
  BY <1>4 DEF FramesIn
<1>7. /\ \E k \in 0..Len(sent') : HandedUpTo(k)'
      /\ ws'.state = "open" => \E k \in 0..Len(sent') : Arrived(k)'
      /\ ws'.state \in {"connecting", "upgrading"} => Asking'
  BY <1>2, <1>3 DEF FramesIn
<1> QED BY <1>4, <1>6, <1>7, Zenon DEF FramesIn

\* The connection is closed: nothing more is handed out.
LEMMA InEnds ==
  ASSUME FramesIn, WsIs(ws'), ws.state' = "closed", WireIs(wire'),
         polling' = FALSE, sent' = sent, got' = got
  PROVE  FramesIn'
<1>1. \A k : HandedUpTo(k)' <=> HandedUpTo(k)
  BY DEF HandedUpTo
<1> QED BY <1>1 DEF FramesIn

LEMMA FailIs ==
  ASSUME FramesIn, Frames!Fail
  PROVE  WsIs(ws') /\ ws.state' = "closed"
BY DEF FramesIn, WsIs, Frames!Fail

\* What is left stays, though some of it is read.
LEMMA Reading ==
  ASSUME WsIs(ws), WireIs(wire), NEW n \in 0..Len(wire.bytes), wire' = [wire EXCEPT !.bytes = From(@, n)]
  PROVE  /\ WireIs(wire') /\ wire.bytes' = From(wire.bytes, n)
         /\ From(ws.rx, ws.pending) \o Frames!Reads(n) \in Seq(Nat)
         /\ Len(From(ws.rx, ws.pending) \o Frames!Reads(n)) = (Len(ws.rx) - ws.pending) + n
         /\ (From(ws.rx, ws.pending) \o Frames!Reads(n)) \o wire.bytes' = Left
<1>0. /\ ws.rx \in Seq(Nat) /\ ws.pending \in 0..Len(ws.rx) /\ wire.bytes \in Seq(Nat)
  BY LeftIs
<1>1. PICK a : a = From(ws.rx, ws.pending)
  OBVIOUS
<1>2. a \in Seq(Nat) /\ Len(a) = Len(ws.rx) - ws.pending
  BY <1>0, <1>1, FromIs
<1>3. PICK b : b = wire.bytes
  OBVIOUS
<1>4. PICK r : r = Frames!Reads(n)
  OBVIOUS
<1>5. PICK l : l = From(b, n)
  OBVIOUS
<1>6. r \in Seq(Nat) /\ Len(r) = n /\ l \in Seq(Nat) /\ r \o l = b
  <2>1. b \in Seq(Nat) /\ n \in 0..Len(b)
    BY <1>0, <1>3
  <2>2. r = SubSeq(b, 1, n)
    BY <1>3, <1>4 DEF Frames!Reads
  <2> QED BY <1>5, <2>1, <2>2, Cut, Zenon
<1>7. WireIs(wire') /\ wire.bytes' = l
  BY <1>3, <1>5, <1>6 DEF WireIs
<1>8. a \o r \in Seq(Nat) /\ Len(a \o r) = Len(a) + Len(r)
  <2>1. r \in Seq(Nat)
    BY <1>6
  <2> QED BY <1>2, <2>1, ConcatProperties
<1>9. (a \o r) \o l = a \o (r \o l)
  <2>1. a \in Seq(Nat) /\ r \in Seq(Nat) /\ l \in Seq(Nat)
    BY <1>2, <1>6
  <2> QED BY <2>1, ConcatAssociative, SMTT(40)
<1>10. Left = a \o b
  BY <1>1, <1>3, Zenon DEF Left
<1>11. Len(a) + Len(r) = (Len(ws.rx) - ws.pending) + n
  BY <1>2, <1>6
<1> QED BY <1>1, <1>3, <1>4, <1>5, <1>6, <1>7, <1>8, <1>9, <1>10, <1>11, Zenon

LEMMA AcceptedIs ==
  /\ Frames!Accepted \in Seq(Nat) /\ Len(Frames!Accepted) = 2
  /\ Codes(<<>>) = <<>> /\ Handed(<<>>) = <<>> /\ FlattenSeq(<<>>) = <<>>
  /\ Joined(<<>>)[0] = <<>>
<1>1. Frames!Accepted \in Seq(Nat) /\ Len(Frames!Accepted) = 2
  BY DEF Frames!Accepted
<1>2. Codes(<<>>) = <<>> /\ Handed(<<>>) = <<>>
  BY DEF Codes, Handed
<1>3. <<>> \in Seq(Seq(Nat)) /\ Len(<<>>) = 0
  OBVIOUS
<1>4. Joined(<<>>)[0] = <<>>
  BY <1>3, JoinedIs
<1>5. FlattenSeq(<<>>) = <<>>
  BY <1>3, <1>4, FlattenIs
<1> QED BY <1>1, <1>2, <1>4, <1>5

\* Whatever was sent is a sequence of bytes on the wire.
LEMMA OnWireIs ==
  ASSUME Frames!Parameters, NEW frames \in Seq(Inbound)
  PROVE  /\ FlattenSeq(Codes(frames)) \in Seq(Nat)
         /\ Joined(Codes(frames))[0] = <<>> /\ Joined(Handed(frames))[0] = <<>>
         /\ \A k \in 0..Len(frames) :
              /\ Joined(Codes(frames))[k] \in Seq(Nat)
              /\ Len(Joined(Codes(frames))[k]) \in 0..Len(FlattenSeq(Codes(frames)))
<1>1. PICK c : c = Codes(frames)
  OBVIOUS
<1>2. PICK h : h = Handed(frames)
  OBVIOUS
<1>3. c \in Seq(Seq(Nat)) /\ Len(c) = Len(frames) /\ h \in Seq(Seq(Seq(Nat)))
  BY <1>1, <1>2, SentIs
<1>4. FlattenSeq(c) \in Seq(Nat)
  BY <1>3, FlattenType
<1>5. Joined(c) \in [0..Len(c) -> Seq(Nat)] /\ Joined(c)[0] = <<>> /\ Joined(h)[0] = <<>>
  BY <1>3, JoinedIs
<1>6. FlattenSeq(c) = Joined(c)[Len(c)]
  BY <1>3, FlattenIs
<1>7. ASSUME NEW k \in 0..Len(c)
      PROVE  Joined(c)[k] \in Seq(Nat) /\ Len(Joined(c)[k]) \in 0..Len(FlattenSeq(c))
  <2>1. PICK a : a \in Seq(Nat) /\ a = Joined(c)[k]
    BY <1>5
  <2>2. PICK m : m = Len(c) /\ m \in k..Len(c)
    BY <1>3
  <2>3. \E t \in Seq(Nat) : Joined(c)[m] = Joined(c)[k] \o t
    BY <1>3, <2>2, JoinedGrows
  <2>4. PICK t : t \in Seq(Nat) /\ Joined(c)[m] = Joined(c)[k] \o t
    BY <2>3, Zenon
  <2>5. Len(a \o t) = Len(a) + Len(t) /\ Len(a) \in Nat /\ Len(t) \in Nat
    BY <2>1, <2>4, ConcatProperties
  <2>6. FlattenSeq(c) = a \o t
    BY <1>6, <2>1, <2>2, <2>4, Zenon
  <2> QED BY <2>1, <2>5, <2>6
<1> QED BY <1>1, <1>2, <1>3, <1>4, <1>5, <1>7

\* What begins as an acceptance is one, and the frames after it.
LEMMA AcceptsNow ==
  ASSUME Frames!Parameters, WsIs(ws), WireIs(wire), sent \in Seq(Inbound), Asking,
         IsPrefix(Frames!Accepted, Left)
  PROVE  Accepts
<1>1. Left \in Seq(Nat)
  BY LeftIs
<1>2. CASE sent = <<>> /\ Left = <<>>
  <2>1. Len(Left) = 0 /\ Len(Frames!Accepted) = 2
    BY <1>2, AcceptedIs
  <2> QED BY <2>1 DEF IsPrefix
<1>3. CASE sent = <<>> /\ Left \in Responses
  <2>1. Left = Frames!Accepted
    BY <1>3 DEF Frames!Parameters
  <2>2. Frames!Accepted \o <<>> = Frames!Accepted
    BY AcceptedIs, ConcatEmptySeq
  <2> QED BY <1>3, <2>1, <2>2, AcceptedIs, Zenon DEF Accepts
<1> QED BY <1>2, <1>3 DEF Asking

LEMMA AnswersIn ==
  ASSUME Frames!Parameters, FramesIn, NEW r \in Responses, Frames!PeerAnswers(r)
  PROVE  FramesIn'
<1>0. /\ ws.state = "upgrading" /\ ws.rx = <<>> /\ wire.bytes = <<>>
      /\ wire' = [wire EXCEPT !.bytes = r]
      /\ ws' = ws /\ polling' = polling /\ sent' = sent /\ got' = got
  BY DEF Frames!PeerAnswers
<1>1. r \in Seq(Nat) /\ WsIs(ws) /\ WireIs(wire) /\ sent \in Seq(Inbound) /\ Asking
  BY <1>0 DEF Frames!Parameters, FramesIn
<1>2. WireIs(wire') /\ wire.bytes' = r
  BY <1>0, <1>1 DEF WireIs
<1>3. ws.pending = 0 /\ Len(ws.rx) = 0
  BY <1>0, <1>1 DEF Asking
<1>4. sent = <<>>
  <2>1. Left \in Seq(Nat) /\ Len(Left) = (Len(ws.rx) - ws.pending) + Len(wire.bytes)
    BY <1>1, LeftIs
  <2>2. Len(Left) = 0
    BY <1>0, <1>3, <2>1
  <2>3. ~Accepts
    <3>1. PICK s : s \in Seq(Nat) /\ s = FlattenSeq(Codes(sent))
      BY <1>1, OnWireIs
    <3>2. Len(Frames!Accepted \o s) = 2 + Len(s) /\ Len(s) \in Nat
      <4>1. PICK a : a = Frames!Accepted
        OBVIOUS
      <4>2. a \in Seq(Nat) /\ Len(a) = 2
        BY <4>1, AcceptedIs
      <4>3. Len(a \o s) = Len(a) + Len(s)
        BY <3>1, <4>2, ConcatProperties
      <4> QED BY <3>1, <4>1, <4>2, <4>3
    <3>3. Len(Frames!Accepted \o s) # 0
      BY <3>2
    <3> QED BY <2>2, <3>1, <3>3, Zenon DEF Accepts
  <2> QED BY <1>1, <2>3 DEF Asking
<1>5. Left' = r
  <2>1. Left' = From(ws.rx, ws.pending) \o r
    BY <1>0, <1>2 DEF Left
  <2>2. From(ws.rx, ws.pending) = <<>>
    <3>1. From(ws.rx, 0) = ws.rx
      BY <1>1, LeftIs, FromNothing
    <3> QED BY <1>0, <1>3, <3>1
  <2>3. <<>> \o r = r
    BY <1>1, ConcatEmptySeq
  <2> QED BY <2>1, <2>2, <2>3
<1>6. Asking'
  BY <1>0, <1>1, <1>4, <1>5 DEF Asking
<1>7. \E k \in 0..Len(sent) : HandedUpTo(k)'
  BY <1>0 DEF FramesIn, HandedUpTo
<1> QED BY <1>0, <1>1, <1>2, <1>6, <1>7 DEF FramesIn

LEMMA SendsIn ==
  ASSUME Frames!Parameters, FramesIn, NEW f \in Inbound, Frames!PeerSends(f)
  PROVE  FramesIn'
<1> DEFINE e == Frames!Encoded(f.op, f.payload)
<1>0. /\ ws.state = "open" \/ (ws.state = "upgrading" /\ IsPrefix(Frames!Accepted, ws.rx \o wire.bytes))
      /\ wire' = [wire EXCEPT !.bytes = @ \o e] /\ sent' = Append(sent, f)
      /\ ws' = ws /\ polling' = polling /\ got' = got
  BY DEF Frames!PeerSends
<1>1. WsIs(ws) /\ WireIs(wire) /\ sent \in Seq(Inbound)
  BY DEF FramesIn
<1>2. e \in Seq(Nat)
  <2>1. f.op \in Nat /\ f.payload \in Seq(Nat)
    BY DEF Frames!Parameters
  <2> QED BY <2>1, EncodedIs
<1> HIDE DEF e
<1>3. /\ sent' \in Seq(Inbound) /\ Len(sent') = Len(sent) + 1
      /\ \A k \in 0..Len(sent) : /\ Joined(Codes(sent'))[k] = Joined(Codes(sent))[k]
                                 /\ Joined(Handed(sent'))[k] = Joined(Handed(sent))[k]
      /\ FlattenSeq(Codes(sent')) = FlattenSeq(Codes(sent)) \o e
  BY <1>0, <1>1, SentMore DEF e
<1>4. WireIs(wire') /\ wire.bytes' = wire.bytes \o e
  <2>1. wire.bytes \o e \in Seq(Nat)
    BY <1>1, <1>2, LeftIs, ConcatProperties
  <2> QED BY <1>0, <1>1, <2>1, Zenon DEF WireIs
<1>5. Left' = Left \o e
  <2>1. PICK a : a = From(ws.rx, ws.pending)
    OBVIOUS
  <2>2. PICK b : b = wire.bytes
    OBVIOUS
  <2>3. a \in Seq(Nat) /\ b \in Seq(Nat)
    BY <1>1, <2>1, <2>2, LeftIs
  <2>4. a \o (b \o e) = (a \o b) \o e
    BY <1>2, <2>3, ConcatAssociative, SMTT(40)
  <2>5. Left' = a \o (b \o e) /\ Left = a \o b
    BY <1>0, <1>4, <2>1, <2>2, Zenon DEF Left
  <2> QED BY <2>4, <2>5
<1>6. Len(sent) \in Nat /\ \A k \in 0..Len(sent) : k \in 0..Len(sent')
  BY <1>1, <1>3
<1>7. \E k \in 0..Len(sent') : HandedUpTo(k)'
  <2>1. PICK k \in 0..Len(sent) : HandedUpTo(k)
    BY DEF FramesIn
  <2>2. HandedUpTo(k)'
    BY <1>0, <1>3, <2>1 DEF HandedUpTo
  <2> QED BY <1>6, <2>2
<1>8. CASE ws.state = "open"
  <2>1. PICK k \in 0..Len(sent) : Arrived(k)
    BY <1>8 DEF FramesIn
  <2>2. HandedUpTo(k)'
    BY <1>0, <1>3, <2>1 DEF HandedUpTo, Arrived
  <2>3. Left' = From(FlattenSeq(Codes(sent')), Len(Joined(Codes(sent'))[k]))
    <3>1. PICK s : s = FlattenSeq(Codes(sent))
      OBVIOUS
    <3>2. PICK p : p = Len(Joined(Codes(sent))[k])
      OBVIOUS
    <3>3. s \in Seq(Nat) /\ p \in 0..Len(s)
      BY <1>1, <3>1, <3>2, OnWireIs
    <3>4. From(s \o e, p) = From(s, p) \o e
      BY <1>2, <3>3, FromConcat
    <3>5. Left = From(s, p)
      BY <2>1, <3>1, <3>2, Zenon DEF Arrived
    <3>6. FlattenSeq(Codes(sent')) = s \o e /\ Len(Joined(Codes(sent'))[k]) = p
      BY <1>3, <3>1, <3>2, Zenon
    <3> QED BY <1>5, <3>4, <3>5, <3>6, Zenon
  <2>4. \E i \in 0..Len(sent') : Arrived(i)'
    BY <1>6, <2>2, <2>3 DEF Arrived
  <2> QED BY <1>0, <1>1, <1>3, <1>4, <1>7, <1>8, <2>4 DEF FramesIn
<1>9. CASE ws.state = "upgrading" /\ IsPrefix(Frames!Accepted, ws.rx \o wire.bytes)
  <2>1. Asking
    BY <1>9 DEF FramesIn
  <2>2. Left = ws.rx \o wire.bytes
    BY <1>1, <2>1, LeftIs DEF Asking
  <2>3. Accepts
    BY <1>1, <1>9, <2>1, <2>2, AcceptsNow, Zenon
  <2>4. Accepts'
    <3>1. PICK s : s \in Seq(Nat) /\ s = FlattenSeq(Codes(sent))
      BY <1>1, OnWireIs
    <3>2. (Frames!Accepted \o s) \o e = Frames!Accepted \o (s \o e)
      BY <1>2, <3>1, AcceptedIs, ConcatAssociative, SMTT(40)
    <3> QED BY <1>3, <1>5, <2>3, <3>1, <3>2, Zenon DEF Accepts
  <2>5. Asking'
    BY <1>0, <2>1, <2>4 DEF Asking
  <2> QED BY <1>0, <1>1, <1>3, <1>4, <1>7, <1>9, <2>5 DEF FramesIn
<1> QED BY <1>0, <1>8, <1>9

\* poll_upgrade.
LEMMA UpgradesIn ==
  ASSUME Frames!Parameters, FramesIn, Frames!PollUpgrade
  PROVE  FramesIn'
<1>0. ws.state = "upgrading" /\ polling' = polling /\ sent' = sent /\ got' = got
  BY DEF Frames!PollUpgrade
<1>1. WsIs(ws) /\ WireIs(wire) /\ sent \in Seq(Inbound) /\ Asking /\ ws.pending = 0 /\ polling = FALSE
  BY <1>0 DEF FramesIn, Asking
<1>2. \/ ws' = ws /\ wire' = wire
      \/ Frames!Fail /\ wire' = wire
      \/ \E n \in 0..Len(wire.bytes) : /\ ws' = Frames!Upgraded(ws.rx \o Frames!Reads(n))
                                       /\ wire' = [wire EXCEPT !.bytes = From(@, n)]
                                       /\ Len(ws.rx) + n <= RxCap
  <2>1. \/ UNCHANGED <<ws, wire>>
        \/ \E n \in Frames!Received(RxCap - Len(ws.rx) - 1) :
             IF n < 0 THEN Frames!Fail /\ UNCHANGED wire
             ELSE ws' = Frames!Upgraded(ws.rx \o Frames!Reads(n)) /\ Frames!LeavesOnWire(n)
    BY <1>0, Zenon DEF Frames!PollUpgrade, Frames!Flushed
  <2>2. ASSUME NEW n \in Frames!Received(RxCap - Len(ws.rx) - 1), ~(n < 0)
        PROVE  n \in 0..Len(wire.bytes) /\ Len(ws.rx) + n <= RxCap
    <3>1. Len(ws.rx) \in Nat /\ Len(wire.bytes) \in Nat /\ RxCap \in Nat
      BY <1>1, LeftIs DEF Frames!Parameters
    <3> QED BY <2>2, <3>1 DEF Frames!Received
  <2>3. ASSUME NEW n, Frames!LeavesOnWire(n) PROVE wire' = [wire EXCEPT !.bytes = From(@, n)]
    BY <2>3, Zenon DEF Frames!LeavesOnWire, From
  <2> QED BY <2>1, <2>2, <2>3
<1>3. CASE ws' = ws /\ wire' = wire
  BY <1>0, <1>1, <1>3, InStays
<1>4. CASE Frames!Fail /\ wire' = wire
  BY <1>0, <1>1, <1>4, FailIs, InEnds
<1>5. ASSUME NEW n \in 0..Len(wire.bytes), ws' = Frames!Upgraded(ws.rx \o Frames!Reads(n)),
             wire' = [wire EXCEPT !.bytes = From(@, n)], Len(ws.rx) + n <= RxCap
      PROVE  FramesIn'
  <2>1. PICK x : x = ws.rx \o Frames!Reads(n)
    OBVIOUS
  <2>2. /\ WireIs(wire') /\ wire.bytes' \in Seq(Nat) /\ x \in Seq(Nat) /\ Len(x) <= RxCap
        /\ x \o wire.bytes' = Left
    <3>1. ws.rx \in Seq(Nat) /\ wire.bytes \in Seq(Nat)
      BY <1>1, LeftIs
    <3>2. From(ws.rx, ws.pending) = ws.rx
      BY <1>1, <3>1, FromNothing
    <3>3. /\ WireIs(wire') /\ wire.bytes' = From(wire.bytes, n)
          /\ x \in Seq(Nat) /\ Len(x) = (Len(ws.rx) - ws.pending) + n
          /\ x \o wire.bytes' = Left
      BY <1>1, <1>5, <2>1, <3>2, Reading
    <3>4. From(wire.bytes, n) \in Seq(Nat)
      BY <3>1, FromIs
    <3>5. Len(x) = Len(ws.rx) + n
      BY <1>1, <3>1, <3>3
    <3> QED BY <1>5, <3>3, <3>4, <3>5
  <2>3. /\ ws.rx \in Seq(Nat) /\ ws.state \in {"connecting", "upgrading", "open", "closed"}
        /\ ws.pending = 0 /\ ws \in [state : {"connecting", "upgrading", "open", "closed"}, rx : Seq(Nat), pending : Nat]
    BY <1>1 DEF WsIs
  <2>4. \/ ws' = [ws EXCEPT !.state = "closed"]
        \/ ws' = [ws EXCEPT !.rx = x]
        \/ /\ IsPrefix(Frames!Accepted, x)
           /\ ws' = [ws EXCEPT !.state = "open", !.rx = From(x, Len(Frames!Accepted))]
    BY <1>5, <2>1, Zenon DEF Frames!Upgraded, From
  <2>5. CASE ws' = [ws EXCEPT !.state = "closed"]
    <3>1. WsIs(ws') /\ ws.state' = "closed"
      BY <1>1, <2>5 DEF WsIs
    <3> QED BY <1>0, <1>1, <2>2, <3>1, InEnds
  <2>6. CASE ws' = [ws EXCEPT !.rx = x]
    <3>1. WsIs(ws') /\ ws.pending' = 0 /\ ws.state' = "upgrading" /\ ws.rx' = x
      <4>1. ws' \in [state : {"connecting", "upgrading", "open", "closed"}, rx : Seq(Nat), pending : Nat]
        BY <2>2, <2>3, <2>6
      <4>2. ws.pending' = 0 /\ ws.state' = "upgrading" /\ ws.rx' = x
        BY <1>0, <2>3, <2>6
      <4>3. Len(x) \in Nat
        BY <2>2
      <4> QED BY <2>2, <4>1, <4>2, <4>3 DEF WsIs
    <3>2. Left' = Left
      <4>1. From(x, 0) = x
        BY <2>2, FromNothing
      <4> QED BY <2>2, <3>1, <4>1, Zenon DEF Left
    <3>3. Asking'
      BY <1>0, <1>1, <3>1, <3>2 DEF Asking, Accepts
    <3>4. \E k \in 0..Len(sent) : HandedUpTo(k)'
      BY <1>0 DEF FramesIn, HandedUpTo
    <3> QED BY <1>0, <1>1, <2>2, <3>1, <3>3, <3>4 DEF FramesIn
  <2>7. CASE /\ IsPrefix(Frames!Accepted, x)
             /\ ws' = [ws EXCEPT !.state = "open", !.rx = From(x, Len(Frames!Accepted))]
    <3>a. PICK a : a = Frames!Accepted
      OBVIOUS
    <3>b. a \in Seq(Nat) /\ Len(a) = 2
      BY <3>a, AcceptedIs
    <3>c. PICK s : s \in Seq(Nat) /\ s = FlattenSeq(Codes(sent))
      BY <1>1, OnWireIs
    <3>l. PICK w : w \in Seq(Nat) /\ w = wire.bytes'
      BY <2>2
    <3>d. Leads(Nat, a, x)
      BY <2>2, <2>7, <3>a, <3>b, PrefixLeads
    <3>1. PICK u : u \in Seq(Nat) /\ x = a \o u
      BY <3>d, Zenon DEF Leads
    <3>2. From(x, Len(a)) = u
      BY <3>1, <3>b, FromPast, Zenon
    <3>3. u \o w \in Seq(Nat) /\ (a \o u) \o w = a \o (u \o w)
      <4>1. u \in Seq(Nat)
        BY <3>1
      <4>2. u \o w \in Seq(Nat)
        BY <3>l, <4>1, ConcatProperties
      <4>3. (a \o u) \o w = a \o (u \o w)
        <5>1. a \in Seq(Nat) /\ w \in Seq(Nat) /\ u \in Seq(Nat)
          BY <3>b, <3>l, <4>1
        <5> QED BY <5>1, ConcatAssociative, SMTT(40)
      <4> QED BY <4>2, <4>3
    <3>4. Left = a \o (u \o w)
      BY <2>2, <3>l, <3>1, <3>3, Zenon
    <3>5. Accepts
      <4>1. IsPrefix(a, Left)
        <5>1. Left \in Seq(Nat)
          BY <1>1, LeftIs
        <5>2. \E v \in Seq(Nat) : Left = a \o v
          BY <3>3, <3>4, Zenon
        <5> QED BY <3>b, <5>1, <5>2, PrefixIs, Zenon
      <4> QED BY <1>1, <3>a, <4>1, AcceptsNow, Zenon
    <3>6. u \o w = s
      <4>1. Left = a \o s
        BY <3>5, <3>a, <3>c, Zenon DEF Accepts
      <4>2. From(Left, Len(a)) = s
        BY <3>b, <3>c, <4>1, FromPast, Zenon
      <4>3. From(Left, Len(a)) = u \o w
        BY <3>b, <3>3, <3>4, FromPast, Zenon
      <4> QED BY <4>2, <4>3, Zenon
    <3>7. ws.state' = "open" /\ ws.rx' = u /\ ws.pending' = 0
      BY <1>0, <2>3, <2>7, <3>a, <3>2
    <3>8. WsIs(ws')
      <4>1. u \in Seq(Nat) /\ Len(u) <= RxCap
        <5>1. u \in Seq(Nat)
          BY <3>1
        <5>2. Len(x) = Len(a) + Len(u)
          BY <3>1, <3>b, ConcatProperties
        <5>3. Len(x) \in Nat /\ Len(u) \in Nat /\ RxCap \in Nat
          BY <2>2, <5>1 DEF Frames!Parameters
        <5> QED BY <2>2, <3>b, <5>1, <5>2, <5>3
      <4>2. ws' \in [state : {"connecting", "upgrading", "open", "closed"}, rx : Seq(Nat), pending : Nat]
        BY <2>3, <2>7, <3>a, <3>2, <4>1
      <4>3. Len(u) \in Nat
        BY <4>1
      <4> QED BY <3>7, <4>1, <4>2, <4>3 DEF WsIs
    <3>9. Left' = s
      <4>1. From(u, 0) = u
        BY <3>1, FromNothing
      <4> QED BY <3>l, <3>6, <3>7, <4>1, Zenon DEF Left
    <3>10. 0 \in 0..Len(sent) /\ HandedUpTo(0)' /\ Arrived(0)'
      <4>1. Joined(Codes(sent))[0] = <<>> /\ Joined(Handed(sent))[0] = <<>> /\ Len(sent) \in Nat
        BY <1>1, OnWireIs
      <4>2. From(s, Len(<<>>)) = s
        BY <3>c, FromNothing
      <4>3. got' = <<>>
        BY <1>0, <1>1 DEF Asking
      <4>4. HandedUpTo(0)'
        BY <1>0, <4>1, <4>3 DEF HandedUpTo
      <4>5. Left' = From(FlattenSeq(Codes(sent')), Len(Joined(Codes(sent'))[0]))
        BY <1>0, <3>9, <3>c, <4>1, <4>2, Zenon
      <4> QED BY <4>1, <4>4, <4>5 DEF Arrived
    <3> QED BY <1>0, <1>1, <2>2, <3>7, <3>8, <3>10 DEF FramesIn
  <2> QED BY <2>4, <2>5, <2>6, <2>7
<1> QED BY <1>2, <1>3, <1>4, <1>5

\* The beginning of nev_ws_poll.
LEMMA PollsIn ==
  ASSUME Frames!Parameters, FramesIn, Frames!PollOpen
  PROVE  FramesIn'
<1>0. ws.state = "open" /\ polling = FALSE /\ sent' = sent /\ got' = got
  BY DEF Frames!PollOpen, FramesIn
<1>1. WsIs(ws) /\ WireIs(wire) /\ sent \in Seq(Inbound)
  BY DEF FramesIn
<1>2. PICK kept : kept = From(ws.rx, ws.pending)
  OBVIOUS
<1>k. kept \in Seq(Nat) /\ Len(kept) = Len(ws.rx) - ws.pending
  BY <1>1, <1>2, LeftIs, FromIs
<1>3. \/ Frames!Fail /\ wire' = wire /\ polling' = polling
      \/ \E n \in 0..Len(wire.bytes) : /\ ws' = [ws EXCEPT !.rx = kept \o Frames!Reads(n), !.pending = 0]
                                       /\ wire' = [wire EXCEPT !.bytes = From(@, n)]
                                       /\ Len(kept) + n <= RxCap /\ polling' = TRUE
  <2>1. \E n \in Frames!Received(RxCap - Len(kept)) :
          IF n < 0 THEN Frames!Fail /\ UNCHANGED <<wire, polling>>
          ELSE /\ ws' = [ws EXCEPT !.rx = kept \o Frames!Reads(n), !.pending = 0]
               /\ Frames!LeavesOnWire(n) /\ polling' = TRUE
    BY <1>2, Zenon DEF Frames!PollOpen, Frames!Flushed, From
  <2>2. ASSUME NEW n \in Frames!Received(RxCap - Len(kept)), ~(n < 0)
        PROVE  n \in 0..Len(wire.bytes) /\ Len(kept) + n <= RxCap
    <3>1. Len(kept) \in Nat /\ Len(wire.bytes) \in Nat /\ RxCap \in Nat
      BY <1>1, <1>k, LeftIs DEF Frames!Parameters
    <3> QED BY <2>2, <3>1 DEF Frames!Received
  <2>3. ASSUME NEW n, Frames!LeavesOnWire(n) PROVE wire' = [wire EXCEPT !.bytes = From(@, n)]
    BY <2>3, Zenon DEF Frames!LeavesOnWire, From
  <2> QED BY <2>1, <2>2, <2>3
<1>4. CASE Frames!Fail /\ wire' = wire /\ polling' = polling
  <2>1. WsIs(ws') /\ ws.state' = "closed" /\ WireIs(wire') /\ polling' = FALSE
    BY <1>0, <1>1, <1>4, FailIs
  <2> QED BY <1>0, <2>1, InEnds
<1>5. ASSUME NEW n \in 0..Len(wire.bytes), ws' = [ws EXCEPT !.rx = kept \o Frames!Reads(n), !.pending = 0],
             wire' = [wire EXCEPT !.bytes = From(@, n)], Len(kept) + n <= RxCap, polling' = TRUE
      PROVE  FramesIn'
  <2>1. PICK x : x = kept \o Frames!Reads(n)
    OBVIOUS
  <2>2. /\ WireIs(wire') /\ x \in Seq(Nat) /\ Len(x) <= RxCap
        /\ x \o wire.bytes' = Left
    <3>1. /\ WireIs(wire') /\ x \in Seq(Nat) /\ Len(x) = (Len(ws.rx) - ws.pending) + n
          /\ x \o wire.bytes' = Left
      BY <1>1, <1>2, <1>5, <2>1, Reading
    <3> QED BY <1>5, <1>k, <3>1
  <2>3. WsIs(ws') /\ ws.pending' = 0 /\ ws.state' = "open" /\ ws.rx' = x
    <3>1. ws' = [ws EXCEPT !.rx = x, !.pending = 0]
      BY <1>5, <2>1, Zenon
    <3>2. ws \in [state : {"connecting", "upgrading", "open", "closed"}, rx : Seq(Nat), pending : Nat]
      BY <1>1 DEF WsIs
    <3>3. x \in Seq(Nat) /\ Len(x) \in Nat
      BY <2>2
    <3>4. ws.pending' = 0 /\ ws.state' = "open" /\ ws.rx' = x
      BY <1>0, <3>1, <3>2
    <3>5. ws' \in [state : {"connecting", "upgrading", "open", "closed"}, rx : Seq(Nat), pending : Nat]
      BY <3>1, <3>2, <3>3
    <3> QED BY <2>2, <3>3, <3>4, <3>5 DEF WsIs
  <2>4. Left' = Left
    <3>1. From(x, 0) = x
      BY <2>2, FromNothing
    <3> QED BY <2>2, <2>3, <3>1, Zenon DEF Left
  <2>5. \A k : (HandedUpTo(k)' <=> HandedUpTo(k)) /\ (Arrived(k)' <=> Arrived(k))
    BY <1>0, <2>4 DEF HandedUpTo, Arrived
  <2>6. /\ \E k \in 0..Len(sent) : HandedUpTo(k)'
        /\ \E k \in 0..Len(sent) : Arrived(k)'
    BY <1>0, <2>5 DEF FramesIn
  <2> QED BY <1>0, <1>1, <1>5, <2>2, <2>3, <2>6 DEF FramesIn
<1> QED BY <1>3, <1>4, <1>5

\* The frame at the front of rx, when it is whole, is the next that was sent.
Fronts(k) ==
  /\ k \in 0..(Len(sent) - 1) /\ HandedUpTo(k)
  /\ sent[k + 1].op = ws.rx[1] /\ sent[k + 1].payload = Frames!Payload(ws.rx)
  /\ From(ws.rx, Frames!FrameLen(ws.rx)) \o wire.bytes
       = From(FlattenSeq(Codes(sent)), Len(Joined(Codes(sent))[k + 1]))

LEMMA FrontIs ==
  ASSUME Frames!Parameters, FramesIn, ws.state = "open", ws.pending = 0, Frames!Whole(ws.rx)
  PROVE  /\ Frames!FrameLen(ws.rx) \in 0..Len(ws.rx)
         /\ \E k : Fronts(k)
<1>1. WsIs(ws) /\ WireIs(wire) /\ sent \in Seq(Inbound) /\ Len(sent) \in Nat
  BY DEF FramesIn
<1>2. PICK k \in 0..Len(sent) : Arrived(k)
  BY DEF FramesIn
<1>a. PICK b : b = ws.rx
  OBVIOUS
<1>b. PICK w : w = wire.bytes
  OBVIOUS
<1>3. b \in Seq(Nat) /\ w \in Seq(Nat) /\ Left \in Seq(Nat) /\ Left = b \o w /\ Len(Left) = Len(b) + Len(w)
  <2>1. ws.rx \in Seq(Nat) /\ wire.bytes \in Seq(Nat) /\ Left \in Seq(Nat) /\ Left = ws.rx \o wire.bytes
    BY <1>1, LeftIs
  <2>2. b \in Seq(Nat) /\ w \in Seq(Nat)
    BY <1>a, <1>b, <2>1
  <2> QED BY <1>a, <1>b, <2>1, <2>2, ConcatProperties
<1>4. Len(b) \in Nat /\ Len(b) >= 2 /\ Len(w) \in Nat
  BY <1>3, <1>a DEF Frames!Whole, Frames!HasHead
<1>c. PICK c : c = Codes(sent)
  OBVIOUS
<1>d. c \in Seq(Seq(Nat)) /\ Len(c) = Len(sent)
  BY <1>1, <1>c, SentIs
<1>5. k # Len(sent)
  <2> SUFFICES ASSUME k = Len(sent) PROVE FALSE
    OBVIOUS
  <2>1. FlattenSeq(c) = Joined(c)[k]
    BY <1>d, FlattenIs
  <2>2. FlattenSeq(c) \in Seq(Nat)
    BY <1>d, FlattenType
  <2>3. Left = From(FlattenSeq(c), Len(FlattenSeq(c)))
    BY <1>2, <1>c, <2>1, Zenon DEF Arrived
  <2>4. Len(FlattenSeq(c)) \in 0..Len(FlattenSeq(c)) /\ Len(FlattenSeq(c)) \in Nat
    BY <2>2
  <2>5. Len(Left) = Len(FlattenSeq(c)) - Len(FlattenSeq(c))
    BY <2>2, <2>3, <2>4, FromIs
  <2> QED BY <1>3, <1>4, <2>4, <2>5
<1>6. k \in 0..(Len(sent) - 1) /\ k + 1 \in 1..Len(sent) /\ k \in 0..(Len(c) - 1)
  BY <1>1, <1>d, <1>5
<1>7. PICK t : Ahead(Nat, c, k, t)
  BY <1>d, <1>6, JoinedAhead
<1>8. PICK op : op = sent[k + 1].op
  OBVIOUS
<1>9. PICK payload : payload = sent[k + 1].payload
  OBVIOUS
<1>10. PICK e : e = Frames!Encoded(op, payload)
  OBVIOUS
<1>11. op \in Nat /\ payload \in Seq(Nat) /\ c[k + 1] = e
  BY <1>1, <1>6, <1>8, <1>9, <1>10, <1>c, SentIs
<1>12. e \in Seq(Nat)
  BY <1>10, <1>11, EncodedIs
<1>13. t \in Seq(Nat) /\ Left = e \o t /\ From(FlattenSeq(c), Len(Joined(c)[k + 1])) = t
  BY <1>2, <1>7, <1>11, <1>c, Zenon DEF Ahead, Arrived
<1>14. PICK x : x = Left
  OBVIOUS
<1>15. Heads(b, x)
  <2>1. \A i \in 1..Len(b) : (b \o w)[i] = b[i]
    BY <1>3, ConcatProperties
  <2> QED BY <1>3, <1>14, <2>1, Zenon DEF Heads
<1>16. Heads(e, x)
  <2>0. t \in Seq(Nat)
    BY <1>13
  <2>1. \A i \in 1..Len(e) : (e \o t)[i] = e[i]
    BY <1>12, <2>0, ConcatProperties
  <2> QED BY <1>13, <1>14, <2>1, Zenon DEF Heads
<1>17. /\ b[1] = op /\ Frames!FrameLen(b) = Len(e) /\ Len(e) <= Len(b) /\ Frames!Payload(b) = payload
  <2>1. Frames!Whole(b)
    BY <1>a
  <2>2. b \in Seq(Nat)
    BY <1>3
  <2>3. Heads(Frames!Encoded(op, payload), x)
    BY <1>10, <1>16, Zenon
  <2>4. op \in Nat /\ payload \in Seq(Nat)
    BY <1>11
  <2>5. /\ b[1] = op /\ Frames!FrameLen(b) = Len(Frames!Encoded(op, payload))
        /\ Len(Frames!Encoded(op, payload)) <= Len(b) /\ Frames!Payload(b) = payload
    BY <1>15, <2>1, <2>2, <2>3, <2>4, FrameIsRead, Zenon
  <2> QED BY <1>10, <2>5, Zenon
<1>18. Len(e) \in 0..Len(b)
  BY <1>4, <1>12, <1>17
<1>19. From(b, Len(e)) \o w = t
  <2>1. From(b \o w, Len(e)) = From(b, Len(e)) \o w
    <3>1. b \in Seq(Nat) /\ w \in Seq(Nat)
      BY <1>3
    <3> QED BY <3>1, <1>18, FromConcat
  <2>2. From(e \o t, Len(e)) = t
    <3>1. t \in Seq(Nat)
      BY <1>13
    <3> QED BY <3>1, <1>12, FromPast
  <2> QED BY <1>3, <1>13, <2>1, <2>2, Zenon
<1>20. Fronts(k)
  BY <1>2, <1>6, <1>8, <1>9, <1>13, <1>17, <1>19, <1>a, <1>b, <1>c, Zenon DEF Fronts, Arrived
<1> QED BY <1>17, <1>18, <1>20, <1>a

\* What has been handed out of one frame more.
LEMMA HandedNext ==
  ASSUME Frames!Parameters, FramesIn, NEW k, Fronts(k)
  PROVE  /\ k + 1 \in 0..Len(sent)
         /\ Joined(Handed(sent))[k + 1]
              = IF ws.rx[1] = Frames!Bin THEN Append(got, Frames!Payload(ws.rx)) ELSE got
<1>1. sent \in Seq(Inbound) /\ k \in 0..(Len(sent) - 1) /\ Len(sent) \in Nat
  BY DEF FramesIn, Fronts
<1>2. k + 1 \in 0..Len(sent) /\ k + 1 \in 1..Len(sent) /\ (k + 1) - 1 = k /\ k \in 0..Len(sent)
  BY <1>1
<1>3. PICK h : h = Handed(sent)
  OBVIOUS
<1>4. h \in Seq(Seq(Seq(Nat))) /\ Len(h) = Len(sent)
  BY <1>1, <1>3, SentIs
<1>t. Joined(h) \in [0..Len(h) -> Seq(Seq(Nat))]
  BY <1>4, JoinedIs
<1>5. Joined(h)[k + 1] = Joined(h)[k] \o h[k + 1]
  <2>1. \A i \in 1..Len(h) : Joined(h)[i] = Joined(h)[i - 1] \o h[i]
    BY <1>4, JoinedIs
  <2> QED BY <1>2, <1>4, <2>1
<1>6. got \in Seq(Seq(Nat)) /\ got = Joined(h)[k]
  <2>1. got = Joined(h)[k]
    BY <1>3, Zenon DEF Fronts, HandedUpTo
  <2> QED BY <1>2, <1>4, <1>t, <2>1
<1>7. /\ sent[k + 1].payload \in Seq(Nat)
      /\ h[k + 1] = IF sent[k + 1].op = Frames!Bin THEN <<sent[k + 1].payload>> ELSE <<>>
  BY <1>1, <1>2, <1>3, SentIs
<1>8. sent[k + 1].op = ws.rx[1] /\ sent[k + 1].payload = Frames!Payload(ws.rx)
  BY DEF Fronts
<1>9. PICK p : p \in Seq(Nat) /\ p = Frames!Payload(ws.rx)
  BY <1>7, <1>8
<1>10. Append(got, p) = got \o <<p>> /\ got \o <<>> = got
  <2>1. got \in Seq(Seq(Nat)) /\ p \in Seq(Nat)
    BY <1>6, <1>9
  <2> QED BY <2>1, AppendIsConcat, ConcatEmptySeq
<1> QED BY <1>2, <1>3, <1>5, <1>6, <1>7, <1>8, <1>9, <1>10, Zenon

LEMMA ControlOut ==
  ASSUME Frames!Parameters, FramesOut, NEW op \in Nat, NEW payload \in Seq(Nat),
         \/ Frames!SendControl(op, payload)
         \/ tx = <<>> /\ Frames!Queue(op, payload, TRUE)
         \/ UNCHANGED <<tx, queued, received>>
  PROVE  FramesOut'
<1>1. CASE UNCHANGED <<tx, queued, received>>
  BY <1>1, OutKeeps
<1>2. CASE tx = <<>> /\ Frames!Queue(op, payload, TRUE)
  <2>1. PICK e : e = Frames!Encoded(op, payload)
    OBVIOUS
  <2>2. e \in Seq(Nat)
    BY <2>1, EncodedIs
  <2>3. queued' = Append(queued, e) /\ Frames!Flushed(e, TRUE)
    BY <1>2, <2>1, Zenon DEF Frames!Queue
  <2> QED BY <1>2, <2>2, <2>3, OutKeeps
<1> QED BY <1>1, <1>2, Zenon DEF Frames!SendControl

\* One frame of nev_ws_poll.
LEMMA PollsFrame ==
  ASSUME Frames!Parameters, FramesIn, FramesOut, Frames!PollFrame
  PROVE  FramesIn' /\ FramesOut'
<1>0. polling = TRUE /\ wire' = wire /\ sent' = sent
  BY DEF Frames!PollFrame, FramesIn
<1>1. WsIs(ws) /\ WireIs(wire) /\ sent \in Seq(Inbound) /\ ws.state = "open" /\ ws.pending = 0 /\ Len(sent) \in Nat
  BY <1>0 DEF FramesIn
<1>w. WireIs(wire') /\ wire.bytes' = wire.bytes
  BY <1>0, <1>1
<1>2. ASSUME Frames!Fail, polling' = FALSE, UNCHANGED <<tx, got, queued, received>>
      PROVE  FramesIn' /\ FramesOut'
  <2>1. FramesOut'
    BY <1>2, OutKeeps
  <2>2. WsIs(ws') /\ ws.state' = "closed"
    BY <1>2, FailIs
  <2>3. FramesIn'
    BY <1>0, <1>2, <1>w, <2>2, InEnds
  <2> QED BY <2>1, <2>3
<1>3. CASE Frames!Message
  <2>1. /\ Frames!Whole(ws.rx) /\ ws.rx[1] = Frames!Bin
        /\ got' = Append(got, Frames!Payload(ws.rx))
        /\ ws' = [ws EXCEPT !.pending = Frames!FrameLen(ws.rx)]
        /\ polling' = FALSE /\ UNCHANGED <<tx, queued, received>>
    BY <1>3 DEF Frames!Message
  <2>2. PICK k : Fronts(k)
    BY <1>1, <2>1, FrontIs
  <2>3. Frames!FrameLen(ws.rx) \in 0..Len(ws.rx)
    BY <1>1, <2>1, FrontIs
  <2>4. k + 1 \in 0..Len(sent) /\ Joined(Handed(sent))[k + 1] = got'
    BY <2>1, <2>2, HandedNext
  <2>5. /\ ws.state' = "open" /\ ws.rx' = ws.rx /\ ws.pending' = Frames!FrameLen(ws.rx) /\ WsIs(ws')
    <3>1. ws \in [state : {"connecting", "upgrading", "open", "closed"}, rx : Seq(Nat), pending : Nat]
      BY <1>1 DEF WsIs
    <3>2. ws.state' = "open" /\ ws.rx' = ws.rx /\ ws.pending' = Frames!FrameLen(ws.rx)
      BY <1>1, <2>1, <3>1
    <3>3. Frames!FrameLen(ws.rx) \in Nat /\ Frames!FrameLen(ws.rx) <= Len(ws.rx)
      BY <2>3
    <3>4. ws' \in [state : {"connecting", "upgrading", "open", "closed"}, rx : Seq(Nat), pending : Nat]
      BY <2>1, <3>1, <3>3
    <3> QED BY <1>1, <3>2, <3>3, <3>4 DEF WsIs
  <2>6. HandedUpTo(k + 1)'
    BY <1>0, <2>4, Zenon DEF HandedUpTo
  <2>7. Left' = From(FlattenSeq(Codes(sent')), Len(Joined(Codes(sent'))[k + 1]))
    BY <1>0, <2>2, <2>5, Zenon DEF Left, Fronts
  <2>8. Arrived(k + 1)'
    BY <2>6, <2>7, Zenon DEF Arrived
  <2>9. FramesIn'
    BY <1>0, <1>1, <2>1, <2>4, <2>5, <2>6, <2>8 DEF FramesIn
  <2>10. FramesOut'
    BY <2>1, OutKeeps
  <2> QED BY <2>9, <2>10
<1>4. CASE Frames!Control
  <2>1. /\ Frames!Whole(ws.rx) /\ ws.rx[1] \in {Frames!Ping, Frames!Pong}
        /\ ws' = [ws EXCEPT !.rx = From(ws.rx, Frames!FrameLen(ws.rx))]
        /\ polling' = polling /\ got' = got
        /\ Frames!SendControl(Frames!Pong, Frames!Payload(ws.rx)) \/ UNCHANGED <<tx, queued, received>>
    BY <1>4, Zenon DEF Frames!Control, Frames!AfterFrame, From
  <2>2. PICK k : Fronts(k)
    BY <1>1, <2>1, FrontIs
  <2>3. Frames!FrameLen(ws.rx) \in 0..Len(ws.rx)
    BY <1>1, <2>1, FrontIs
  <2>4. k + 1 \in 0..Len(sent) /\ Joined(Handed(sent))[k + 1] = got
    <3>1. ws.rx[1] # Frames!Bin
      BY <2>1 DEF Frames!Ping, Frames!Pong, Frames!Bin
    <3> QED BY <2>2, <3>1, HandedNext
  <2>5. PICK x : x = From(ws.rx, Frames!FrameLen(ws.rx))
    OBVIOUS
  <2>6. ws.rx \in Seq(Nat) /\ x \in Seq(Nat) /\ Len(x) <= RxCap /\ From(x, 0) = x
    <3>1. ws.rx \in Seq(Nat) /\ Len(ws.rx) <= RxCap
      BY <1>1 DEF WsIs
    <3>2. x \in Seq(Nat) /\ Len(x) = Len(ws.rx) - Frames!FrameLen(ws.rx)
      BY <2>3, <2>5, <3>1, FromIs
    <3>3. Len(x) <= RxCap
      BY <2>3, <3>1, <3>2 DEF Frames!Parameters
    <3> QED BY <3>1, <3>2, <3>3, FromNothing
  <2>7. ws.state' = "open" /\ ws.rx' = x /\ ws.pending' = 0 /\ WsIs(ws')
    <3>1. ws \in [state : {"connecting", "upgrading", "open", "closed"}, rx : Seq(Nat), pending : Nat]
      BY <1>1 DEF WsIs
    <3>2. ws' = [ws EXCEPT !.rx = x]
      BY <2>1, <2>5, Zenon
    <3>3. ws.state' = "open" /\ ws.rx' = x /\ ws.pending' = 0
      BY <1>1, <3>1, <3>2
    <3>4. ws' \in [state : {"connecting", "upgrading", "open", "closed"}, rx : Seq(Nat), pending : Nat]
      BY <2>6, <3>1, <3>2
    <3>5. Len(x) \in Nat
      BY <2>6
    <3> QED BY <2>6, <3>3, <3>4, <3>5 DEF WsIs
  <2>8. HandedUpTo(k + 1)'
    BY <1>0, <2>1, <2>4, Zenon DEF HandedUpTo
  <2>9. Left' = From(FlattenSeq(Codes(sent')), Len(Joined(Codes(sent'))[k + 1]))
    BY <1>0, <2>2, <2>5, <2>6, <2>7, Zenon DEF Left, Fronts
  <2>10. Arrived(k + 1)'
    BY <2>8, <2>9, Zenon DEF Arrived
  <2>11. FramesIn'
    BY <1>0, <1>1, <2>1, <2>4, <2>7, <2>8, <2>10 DEF FramesIn
  <2>12. FramesOut'
    <3>1. Frames!Payload(ws.rx) \in Seq(Nat)
      <4>1. k + 1 \in 1..Len(sent)
        BY <1>1, <2>2 DEF Fronts
      <4>2. sent[k + 1].payload \in Seq(Nat)
        BY <1>1, <4>1, SentIs
      <4> QED BY <2>2, <4>2 DEF Fronts
    <3>2. Frames!Pong \in Nat
      BY DEF Frames!Pong
    <3> QED BY <2>1, <3>1, <3>2, ControlOut
  <2> QED BY <2>11, <2>12
<1>5. CASE Frames!NeedsMore
  <2>1. /\ polling' = FALSE
        /\ Frames!Fail \/ ws' = ws
        /\ UNCHANGED <<tx, got, queued, received>>
    BY <1>5 DEF Frames!NeedsMore
  <2>2. CASE ws' = ws
    <3>1. FramesIn'
      BY <1>0, <1>w, <2>1, <2>2, InStays
    <3>2. FramesOut'
      BY <2>1, OutKeeps
    <3> QED BY <3>1, <3>2
  <2> QED BY <1>2, <2>1, <2>2
<1>6. CASE Frames!Refuses
  BY <1>2, <1>6 DEF Frames!Refuses
<1>7. CASE Frames!Fail /\ polling' = FALSE /\ UNCHANGED <<tx, got, queued, received>>
  BY <1>2, <1>7
<1> QED BY <1>3, <1>4, <1>5, <1>6, <1>7, Zenon DEF Frames!PollFrame

FramesInv == FramesIn /\ FramesOut

LEMMA FramesBegins ==
  ASSUME Frames!Parameters, Frames!Init
  PROVE  FramesInv
<1>0. /\ ws = [state |-> "connecting", rx |-> <<>>, pending |-> 0] /\ tx = Frames!Request
      /\ polling = FALSE /\ wire = [bytes |-> <<>>, closed |-> FALSE]
      /\ sent = <<>> /\ got = <<>> /\ queued = <<>> /\ received = <<>>
  BY DEF Frames!Init
<1>1. WsIs(ws) /\ WireIs(wire) /\ sent \in Seq(Inbound)
  BY <1>0 DEF WsIs, WireIs, Frames!Parameters
<1>2. Left = <<>>
  <2>1. Left \in Seq(Nat) /\ Len(Left) = (Len(ws.rx) - ws.pending) + Len(wire.bytes)
    BY <1>1, LeftIs
  <2>2. Len(Left) = 0
    BY <1>0, <2>1
  <2> QED BY <2>1, <2>2, EmptySeq
<1>3. Asking
  BY <1>0, <1>2 DEF Asking
<1>4. HandedUpTo(0)
  BY <1>0, AcceptedIs DEF HandedUpTo
<1>5. FramesIn
  <2>1. 0 \in 0..Len(sent) /\ ws.state = "connecting"
    BY <1>0
  <2>2. \E k \in 0..Len(sent) : HandedUpTo(k)
    BY <1>4, <2>1
  <2> QED BY <1>0, <1>1, <1>3, <2>1, <2>2 DEF FramesIn
<1>6. FramesOut
  <2>1. queued \in Seq(Seq(Nat)) /\ <<>> \in Seq(Nat)
    BY <1>0
  <2>2. FlattenSeq(<<Frames!Request>> \o queued) = Frames!Request /\ Frames!Request \in Seq(Nat)
    BY <1>0, <2>1, Request1
  <2>3. <<>> \o Frames!Request = Frames!Request
    BY <2>2, ConcatEmptySeq
  <2> QED BY <1>0, <2>1, <2>2, <2>3, Zenon DEF FramesOut
<1> QED BY <1>5, <1>6 DEF FramesInv

LEMMA FramesNext ==
  ASSUME Frames!Parameters, FramesInv, [Frames!Next]_(Frames!vars)
  PROVE  FramesInv'
<1>0. FramesIn /\ FramesOut /\ WsIs(ws) /\ WireIs(wire)
  BY DEF FramesInv, FramesIn
<1>1. ASSUME NEW r \in Responses, Frames!PeerAnswers(r) PROVE FramesInv'
  <2>1. UNCHANGED <<tx, queued, received>>
    BY <1>1 DEF Frames!PeerAnswers
  <2> QED BY <1>0, <1>1, <2>1, AnswersIn, OutKeeps DEF FramesInv
<1>2. ASSUME NEW f \in Inbound, Frames!PeerSends(f) PROVE FramesInv'
  <2>1. UNCHANGED <<tx, queued, received>>
    BY <1>2 DEF Frames!PeerSends
  <2> QED BY <1>0, <1>2, <2>1, SendsIn, OutKeeps DEF FramesInv
<1>3. CASE Frames!PeerCloses
  <2>1. /\ wire' = [wire EXCEPT !.closed = TRUE]
        /\ ws' = ws /\ polling' = polling /\ sent' = sent /\ got' = got
        /\ UNCHANGED <<tx, queued, received>>
    BY <1>3 DEF Frames!PeerCloses
  <2>2. WireIs(wire') /\ wire.bytes' = wire.bytes
    BY <1>0, <2>1 DEF WireIs
  <2> QED BY <1>0, <2>1, <2>2, InStays, OutKeeps DEF FramesInv
<1>4. ASSUME NEW p \in Outbound, Frames!Send(p) PROVE FramesInv'
  <2>1. /\ ~polling /\ tx = <<>>
        /\ polling' = polling /\ wire' = wire /\ sent' = sent /\ got' = got
        /\ \/ Frames!Queue(Frames!Bin, p, UNCHANGED ws)
           \/ Frames!Fail /\ UNCHANGED <<tx, queued, received>>
    BY <1>4 DEF Frames!Send
  <2>2. p \in Seq(Nat) /\ Frames!Bin \in Nat
    BY DEF Frames!Parameters, Frames!Bin
  <2>3. CASE Frames!Queue(Frames!Bin, p, UNCHANGED ws)
    <3>1. Frames!Queue(Frames!Bin, p, TRUE) /\ ws' = ws
      BY <2>3, Zenon DEF Frames!Queue, Frames!Flushed
    <3>2. FramesOut'
      BY <1>0, <2>1, <2>2, <3>1, ControlOut
    <3>3. FramesIn'
      BY <1>0, <2>1, <3>1, InStays
    <3> QED BY <3>2, <3>3 DEF FramesInv
  <2>4. CASE Frames!Fail /\ UNCHANGED <<tx, queued, received>>
    <3>1. WsIs(ws') /\ ws.state' = "closed" /\ polling' = FALSE
      BY <1>0, <2>1, <2>4, FailIs DEF FramesIn
    <3>2. FramesIn'
      BY <1>0, <2>1, <3>1, InEnds
    <3> QED BY <1>0, <2>4, <3>2, OutKeeps DEF FramesInv
  <2> QED BY <2>1, <2>3, <2>4
<1>5. CASE Frames!CloseIt
  <2>1. /\ ~polling /\ ws' = [state |-> "closed", rx |-> <<>>, pending |-> 0]
        /\ polling' = polling /\ wire' = wire /\ sent' = sent /\ got' = got
        /\ Frames!SendControl(Frames!Close, <<>>) \/ UNCHANGED <<tx, queued, received>>
    BY <1>5 DEF Frames!CloseIt
  <2>2. WsIs(ws') /\ ws.state' = "closed" /\ polling' = FALSE
    BY <1>0, <2>1 DEF WsIs, FramesIn, Frames!Parameters
  <2>3. FramesIn'
    BY <1>0, <2>1, <2>2, InEnds
  <2>4. <<>> \in Seq(Nat) /\ Frames!Close \in Nat
    BY DEF Frames!Close
  <2>5. FramesOut'
    BY <1>0, <2>1, <2>4, ControlOut
  <2> QED BY <2>3, <2>5 DEF FramesInv
<1>6. CASE Frames!Connects
  <2>1. /\ ws.state = "connecting" /\ polling' = polling /\ wire' = wire /\ sent' = sent /\ got' = got
        /\ UNCHANGED <<tx, queued, received>>
        /\ \E s \in {"upgrading", "closed"} : ws' = [ws EXCEPT !.state = s]
    BY <1>6 DEF Frames!Connects
  <2>2. PICK s \in {"upgrading", "closed"} : ws' = [ws EXCEPT !.state = s]
    BY <2>1
  <2>3. WsIs(ws') /\ ws.state' = s /\ ws.rx' = ws.rx /\ ws.pending' = ws.pending
    BY <1>0, <2>2 DEF WsIs
  <2>4. Left' = Left
    BY <2>1, <2>3 DEF Left
  <2>5. Asking'
    BY <1>0, <2>1, <2>3, <2>4 DEF FramesIn, Asking, Accepts
  <2>6. \E k \in 0..Len(sent) : HandedUpTo(k)'
    BY <1>0, <2>1 DEF FramesIn, HandedUpTo
  <2>7. FramesIn'
    BY <1>0, <2>1, <2>2, <2>3, <2>5, <2>6 DEF FramesIn
  <2> QED BY <1>0, <2>1, <2>7, OutKeeps DEF FramesInv
<1>7. CASE Frames!PollUpgrade
  <2>1. Frames!Flushed(tx, TRUE) /\ queued' = queued
    BY <1>7, Zenon DEF Frames!PollUpgrade, Frames!Flushed
  <2> QED BY <1>0, <1>7, <2>1, UpgradesIn, OutKeeps DEF FramesInv
<1>8. CASE Frames!LinkIsDead
  <2>1. /\ ~polling /\ Frames!Fail /\ polling' = polling /\ wire' = wire /\ sent' = sent /\ got' = got
        /\ UNCHANGED <<tx, queued, received>>
    BY <1>8 DEF Frames!LinkIsDead
  <2>2. WsIs(ws') /\ ws.state' = "closed" /\ polling' = FALSE
    BY <1>0, <2>1, FailIs DEF FramesIn
  <2> QED BY <1>0, <2>1, <2>2, InEnds, OutKeeps DEF FramesInv
<1>9. CASE Frames!PollOpen
  <2>1. Frames!Flushed(tx, TRUE) /\ queued' = queued
    BY <1>9, Zenon DEF Frames!PollOpen, Frames!Flushed
  <2> QED BY <1>0, <1>9, <2>1, PollsIn, OutKeeps DEF FramesInv
<1>10. CASE Frames!PollFrame
  BY <1>0, <1>10, PollsFrame DEF FramesInv
<1>11. CASE UNCHANGED Frames!vars
  <2>1. /\ ws' = ws /\ polling' = polling /\ wire' = wire /\ sent' = sent /\ got' = got
        /\ UNCHANGED <<tx, queued, received>>
    BY <1>11 DEF Frames!vars
  <2> QED BY <1>0, <2>1, InStays, OutKeeps DEF FramesInv
<1> QED BY <1>1, <1>2, <1>3, <1>4, <1>5, <1>6, <1>7, <1>8, <1>9, <1>10, <1>11 DEF Frames!Next

\* The bridge gets each message whole, in its order and once, and the peer frame after
\* whole frame (nev_ws_poll, flush_tx).
LEMMA FramesShows ==
  ASSUME Frames!Parameters, FramesInv
  PROVE  Frames!TypeOK /\ Frames!FramesArrive
<1>0. FramesIn /\ FramesOut /\ WsIs(ws) /\ WireIs(wire) /\ sent \in Seq(Inbound) /\ Len(sent) \in Nat
  BY DEF FramesInv, FramesIn
<1>1. PICK h : h = Handed(sent)
  OBVIOUS
<1>2. h \in Seq(Seq(Seq(Nat))) /\ Len(h) = Len(sent) /\ Frames!Messages(sent) = FlattenSeq(h)
  BY <1>0, <1>1, SentIs
<1>3. PICK k \in 0..Len(sent) : HandedUpTo(k)
  BY <1>0 DEF FramesIn
<1>4. FlattenSeq(h) = Joined(h)[Len(h)] /\ FlattenSeq(h) \in Seq(Seq(Nat))
  BY <1>2, FlattenIs, FlattenType
<1>5. got = Joined(h)[k] /\ got \in Seq(Seq(Nat))
  <2>1. got = Joined(h)[k]
    BY <1>1, <1>3 DEF HandedUpTo
  <2>2. Joined(h) \in [0..Len(h) -> Seq(Seq(Nat))]
    BY <1>2, JoinedIs
  <2> QED BY <1>2, <1>3, <2>1, <2>2
<1>6. IsPrefix(got, FlattenSeq(h))
  <2>1. PICK m : m = Len(h) /\ m \in k..Len(h)
    BY <1>0, <1>2
  <2>2. k \in 0..Len(h)
    BY <1>2
  <2>3. \E t \in Seq(Seq(Nat)) : Joined(h)[m] = Joined(h)[k] \o t
    BY <1>2, <2>1, <2>2, JoinedGrows
  <2>4. \E t \in Seq(Seq(Nat)) : FlattenSeq(h) = got \o t
    BY <1>4, <1>5, <2>1, <2>3, Zenon
  <2> QED BY <1>4, <1>5, <2>4, PrefixIs, Zenon
<1>7. ASSUME ws.state = "open", wire.bytes = <<>>, Len(ws.rx) = ws.pending
      PROVE  got = FlattenSeq(h)
  <2>1. PICK i \in 0..Len(sent) : Arrived(i)
    BY <1>0, <1>7 DEF FramesIn
  <2>2. Left \in Seq(Nat) /\ Len(Left) = 0
    <3>1. /\ Left \in Seq(Nat) /\ Len(Left) = (Len(ws.rx) - ws.pending) + Len(wire.bytes)
          /\ ws.rx \in Seq(Nat)
      BY <1>0, LeftIs
    <3> QED BY <1>7, <3>1
  <2>3. i = Len(sent)
    <3> SUFFICES ASSUME i # Len(sent) PROVE FALSE
      OBVIOUS
    <3>1. PICK c : c = Codes(sent)
      OBVIOUS
    <3>2. c \in Seq(Seq(Nat)) /\ Len(c) = Len(sent)
      BY <1>0, <3>1, SentIs
    <3>3. i \in 0..(Len(c) - 1) /\ i + 1 \in 1..Len(sent)
      BY <1>0, <3>2
    <3>4. PICK t : Ahead(Nat, c, i, t)
      BY <3>2, <3>3, JoinedAhead
    <3>5. t \in Seq(Nat) /\ Left = c[i + 1] \o t
      BY <2>1, <3>1, <3>4, Zenon DEF Ahead, Arrived
    <3>6. PICK e : e = c[i + 1]
      OBVIOUS
    <3>7. e \in Seq(Nat) /\ Len(e) >= 2
      <4>1. /\ e = Frames!Encoded(sent[i + 1].op, sent[i + 1].payload)
            /\ sent[i + 1].op \in Nat /\ sent[i + 1].payload \in Seq(Nat)
        BY <1>0, <3>1, <3>3, <3>6, SentIs
      <4>2. PICK p : p \in Seq(Nat) /\ p = sent[i + 1].payload
        BY <4>1
      <4>3. e \in Seq(Nat) /\ IsCode(e, sent[i + 1].op, p)
        BY <4>1, <4>2, EncodedIs
      <4>4. Len(e) = Header(p) + Len(p) /\ Len(p) \in Nat
        BY <4>2, <4>3 DEF IsCode
      <4> QED BY <4>3, <4>4 DEF Header
    <3>8. Len(e \o t) = Len(e) + Len(t) /\ Len(e) \in Nat /\ Len(t) \in Nat
      BY <3>5, <3>7, ConcatProperties
    <3> QED BY <2>2, <3>5, <3>6, <3>7, <3>8
  <2> QED BY <1>1, <1>2, <1>4, <2>1, <2>3 DEF Arrived, HandedUpTo
<1>8. Frames!MessagesArriveWhole
  BY <1>2, <1>6, <1>7 DEF Frames!MessagesArriveWhole
<1>9. Frames!FramesLeaveWhole
  <2>1. PICK all : all = FlattenSeq(<<Frames!Request>> \o queued)
    OBVIOUS
  <2>2. received \in Seq(Nat) /\ tx \in Seq(Nat) /\ received \o tx = all
    BY <1>0, <2>1 DEF FramesOut
  <2>3. all \in Seq(Nat)
    BY <2>2, ConcatProperties
  <2>4. IsPrefix(received, all)
    BY <2>2, <2>3, PrefixIs, Zenon
  <2> QED BY <2>1, <2>2, <2>4, Zenon DEF Frames!FramesLeaveWhole
<1>10. Frames!TypeOK
  <2>1. Len(got) <= Len(sent)
    <3>1. PICK f : f \in [0..Len(h) -> Seq(Seq(Nat))] /\ f = Joined(h)
      BY <1>2, JoinedIs
    <3> DEFINE H == {i \in Nat : Len(f[i]) <= i}
    <3>2. 0 \in H
      <4>1. f[0] = <<>>
        BY <1>2, <3>1, JoinedIs
      <4> QED BY <4>1
    <3>3. ASSUME NEW i \in 0..Len(h), i # 0, i - 1 \in H PROVE i \in H
      <4>1. i \in 1..Len(h) /\ i - 1 \in 0..Len(h) /\ i \in Nat
        BY <1>2, <3>3
      <4>2. PICK a : a = f[i - 1]
        OBVIOUS
      <4>3. PICK b : b = h[i]
        OBVIOUS
      <4>4. a \in Seq(Seq(Nat)) /\ b \in Seq(Seq(Nat)) /\ Len(a) <= i - 1 /\ Len(b) <= 1
        <5>1. a \in Seq(Seq(Nat))
          BY <3>1, <4>1, <4>2
        <5>2. b \in Seq(Seq(Nat))
          BY <1>2, <4>1, <4>3
        <5>3. Len(a) <= i - 1
          BY <3>3, <4>2
        <5>4. b = IF sent[i].op = Frames!Bin THEN <<sent[i].payload>> ELSE <<>>
          BY <1>0, <1>1, <1>2, <4>1, <4>3, SentIs
        <5>5. Len(b) <= 1
          BY <5>4
        <5> QED BY <5>1, <5>2, <5>3, <5>5
      <4>5. f[i] = a \o b
        <5>1. \A j \in 1..Len(h) : Joined(h)[j] = Joined(h)[j - 1] \o h[j]
          BY <1>2, JoinedIs
        <5> QED BY <3>1, <4>1, <4>2, <4>3, <5>1, Zenon
      <4>6. Len(a \o b) = Len(a) + Len(b) /\ Len(a) \in Nat /\ Len(b) \in Nat
        BY <4>4, ConcatProperties
      <4>7. Len(f[i]) <= i
        BY <4>1, <4>4, <4>5, <4>6
      <4> QED BY <4>1, <4>7
    <3> HIDE DEF H
    <3>4. 0..Len(h) \subseteq H
      <4>1. Len(h) \in Nat /\ 0 \in Nat
        BY <1>2
      <4> QED BY <3>2, <3>3, <4>1, Upward
    <3>5. k \in H
      BY <1>2, <3>4
    <3>6. Len(got) <= k
      BY <1>5, <3>1, <3>5 DEF H
    <3>7. Len(got) \in Nat
      BY <1>5
    <3> QED BY <1>0, <3>6, <3>7
  <2>2. ws.rx \in Seq(Nat) /\ Len(ws.rx) <= RxCap /\ ws.pending \in 0..Len(ws.rx)
    BY <1>0, LeftIs DEF WsIs
  <2>3. /\ ws.state \in {"connecting", "upgrading", "open", "closed"}
        /\ tx \in Seq(Nat) /\ received \in Seq(Nat) /\ polling \in BOOLEAN
    BY <1>0 DEF WsIs, FramesIn, FramesOut
  <2> QED BY <1>0, <2>1, <2>2, <2>3 DEF Frames!TypeOK
<1> QED BY <1>8, <1>9, <1>10 DEF Frames!FramesArrive

-----------------------------------------------------------------------------
(* A function given at each place by itself at a later one.                *)

\* f is what base gives it, or what g makes of it at a later place.
GivenLater(f, base, jump, g, n) ==
  f = [p \in 1..n |-> IF jump[p] = 0 THEN base[p] ELSE g[<<p, f[jump[p]]>>]]

LEMMA FallThere ==
  ASSUME NEW S, NEW n \in Nat, NEW base \in [1..n -> S], NEW jump \in [1..n -> 0..n], NEW g,
         \A p \in 1..n : jump[p] # 0 => p < jump[p] /\ \A x \in S : g[<<p, x>>] \in S
  PROVE  \E f \in [1..n -> S] : GivenLater(f, base, jump, g, n)
<1> DEFINE Falls(f, k) == \A p \in (n - k + 1)..n :
             f[p] = IF jump[p] = 0 THEN base[p] ELSE g[<<p, f[jump[p]]>>]
           H == {k \in Nat : \E f \in [(n - k + 1)..n -> S] : Falls(f, k)}
<1>1. 0 \in H
  <2>1. (n - 0 + 1)..n = {}
    OBVIOUS
  <2>2. [p \in (n - 0 + 1)..n |-> base[p]] \in [(n - 0 + 1)..n -> S]
    BY <2>1
  <2> QED BY <2>1, <2>2
<1>2. ASSUME NEW k \in 0..n, k # 0, k - 1 \in H PROVE k \in H
  <2> DEFINE q == n - k + 1
  <2>0. /\ q \in 1..n /\ n - (k - 1) + 1 = q + 1 /\ k \in Nat
        /\ \A p \in q..n : p = q \/ p \in (q + 1)..n
    BY <1>2
  <2>1. PICK f \in [(q + 1)..n -> S] : Falls(f, k - 1)
    BY <1>2, <2>0
  <2>2. \A p \in (q + 1)..n : f[p] = IF jump[p] = 0 THEN base[p] ELSE g[<<p, f[jump[p]]>>]
    BY <2>0, <2>1
  <2> DEFINE x == IF jump[q] = 0 THEN base[q] ELSE g[<<q, f[jump[q]]>>]
             h == [p \in q..n |-> IF p = q THEN x ELSE f[p]]
  <2>3. \A p \in q..n : jump[p] # 0 => jump[p] \in (q + 1)..n
    BY <2>0
  <2>4. x \in S
    <3>1. CASE jump[q] = 0
      BY <2>0, <3>1
    <3>2. CASE jump[q] # 0
      <4>1. jump[q] \in (q + 1)..n
        BY <2>0, <2>3, <3>2
      <4>2. f[jump[q]] \in S
        BY <2>1, <4>1
      <4> QED BY <2>0, <3>2, <4>2
    <3> QED BY <3>1, <3>2
  <2> HIDE DEF x, q
  <2>5. h \in [q..n -> S]
    BY <2>0, <2>1, <2>4
  <2>6. h[q] = x /\ \A p \in (q + 1)..n : h[p] = f[p]
    BY <2>0
  <2> HIDE DEF h
  <2>7. ASSUME NEW p \in q..n
        PROVE  h[p] = IF jump[p] = 0 THEN base[p] ELSE g[<<p, h[jump[p]]>>]
    <3>1. CASE p = q
      <4>1. jump[q] # 0 => h[jump[q]] = f[jump[q]]
        BY <2>0, <2>3, <2>6
      <4> QED BY <2>6, <3>1, <4>1, Zenon DEF x
    <3>2. CASE p \in (q + 1)..n
      <4>1. jump[p] # 0 => h[jump[p]] = f[jump[p]]
        BY <2>3, <2>6
      <4> QED BY <2>2, <2>6, <3>2, <4>1, Zenon
    <3> QED BY <2>0, <3>1, <3>2
  <2>8. Falls(h, k)
    BY <2>7 DEF q
  <2> QED BY <2>0, <2>5, <2>8 DEF q
<1> HIDE DEF H
<1>3. 0..n \subseteq H
  BY <1>1, <1>2, Upward
<1>4. n \in H
  BY <1>3
<1>5. PICK f \in [(n - n + 1)..n -> S] : Falls(f, n)
  BY <1>4 DEF H
<1>6. n - n + 1 = 1
  OBVIOUS
<1>7. f \in [1..n -> S] /\ \A p \in 1..n : f[p] = IF jump[p] = 0 THEN base[p] ELSE g[<<p, f[jump[p]]>>]
  BY <1>5, <1>6
<1>8. GivenLater(f, base, jump, g, n)
  BY <1>7 DEF GivenLater
<1> QED BY <1>7, <1>8

-----------------------------------------------------------------------------
(* Bodies: a size line, and the chunks of bytes that are all there.        *)

LEMMA BodyFrom ==
  ASSUME NEW s, NEW p \in Int
  PROVE  Body!From(s, p + 1) = From(s, p)
BY DEF Body!From, From

EndsAt(s, i) == i \in 1..(Len(s) - 1) /\ s[i] = Body!CR /\ s[i + 1] = Body!LF

LEMMA EndsAre ==
  ASSUME NEW s, NEW i
  PROVE  i \in Body!LineEnds(s) <=> EndsAt(s, i)
BY Zenon DEF EndsAt, Body!LineEnds

LEMMA EolIs ==
  ASSUME NEW s \in Seq(Nat), Body!LineEnds(s) # {}
  PROVE  /\ Body!Eol(s) \in Body!LineEnds(s) /\ EndsAt(s, Body!Eol(s))
         /\ \A j \in Body!LineEnds(s) : Body!Eol(s) <= j
<1>1. Body!LineEnds(s) \subseteq Nat
  BY DEF Body!LineEnds
<1>2. \E i \in Body!LineEnds(s) : \A j \in Body!LineEnds(s) : i <= j
  BY <1>1, LeastNatural
<1>3. /\ Body!Eol(s) \in Body!LineEnds(s)
      /\ \A j \in Body!LineEnds(s) : Body!Eol(s) <= j
  BY <1>2, Zenon DEF Body!Eol
<1> QED BY <1>3, EndsAre, Zenon

\* What is there of a size line is what it is with more behind it.
LEMMA EolFirst ==
  ASSUME NEW s \in Seq(Nat), NEW t \in Seq(Nat), NEW w \in Seq(Nat), w = s \o t
  PROVE  /\ Body!LineEnds(s) # {} =>
              /\ Body!LineEnds(w) # {} /\ Body!Eol(w) = Body!Eol(s)
              /\ SubSeq(w, 1, Body!Eol(s) - 1) = SubSeq(s, 1, Body!Eol(s) - 1)
         /\ Body!LineEnds(s) = {} /\ Body!LineEnds(w) # {} => Len(s) <= Body!Eol(w)
<1>0. /\ Len(s) \in Nat /\ Len(w) \in Nat /\ Len(s) <= Len(w)
      /\ \A i \in 1..Len(s) : w[i] = s[i]
  BY ConcatProperties
<1>1. ASSUME NEW i, EndsAt(s, i) PROVE EndsAt(w, i)
  BY <1>0, <1>1 DEF EndsAt
<1>2. ASSUME NEW i, EndsAt(w, i), i < Len(s) PROVE EndsAt(s, i)
  BY <1>0, <1>2 DEF EndsAt
<1>3. ASSUME Body!LineEnds(s) # {}
      PROVE  /\ Body!LineEnds(w) # {} /\ Body!Eol(w) = Body!Eol(s)
             /\ SubSeq(w, 1, Body!Eol(s) - 1) = SubSeq(s, 1, Body!Eol(s) - 1)
  <2>1. PICK i : i = Body!Eol(s)
    OBVIOUS
  <2>2. EndsAt(s, i) /\ \A j : EndsAt(s, j) => i <= j
    BY <1>3, <2>1, EolIs, EndsAre, Zenon
  <2>3. EndsAt(w, i)
    BY <1>1, <2>2
  <2>4. i \in Body!LineEnds(w)
    BY <2>3, EndsAre
  <2>5. PICK k : k = Body!Eol(w)
    OBVIOUS
  <2>6. EndsAt(w, k) /\ \A j : EndsAt(w, j) => k <= j
    BY <2>4, <2>5, EolIs, EndsAre, Zenon
  <2>7. k \in Nat /\ i \in Nat /\ i < Len(s) /\ k <= i /\ 1 <= i
    <3>1. k \in 1..(Len(w) - 1) /\ i \in 1..(Len(s) - 1)
      BY <2>2, <2>6, Zenon DEF EndsAt
    <3>2. k <= i
      BY <2>3, <2>6, Zenon
    <3> QED BY <1>0, <3>1, <3>2
  <2>8. EndsAt(s, k)
    BY <1>2, <2>6, <2>7
  <2>9. k = i
    BY <2>2, <2>7, <2>8
  <2>10. SubSeq(w, 1, i - 1) = SubSeq(s, 1, i - 1)
    <3> DEFINE a == SubSeq(w, 1, i - 1)  b == SubSeq(s, 1, i - 1)
    <3>1. /\ a \in Seq(Nat) /\ Len(a) = i - 1 /\ \A j \in 1..(i - 1) : a[j] = w[j]
          /\ b \in Seq(Nat) /\ Len(b) = i - 1 /\ \A j \in 1..(i - 1) : b[j] = s[j]
      BY <1>0, <2>7
    <3> HIDE DEF a, b
    <3>2. ASSUME NEW j \in 1..Len(a) PROVE a[j] = b[j]
      <4>1. j \in 1..(i - 1) /\ j \in 1..Len(s)
        BY <1>0, <2>7, <3>1
      <4> QED BY <1>0, <3>1, <4>1
    <3>3. a = b
      BY <3>1, <3>2, SeqEqual
    <3> QED BY <3>3 DEF a, b
  <2> QED BY <2>1, <2>4, <2>5, <2>9, <2>10
<1>4. ASSUME Body!LineEnds(s) = {}, Body!LineEnds(w) # {} PROVE Len(s) <= Body!Eol(w)
  <2>1. PICK k : k = Body!Eol(w)
    OBVIOUS
  <2>2. EndsAt(w, k)
    BY <1>4, <2>1, EolIs, Zenon
  <2>3. ~EndsAt(s, k)
    BY <1>4, EndsAre
  <2>4. ~(k < Len(s)) /\ k \in Nat
    BY <1>2, <2>2, <2>3 DEF EndsAt
  <2> QED BY <1>0, <2>1, <2>4
<1> QED BY <1>3, <1>4

Sizes(f, d) == f = [i \in 0..Len(d) |-> IF i = 0 THEN 0 ELSE 2 * f[i - 1] + d[i]]

LEMMA SizeIs ==
  ASSUME NEW d \in Seq(Nat)
  PROVE  Body!Size(d) \in Nat
<1> DEFINE n == Len(d)
           g == [p \in (1..n) \X Nat |-> 2 * p[2] + d[p[1]]]
<1>0. n \in Nat /\ \A k \in 1..n : d[k] \in Nat
  OBVIOUS
<1>1. \A k \in 1..n : \A x \in Nat : g[<<k, x>>] = 2 * x + d[k]
  OBVIOUS
<1>2. \A k \in 1..n : \A x \in Nat : g[<<k, x>>] \in Nat
  <2>1. ASSUME NEW k \in 1..n, NEW x \in Nat PROVE 2 * x + d[k] \in Nat
    <3>1. d[k] \in Nat
      BY <1>0
    <3> QED BY <3>1
  <2> QED BY <1>1, <2>1, Zenon
<1> HIDE DEF n, g
<1>3. PICK f \in [0..n -> Nat] : Folds(f, 0, g, n)
  BY <1>0, <1>2, FoldThere
<1>4. f = [k \in 0..n |-> IF k = 0 THEN 0 ELSE g[<<k, f[k - 1]>>]]
  BY <1>3, Zenon DEF Folds
<1>5. ASSUME NEW k \in 0..n PROVE f[k] = IF k = 0 THEN 0 ELSE 2 * f[k - 1] + d[k]
  <2>1. f[k] = IF k = 0 THEN 0 ELSE g[<<k, f[k - 1]>>]
    BY <1>4, Zenon
  <2>2. CASE k # 0
    <3>1. k \in 1..n /\ k - 1 \in 0..n
      BY <1>0, <2>2
    <3>2. f[k - 1] \in Nat
      BY <1>3, <3>1
    <3> QED BY <1>1, <2>1, <2>2, <3>1, <3>2
  <2> QED BY <2>1, <2>2
<1>6. f = [k \in 0..n |-> IF k = 0 THEN 0 ELSE 2 * f[k - 1] + d[k]]
  BY <1>3, <1>5
<1>7. Sizes(f, d)
  BY <1>6, Zenon DEF Sizes, n
<1>8. PICK h : h = CHOOSE x : Sizes(x, d)
  OBVIOUS
<1>9. Sizes(h, d)
  BY <1>7, <1>8, Zenon
<1>10. h = [k \in 0..n |-> IF k = 0 THEN 0 ELSE 2 * h[k - 1] + d[k]]
  BY <1>9, Zenon DEF Sizes, n
<1>11. ASSUME NEW k \in 0..n PROVE h[k] = IF k = 0 THEN 0 ELSE 2 * h[k - 1] + d[k]
  BY <1>10, Zenon
<1> DEFINE H == {k \in Nat : h[k] \in Nat}
<1>12. 0 \in H
  <2>1. 0 \in 0..n
    BY <1>0
  <2>2. h[0] = 0
    BY <1>11, <2>1
  <2> QED BY <2>2
<1>13. ASSUME NEW k \in 0..n, k # 0, k - 1 \in H PROVE k \in H
  <2>1. h[k] = 2 * h[k - 1] + d[k] /\ d[k] \in Nat /\ k \in Nat
    BY <1>0, <1>11, <1>13
  <2>2. h[k - 1] \in Nat
    BY <1>13
  <2>3. h[k] \in Nat
    BY <2>1, <2>2
  <2> QED BY <2>1, <2>3
<1> HIDE DEF H
<1>14. 0..n \subseteq H
  BY <1>0, <1>12, <1>13, Upward
<1>15. h[n] \in Nat
  BY <1>0, <1>14 DEF H
<1>16. Body!Size(d) = (CHOOSE x : Sizes(x, d))[n]
  BY Zenon DEF Body!Size, Sizes, n
<1> QED BY <1>8, <1>15, <1>16

Places(b) == 1..(Len(b) + 1)

LEMMA PlaceIs ==
  ASSUME NEW b \in Seq(Nat), NEW p \in Places(b)
  PROVE  /\ Body!From(b, p) \in Seq(Nat) /\ Len(Body!From(b, p)) = Len(b) - p + 1
         /\ \A j \in 1..(Len(b) - p + 1) : Body!From(b, p)[j] = b[p + j - 1]
         /\ p \in Nat /\ 1 <= p /\ p <= Len(b) + 1 /\ Len(b) \in Nat
<1>1. p \in Nat /\ 1 <= p /\ p <= Len(b) + 1 /\ Len(b) \in Nat
  BY DEF Places
<1> QED BY <1>1 DEF Body!From

LEMMA SizeLineIs ==
  ASSUME NEW b \in Seq(Nat), NEW p \in Places(b), Body!LineEnds(Body!From(b, p)) # {}
  PROVE  /\ Body!Eol(Body!From(b, p)) \in 1..(Len(b) - p) /\ Body!Digits(b, p) \in Seq(Nat)
         /\ Body!Data(b, p) = p + Body!Eol(Body!From(b, p)) + 1
         /\ Body!Data(b, p) \in Places(b) /\ p < Body!Data(b, p)
         /\ Body!Size(Body!Digits(b, p)) \in Nat
<1> DEFINE s == Body!From(b, p)  e == Body!Eol(s)
<1>1. s \in Seq(Nat) /\ Len(s) = Len(b) - p + 1 /\ p \in Nat /\ 1 <= p /\ p <= Len(b) + 1 /\ Len(b) \in Nat
  BY PlaceIs
<1>2. Body!LineEnds(s) # {}
  OBVIOUS
<1>3. Body!Data(b, p) = p + e + 1 /\ Body!Digits(b, p) = SubSeq(s, 1, e - 1)
  BY Zenon DEF Body!Data, Body!Digits
<1> HIDE DEF s
<1>4. EndsAt(s, e)
  BY <1>1, <1>2, EolIs
<1> HIDE DEF e
<1>5. e \in 1..(Len(s) - 1)
  BY <1>4 DEF EndsAt
<1>6. e \in 1..(Len(b) - p) /\ p + e + 1 \in Places(b) /\ p < p + e + 1
  BY <1>1, <1>5 DEF Places
<1>7. SubSeq(s, 1, e - 1) \in Seq(Nat)
  BY <1>1, <1>5
<1>8. Body!Size(Body!Digits(b, p)) \in Nat
  BY <1>3, <1>7, SizeIs
<1> QED BY <1>3, <1>6, <1>7, <1>8 DEF s, e

LEMMA PieceIs ==
  ASSUME NEW b \in Seq(Nat), NEW p \in Places(b), NEW n \in Nat
  PROVE  Body!Piece(b, p, n) \in Seq(Nat)
<1>1. p \in Nat /\ 1 <= p /\ p <= Len(b) + 1 /\ Len(b) \in Nat
  BY DEF Places
<1>2. PICK k : k = IF p + n - 1 <= Len(b) THEN p + n - 1 ELSE Len(b)
  OBVIOUS
<1>3. k \in Nat /\ p <= k + 1 /\ k <= Len(b)
  BY <1>1, <1>2
<1>4. SubSeq(b, p, k) \in Seq(Nat)
  BY <1>1, <1>3, PartIs
<1> QED BY <1>2, <1>4 DEF Body!Piece

Chunk == [body : Seq(Nat), sound : BOOLEAN]
EndOf(b, p) == Body!Data(b, p) + Body!Size(Body!Digits(b, p))

\* What a chunk with n bytes left from p on makes of the rest.
Rest(b, c, p, n) ==
  IF Body!CrlfAt(b, p + n) THEN Body!Piece(b, p, n) \o c[p + n + 2].body ELSE Body!Piece(b, p, n)
RestSound(b, c, p, n) ==
  IF Body!CrlfAt(b, p + n) THEN c[p + n + 2].sound ELSE p + n >= Len(b)

ChunkAt(b, c, p) ==
  c[p] = IF ~Body!Begins(b, p) THEN [body |-> <<>>, sound |-> Body!IsShort(b, p)]
         ELSE IF ~Body!CrlfAt(b, EndOf(b, p))
         THEN [body |-> Body!Piece(b, Body!Data(b, p), Body!Size(Body!Digits(b, p))),
               sound |-> Body!IsShort(b, p) /\ EndOf(b, p) >= Len(b)]
         ELSE [body |-> Body!Piece(b, Body!Data(b, p), Body!Size(Body!Digits(b, p)))
                          \o c[EndOf(b, p) + 2].body,
               sound |-> Body!IsShort(b, p) /\ c[EndOf(b, p) + 2].sound]

ChunksOf(b, c) ==
  c = [p \in 1..(Len(b) + 1) |->
         IF ~Body!Begins(b, p) THEN [body |-> <<>>, sound |-> Body!IsShort(b, p)]
         ELSE IF ~Body!CrlfAt(b, EndOf(b, p))
         THEN [body |-> Body!Piece(b, Body!Data(b, p), Body!Size(Body!Digits(b, p))),
               sound |-> Body!IsShort(b, p) /\ EndOf(b, p) >= Len(b)]
         ELSE [body |-> Body!Piece(b, Body!Data(b, p), Body!Size(Body!Digits(b, p)))
                          \o c[EndOf(b, p) + 2].body,
               sound |-> Body!IsShort(b, p) /\ c[EndOf(b, p) + 2].sound]]

LEMMA BeginsIs ==
  ASSUME NEW b \in Seq(Nat), NEW p \in Places(b), Body!Begins(b, p)
  PROVE  /\ Body!LineEnds(Body!From(b, p)) # {}
         /\ Body!Data(b, p) \in Places(b) /\ p < Body!Data(b, p)
         /\ Body!Size(Body!Digits(b, p)) \in Nat
         /\ EndOf(b, p) \in Nat /\ p < EndOf(b, p)
         /\ Body!CrlfAt(b, EndOf(b, p)) => EndOf(b, p) + 2 \in Places(b)
<1>1. Body!LineEnds(Body!From(b, p)) # {}
  BY DEF Body!Begins, Body!HasSize
<1>2. /\ Body!Data(b, p) \in Places(b) /\ p < Body!Data(b, p)
      /\ Body!Size(Body!Digits(b, p)) \in Nat
  BY <1>1, SizeLineIs
<1>3. EndOf(b, p) \in Nat /\ p < EndOf(b, p) /\ 1 <= EndOf(b, p)
  BY <1>2 DEF EndOf, Places
<1>4. Body!CrlfAt(b, EndOf(b, p)) => EndOf(b, p) + 2 \in Places(b)
  <2> HIDE DEF EndOf
  <2> QED BY <1>3 DEF Body!CrlfAt, Places
<1> QED BY <1>1, <1>2, <1>3, <1>4

LEMMA ShortIs ==
  ASSUME NEW b, NEW p
  PROVE  Body!IsShort(b, p) \in BOOLEAN /\ (EndOf(b, p) >= Len(b)) \in BOOLEAN
         /\ Body!Begins(b, p) \in BOOLEAN /\ Body!CrlfAt(b, p) \in BOOLEAN
<1>1. (EndOf(b, p) >= Len(b)) \in BOOLEAN /\ (Len(Body!From(b, p)) <= Body!MaxSize) \in BOOLEAN
      /\ (Body!Eol(Body!From(b, p)) <= Body!MaxSize) \in BOOLEAN
  OBVIOUS
<1> QED BY Zenon, <1>1 DEF Body!IsShort, Body!HasSize, Body!Begins, Body!CrlfAt

\* The chunks are what they are said to be, at every place.
LEMMA ChunksAre ==
  ASSUME NEW b \in Seq(Nat)
  PROVE  /\ Body!Chunks(b) \in [Places(b) -> Chunk]
         /\ \A p \in Places(b) : ChunkAt(b, Body!Chunks(b), p)
<1> DEFINE n == Len(b) + 1
           jumps(p) == Body!Begins(b, p) /\ Body!CrlfAt(b, EndOf(b, p))
           piece(p) == Body!Piece(b, Body!Data(b, p), Body!Size(Body!Digits(b, p)))
           short(p) == Body!IsShort(b, p)
           last(p) == Body!IsShort(b, p) /\ EndOf(b, p) >= Len(b)
           base == [p \in 1..n |-> IF ~Body!Begins(b, p) THEN [body |-> <<>>, sound |-> short(p)]
                                   ELSE [body |-> piece(p), sound |-> last(p)]]
           jump == [p \in 1..n |-> IF jumps(p) THEN EndOf(b, p) + 2 ELSE 0]
           g == [k \in (1..n) \X Chunk |->
                   [body |-> piece(k[1]) \o k[2].body, sound |-> short(k[1]) /\ k[2].sound]]
<1>1. n \in Nat /\ Places(b) = 1..n
  BY DEF Places
<1>2. ASSUME NEW p \in 1..n
      PROVE  short(p) \in BOOLEAN /\ last(p) \in BOOLEAN
  BY Zenon, ShortIs
<1>3. ASSUME NEW p \in 1..n, Body!Begins(b, p)
      PROVE  /\ piece(p) \in Seq(Nat) /\ p < EndOf(b, p)
             /\ Body!CrlfAt(b, EndOf(b, p)) => EndOf(b, p) + 2 \in 1..n
             /\ EndOf(b, p) \in Nat
  <2>1. p \in Places(b)
    BY <1>1
  <2>2. /\ Body!Data(b, p) \in Places(b) /\ Body!Size(Body!Digits(b, p)) \in Nat
        /\ EndOf(b, p) \in Nat /\ p < EndOf(b, p)
        /\ Body!CrlfAt(b, EndOf(b, p)) => EndOf(b, p) + 2 \in Places(b)
    BY <2>1, <1>3, BeginsIs
  <2>3. piece(p) \in Seq(Nat)
    BY <2>2, PieceIs
  <2> QED BY <2>2, <2>3, <1>1
<1> HIDE DEF piece, short, last, n
<1>4. base \in [1..n -> Chunk]
  <2> SUFFICES ASSUME NEW p \in 1..n PROVE base[p] \in Chunk
    OBVIOUS
  <2> QED BY <1>2, <1>3 DEF Chunk
<1>5. jump \in [1..n -> 0..n]
  <2> SUFFICES ASSUME NEW p \in 1..n PROVE jump[p] \in 0..n
    OBVIOUS
  <2>1. CASE jumps(p)
    <3>1. EndOf(b, p) + 2 \in 1..n
      BY <1>3, <2>1
    <3> QED BY <3>1, <2>1, <1>1
  <2> QED BY <2>1, <1>1
<1>6. ASSUME NEW p \in 1..n, jump[p] # 0
      PROVE  jumps(p) /\ p < jump[p] /\ \A x \in Chunk : g[<<p, x>>] \in Chunk
  <2>1. jumps(p)
    BY <1>6
  <2>2. p < jump[p]
    BY <2>1, <1>3, <1>1
  <2>3. piece(p) \in Seq(Nat) /\ short(p) \in BOOLEAN
    BY <2>1, <1>2, <1>3
  <2>4. ASSUME NEW x \in Chunk PROVE g[<<p, x>>] \in Chunk
    <3>1. g[<<p, x>>] = [body |-> piece(p) \o x.body, sound |-> short(p) /\ x.sound]
      OBVIOUS
    <3>2. x.body \in Seq(Nat) /\ x.sound \in BOOLEAN
      BY DEF Chunk
    <3> QED BY <3>1, <3>2, <2>3 DEF Chunk
  <2> HIDE DEF jump, jumps, g
  <2> QED BY Zenon, <2>1, <2>2, <2>4
<1>7. \A p \in 1..n : jump[p] # 0 => p < jump[p] /\ \A x \in Chunk : g[<<p, x>>] \in Chunk
  BY Zenon, <1>6
<1>8. PICK f \in [1..n -> Chunk] : GivenLater(f, base, jump, g, n)
  <2> HIDE DEF base, jump, g
  <2>1. n \in Nat
    BY <1>1
  <2> QED BY <2>1, <1>4, <1>5, <1>7, FallThere
<1>9. ASSUME NEW p \in 1..n
      PROVE  f[p] = IF ~Body!Begins(b, p) THEN [body |-> <<>>, sound |-> short(p)]
                    ELSE IF ~Body!CrlfAt(b, EndOf(b, p)) THEN [body |-> piece(p), sound |-> last(p)]
                    ELSE [body |-> piece(p) \o f[EndOf(b, p) + 2].body,
                          sound |-> short(p) /\ f[EndOf(b, p) + 2].sound]
  <2>1. f[p] = IF jump[p] = 0 THEN base[p] ELSE g[<<p, f[jump[p]]>>]
    <3> HIDE DEF base, jump, g
    <3> QED BY <1>8 DEF GivenLater
  <2>2. CASE ~jumps(p)
    <3>1. jump[p] = 0 /\ base[p] = IF ~Body!Begins(b, p) THEN [body |-> <<>>, sound |-> short(p)]
                                   ELSE [body |-> piece(p), sound |-> last(p)]
      BY <2>2
    <3> HIDE DEF base, jump, g
    <3> QED BY <2>1, <2>2, <3>1
  <2>3. CASE jumps(p)
    <3>1. EndOf(b, p) + 2 \in 1..n /\ jump[p] = EndOf(b, p) + 2
      BY <2>3, <1>3
    <3>2. jump[p] # 0
      <4> HIDE DEF jump
      <4> QED BY <3>1, <1>1
    <3>3. f[EndOf(b, p) + 2] \in Chunk
      BY <3>1
    <3>4. g[<<p, f[EndOf(b, p) + 2]>>]
             = [body |-> piece(p) \o f[EndOf(b, p) + 2].body,
                sound |-> short(p) /\ f[EndOf(b, p) + 2].sound]
      BY <3>3
    <3> HIDE DEF base, jump, g
    <3> QED BY Zenon, <2>1, <2>3, <3>1, <3>2, <3>4
  <2> QED BY <2>2, <2>3
<1>10. ChunksOf(b, f)
  <2>1. f = [p \in 1..n |-> f[p]]
    OBVIOUS
  <2>2. f = [p \in 1..n |->
               IF ~Body!Begins(b, p) THEN [body |-> <<>>, sound |-> short(p)]
                    ELSE IF ~Body!CrlfAt(b, EndOf(b, p)) THEN [body |-> piece(p), sound |-> last(p)]
                    ELSE [body |-> piece(p) \o f[EndOf(b, p) + 2].body,
                          sound |-> short(p) /\ f[EndOf(b, p) + 2].sound]]
    BY Zenon, <2>1, <1>9
  <2> QED BY Zenon, <2>2 DEF ChunksOf, n, piece, short, last
<1>11. Body!Chunks(b) = CHOOSE c : ChunksOf(b, c)
  BY Zenon DEF Body!Chunks, ChunksOf, EndOf
<1>12. ChunksOf(b, Body!Chunks(b))
  BY Zenon, <1>10, <1>11
<1>13. PICK c : c = Body!Chunks(b)
  OBVIOUS
<1>14. c = [p \in 1..n |->
              IF ~Body!Begins(b, p) THEN [body |-> <<>>, sound |-> short(p)]
                   ELSE IF ~Body!CrlfAt(b, EndOf(b, p)) THEN [body |-> piece(p), sound |-> last(p)]
                   ELSE [body |-> piece(p) \o c[EndOf(b, p) + 2].body,
                         sound |-> short(p) /\ c[EndOf(b, p) + 2].sound]]
  BY Zenon, <1>12, <1>13 DEF ChunksOf, n, piece, short, last
<1>15. ASSUME NEW p \in 1..n
       PROVE  c[p] = IF ~Body!Begins(b, p) THEN [body |-> <<>>, sound |-> short(p)]
                     ELSE IF ~Body!CrlfAt(b, EndOf(b, p)) THEN [body |-> piece(p), sound |-> last(p)]
                     ELSE [body |-> piece(p) \o c[EndOf(b, p) + 2].body,
                           sound |-> short(p) /\ c[EndOf(b, p) + 2].sound]
  BY Zenon, <1>14
<1>16. ASSUME NEW p \in 1..n, \A q \in 1..n : p < q => c[q] \in Chunk
       PROVE  c[p] \in Chunk
  <2>1. short(p) \in BOOLEAN /\ last(p) \in BOOLEAN
    BY <1>2
  <2>2. CASE ~Body!Begins(b, p)
    <3>1. c[p] = [body |-> <<>>, sound |-> short(p)]
      BY Zenon, <1>15, <2>2
    <3> QED BY <2>1, <3>1 DEF Chunk
  <2>3. CASE Body!Begins(b, p) /\ ~Body!CrlfAt(b, EndOf(b, p))
    <3>1. c[p] = [body |-> piece(p), sound |-> last(p)] /\ piece(p) \in Seq(Nat)
      BY Zenon, <1>3, <1>15, <2>3
    <3> QED BY <2>1, <3>1 DEF Chunk
  <2>4. CASE Body!Begins(b, p) /\ Body!CrlfAt(b, EndOf(b, p))
    <3>1. PICK q : q = EndOf(b, p) + 2
      OBVIOUS
    <3>2. q \in 1..n /\ p < q /\ piece(p) \in Seq(Nat)
      BY <1>3, <2>4, <3>1
    <3>3. c[q] \in Chunk
      BY <1>16, <3>2
    <3>4. c[p] = [body |-> piece(p) \o c[q].body, sound |-> short(p) /\ c[q].sound]
      BY Zenon, <1>15, <2>4, <3>1
    <3>5. c[q].body \in Seq(Nat) /\ c[q].sound \in BOOLEAN
      BY <3>3 DEF Chunk
    <3> QED BY <2>1, <3>2, <3>4, <3>5 DEF Chunk
  <2> QED BY <2>2, <2>3, <2>4
<1>17. \A p \in 1..n : c[p] \in Chunk
  <2> DEFINE H == {k \in Nat : \A p \in 1..n : n - k <= p => c[p] \in Chunk}
  <2>1. ASSUME NEW k \in 0..n, \A p \in 1..n : n - k < p => c[p] \in Chunk PROVE k \in H
    <3>1. SUFFICES ASSUME NEW p \in 1..n, n - k <= p PROVE c[p] \in Chunk
      BY <1>1
    <3>2. \A q \in 1..n : p < q => n - k < q
      BY <1>1, <3>1
    <3> QED BY Zenon, <1>16, <2>1, <3>2
  <2>2. 0 \in H
    <3>1. 0 \in 0..n /\ \A p \in 1..n : ~(n - 0 < p)
      BY <1>1
    <3> HIDE DEF H
    <3> QED BY <2>1, <3>1
  <2>3. ASSUME NEW k \in 0..n, k # 0, k - 1 \in H PROVE k \in H
    <3>1. \A p \in 1..n : n - (k - 1) <= p => c[p] \in Chunk
      BY <2>3
    <3>2. \A p \in 1..n : n - k < p => n - (k - 1) <= p
      BY <1>1
    <3> HIDE DEF H
    <3> QED BY <2>1, <3>1, <3>2
  <2>4. 0..n \subseteq H
    <3> HIDE DEF H
    <3> QED BY <1>1, <2>2, <2>3, Upward
  <2>5. n \in 0..n /\ \A p \in 1..n : n - n <= p
    <3> HIDE DEF H
    <3> QED BY <1>1
  <2> QED BY Zenon, <2>4, <2>5
<1>18. c \in [1..n -> Chunk]
  BY <1>14, <1>17
<1>19. \A p \in 1..n : ChunkAt(b, c, p)
  BY Zenon, <1>15 DEF ChunkAt, piece, short, last
<1> QED BY Zenon, <1>1, <1>13, <1>18, <1>19

-----------------------------------------------------------------------------
(* Bodies: the lines of one.                                               *)

\* The line after i ends at j.
LineEndsAt(body, i, j) ==
  /\ j \in i..Len(body) /\ (j = Len(body) \/ j + 1 \in Body!Ends(body))
  /\ \A k \in (i + 1)..j : k \notin Body!Ends(body)

LEMMA BreaksAre ==
  ASSUME NEW body \in Seq(Nat)
  PROVE  /\ \A i : i \in Body!Ends(body) => i \in 0..Len(body)
         /\ \A i \in 1..Len(body) : i \in Body!Ends(body) <=> body[i] = Body!LF
         /\ 0 \in Body!Ends(body)
BY DEF Body!Ends

LEMMA LineAfterIs ==
  ASSUME NEW body \in Seq(Nat), NEW i \in 0..Len(body)
  PROVE  \E j \in i..Len(body) : LineEndsAt(body, i, j) /\ Body!LineAfter(body, i) = SubSeq(body, i + 1, j)
<1> DEFINE T == {j \in i..Len(body) : j = Len(body) \/ j + 1 \in Body!Ends(body)}
<1>0. i \in Nat /\ Len(body) \in Nat /\ i <= Len(body)
  OBVIOUS
<1>1. T \subseteq Nat /\ Len(body) \in T
  BY <1>0
<1> HIDE DEF T
<1>2. PICK j \in T : \A k \in T : j <= k
  BY <1>1, LeastNatural
<1>3. j \in i..Len(body) /\ (j = Len(body) \/ j + 1 \in Body!Ends(body))
  BY <1>2 DEF T
<1>4. ASSUME NEW k \in (i + 1)..j, k \in Body!Ends(body) PROVE FALSE
  <2>1. k - 1 \in i..Len(body) /\ (k - 1) + 1 = k /\ ~(j <= k - 1)
    BY <1>0, <1>3, <1>4
  <2>2. k - 1 \in T
    BY <1>4, <2>1 DEF T
  <2> QED BY <1>2, <2>1, <2>2
<1>5. LineEndsAt(body, i, j)
  BY <1>3, <1>4 DEF LineEndsAt
<1>6. Body!LineAfter(body, i) = SubSeq(body, i + 1, CHOOSE m \in i..Len(body) : LineEndsAt(body, i, m))
  <2>1. ASSUME NEW m \in i..Len(body)
        PROVE  LineEndsAt(body, i, m) <=> /\ m = Len(body) \/ m + 1 \in Body!Ends(body)
                                          /\ \A k \in (i + 1)..m : k \notin Body!Ends(body)
    BY Zenon, <2>1 DEF LineEndsAt
  <2>2. (CHOOSE m \in i..Len(body) : LineEndsAt(body, i, m))
          = CHOOSE m \in i..Len(body) : /\ m = Len(body) \/ m + 1 \in Body!Ends(body)
                                        /\ \A k \in (i + 1)..m : k \notin Body!Ends(body)
    BY Zenon, <2>1
  <2> QED BY Zenon, <2>2 DEF Body!LineAfter
<1> QED BY Zenon, <1>3, <1>5, <1>6

\* There is one such place.
LEMMA LineEndIs ==
  ASSUME NEW body \in Seq(Nat), NEW i \in 0..Len(body), NEW j, LineEndsAt(body, i, j)
  PROVE  Body!LineAfter(body, i) = SubSeq(body, i + 1, j)
<1>1. PICK k \in i..Len(body) :
        LineEndsAt(body, i, k) /\ Body!LineAfter(body, i) = SubSeq(body, i + 1, k)
  BY LineAfterIs
<1>2. /\ j \in i..Len(body) /\ (j = Len(body) \/ j + 1 \in Body!Ends(body))
      /\ \A m \in (i + 1)..j : m \notin Body!Ends(body)
      /\ k = Len(body) \/ k + 1 \in Body!Ends(body)
      /\ \A m \in (i + 1)..k : m \notin Body!Ends(body)
  BY <1>1 DEF LineEndsAt
<1>3. CASE j < k
  <2>1. j + 1 \in (i + 1)..k /\ j # Len(body)
    BY <1>1, <1>2, <1>3
  <2> QED BY <1>2, <2>1
<1>4. CASE k < j
  <2>1. k + 1 \in (i + 1)..j /\ k # Len(body)
    BY <1>1, <1>2, <1>4
  <2> QED BY <1>2, <2>1
<1>5. j = k
  BY <1>2, <1>3, <1>4
<1> QED BY <1>1, <1>5

\* The lines of a body, each where it begins.
LinesAt(body) ==
  [n \in 1..(Len(body) + 1) |->
     IF n - 1 \in Body!Ends(body) /\ Body!LineAfter(body, n - 1) # <<>> THEN <<Body!LineAfter(body, n - 1)>>
     ELSE <<>>]

LEMMA LinesAre ==
  ASSUME NEW body \in Seq(Nat)
  PROVE  /\ LinesAt(body) \in Seq(Seq(Seq(Nat))) /\ Len(LinesAt(body)) = Len(body) + 1
         /\ Body!LinesOf(body) = FlattenSeq(LinesAt(body))
         /\ \A i \in 0..Len(body) : /\ Body!LineAfter(body, i) \in Seq(Nat)
                                    /\ LinesAt(body)[i + 1] =
                                         IF i \in Body!Ends(body) /\ Body!LineAfter(body, i) # <<>>
                                         THEN <<Body!LineAfter(body, i)>> ELSE <<>>
<1>0. Len(body) \in Nat
  OBVIOUS
<1>1. ASSUME NEW i \in 0..Len(body) PROVE Body!LineAfter(body, i) \in Seq(Nat)
  <2>1. PICK j \in i..Len(body) : Body!LineAfter(body, i) = SubSeq(body, i + 1, j)
    BY LineAfterIs
  <2>2. SubSeq(body, i + 1, j) \in Seq(Nat)
    <3>1. i + 1 \in Nat /\ j \in Nat /\ 1 <= i + 1 /\ i + 1 <= j + 1 /\ j <= Len(body)
      BY <2>1
    <3> QED BY <3>1, PartIs
  <2> QED BY <2>1, <2>2
<1>2. ASSUME NEW n \in 1..(Len(body) + 1) PROVE LinesAt(body)[n] \in Seq(Seq(Nat))
  <2>1. n - 1 \in 0..Len(body)
    OBVIOUS
  <2>2. Body!LineAfter(body, n - 1) \in Seq(Nat)
    BY <1>1, <2>1
  <2>3. <<Body!LineAfter(body, n - 1)>> \in Seq(Seq(Nat)) /\ <<>> \in Seq(Seq(Nat))
    BY <2>2
  <2>4. LinesAt(body)[n] = <<Body!LineAfter(body, n - 1)>> \/ LinesAt(body)[n] = <<>>
    BY Zenon, <1>2 DEF LinesAt
  <2> QED BY <2>3, <2>4
<1>3. LinesAt(body) \in [1..(Len(body) + 1) -> Seq(Seq(Nat))]
  <2>1. LinesAt(body) = [n \in 1..(Len(body) + 1) |-> LinesAt(body)[n]]
    BY Zenon DEF LinesAt
  <2> QED BY <1>2, <2>1
<1>4. LinesAt(body) \in Seq(Seq(Seq(Nat))) /\ Len(LinesAt(body)) = Len(body) + 1
  <2>1. Len(body) + 1 \in Nat
    BY <1>0
  <2> QED BY <1>3, <2>1, ASequence
<1>5. Body!LinesOf(body) = FlattenSeq(LinesAt(body))
  BY Zenon DEF Body!LinesOf, LinesAt
<1>6. ASSUME NEW i \in 0..Len(body)
      PROVE  LinesAt(body)[i + 1] = IF i \in Body!Ends(body) /\ Body!LineAfter(body, i) # <<>>
                                    THEN <<Body!LineAfter(body, i)>> ELSE <<>>
  <2>1. i + 1 \in 1..(Len(body) + 1) /\ (i + 1) - 1 = i
    BY <1>0
  <2>2. LinesAt(body)[i + 1] = IF (i + 1) - 1 \in Body!Ends(body) /\ Body!LineAfter(body, (i + 1) - 1) # <<>>
                               THEN <<Body!LineAfter(body, (i + 1) - 1)>> ELSE <<>>
    BY Zenon, <2>1 DEF LinesAt
  <2> QED BY Zenon, <2>1, <2>2
<1> QED BY Zenon, <1>1, <1>4, <1>5, <1>6

\* After k bytes of a body: the lines that are over, and what there is of the one that
\* begins after i.
LineSince(body, k, buf, ls, i) ==
  /\ i \in 0..k /\ i \in Body!Ends(body) /\ (\A m \in (i + 1)..k : m \notin Body!Ends(body))
  /\ buf = SubSeq(body, i + 1, k) /\ ls = Joined(LinesAt(body))[i]
LineState(body, k, buf, ls) == \E i : LineSince(body, k, buf, ls, i)

\* Where no line begins, none is added.
LEMMA NoLines ==
  ASSUME NEW body \in Seq(Nat), NEW i \in 0..(Len(body) + 1), NEW k \in i..(Len(body) + 1),
         \A m \in i..(k - 1) : m \notin Body!Ends(body) \/ Body!LineAfter(body, m) = <<>>
  PROVE  Joined(LinesAt(body))[k] = Joined(LinesAt(body))[i]
<1> DEFINE J == Joined(LinesAt(body))
           H == {m \in i..k : J[m] = J[i]}
<1>0. i \in Nat /\ k \in Nat /\ i <= k /\ k <= Len(body) + 1 /\ Len(body) \in Nat
  OBVIOUS
<1>1. LinesAt(body) \in Seq(Seq(Seq(Nat))) /\ Len(LinesAt(body)) = Len(body) + 1
  BY LinesAre
<1>2. /\ J \in [0..Len(LinesAt(body)) -> Seq(Seq(Nat))]
      /\ \A m \in 1..Len(LinesAt(body)) : J[m] = J[m - 1] \o LinesAt(body)[m]
  BY <1>1, JoinedIs
<1> HIDE DEF J
<1>3. i \in H
  BY <1>0
<1>4. ASSUME NEW m \in i..k, m # i, m - 1 \in H PROVE m \in H
  <2>1. m - 1 \in i..(k - 1) /\ m - 1 \in 0..Len(body) /\ m \in 1..Len(LinesAt(body))
        /\ m - 1 \in 0..Len(LinesAt(body)) /\ (m - 1) + 1 = m
    BY <1>0, <1>1, <1>4
  <2>2. LinesAt(body)[m] = <<>>
    <3>1. LinesAt(body)[(m - 1) + 1] = <<>>
      BY <2>1, LinesAre
    <3> QED BY <2>1, <3>1
  <2>3. J[m] = J[m - 1] \o <<>> /\ J[m - 1] \in Seq(Seq(Nat))
    BY <1>2, <2>1, <2>2
  <2>4. J[m] = J[m - 1]
    BY <2>3
  <2> QED BY <1>4, <2>4
<1> HIDE DEF H
<1>5. i..k \subseteq H
  BY <1>0, <1>3, <1>4, Upward
<1>6. k \in H
  BY <1>0, <1>5
<1> QED BY <1>6 DEF H, J

LEMMA SinceIs ==
  ASSUME NEW body \in Seq(Nat), NEW k \in 0..Len(body), NEW buf, NEW ls, NEW i,
         LineSince(body, k, buf, ls, i)
  PROVE  /\ i \in Nat /\ k \in Nat /\ i <= k /\ k <= Len(body) /\ Len(body) \in Nat
         /\ i \in Body!Ends(body) /\ i \in 0..Len(body)
         /\ \A m \in (i + 1)..k : m \notin Body!Ends(body)
         /\ buf = SubSeq(body, i + 1, k) /\ buf \in Seq(Nat) /\ Len(buf) = k - i
         /\ \A j \in 1..(k - i) : buf[j] = body[i + j]
         /\ ls = Joined(LinesAt(body))[i] /\ ls \in Seq(Seq(Nat))
<1>1. /\ i \in 0..k /\ i \in Body!Ends(body) /\ (\A m \in (i + 1)..k : m \notin Body!Ends(body))
      /\ buf = SubSeq(body, i + 1, k) /\ ls = Joined(LinesAt(body))[i]
  BY Zenon DEF LineSince
<1>2. i \in Nat /\ k \in Nat /\ i <= k /\ k <= Len(body) /\ Len(body) \in Nat /\ i \in 0..Len(body)
  BY <1>1
<1>3. buf \in Seq(Nat) /\ Len(buf) = k - i /\ \A j \in 1..(k - i) : buf[j] = body[i + j]
  <2>1. i + 1 \in Nat /\ 1 <= i + 1 /\ i + 1 <= k + 1 /\ k - (i + 1) + 1 = k - i
        /\ \A j \in Int : i + 1 + j - 1 = i + j
    BY <1>2
  <2>2. /\ SubSeq(body, i + 1, k) \in Seq(Nat) /\ Len(SubSeq(body, i + 1, k)) = k - (i + 1) + 1
        /\ \A j \in 1..(k - (i + 1) + 1) : SubSeq(body, i + 1, k)[j] = body[i + 1 + j - 1]
    BY <1>2, <2>1, PartIs
  <2> QED BY <1>1, <2>1, <2>2
<1>4. ls \in Seq(Seq(Nat))
  <2>1. Joined(LinesAt(body)) \in [0..(Len(body) + 1) -> Seq(Seq(Nat))]
    BY LinesAre, JoinedIs
  <2> QED BY <1>1, <1>2, <2>1
<1> QED BY Zenon, <1>1, <1>2, <1>3, <1>4

\* A byte that ends no line is one more of it.
LEMMA LineGrows ==
  ASSUME NEW body \in Seq(Nat), NEW k \in 0..(Len(body) - 1), NEW buf, NEW ls,
         LineState(body, k, buf, ls), body[k + 1] # Body!LF
  PROVE  LineState(body, k + 1, Append(buf, body[k + 1]), ls)
<1>0. k \in 0..Len(body) /\ k + 1 \in 1..Len(body) /\ k + 1 \in 0..Len(body) /\ Len(body) \in Nat
  OBVIOUS
<1>1. PICK i : LineSince(body, k, buf, ls, i)
  BY DEF LineState
<1>2. /\ i \in Nat /\ k \in Nat /\ i <= k /\ k <= Len(body) /\ Len(body) \in Nat
      /\ i \in Body!Ends(body) /\ i \in 0..Len(body)
      /\ \A m \in (i + 1)..k : m \notin Body!Ends(body)
      /\ buf = SubSeq(body, i + 1, k) /\ buf \in Seq(Nat) /\ Len(buf) = k - i
      /\ \A j \in 1..(k - i) : buf[j] = body[i + j]
      /\ ls = Joined(LinesAt(body))[i]
  BY <1>0, <1>1, SinceIs
<1>3. k + 1 \notin Body!Ends(body)
  BY <1>0, BreaksAre
<1>4. ASSUME NEW m \in (i + 1)..(k + 1) PROVE m \notin Body!Ends(body)
  <2>1. m = k + 1 \/ m \in (i + 1)..k
    BY <1>2
  <2> QED BY <1>2, <1>3, <2>1
<1>5. Append(buf, body[k + 1]) = SubSeq(body, i + 1, k + 1)
  <2>1. PICK a, n : a = i + 1 /\ n = k + 1
    OBVIOUS
  <2>2. /\ a \in Nat /\ n \in Nat /\ 1 <= a /\ a <= n + 1 /\ n <= Len(body)
        /\ n - a + 1 = k - i + 1 /\ \A j \in Nat : a + j - 1 = i + j
    BY <1>0, <1>2, <2>1
  <2>s. /\ SubSeq(body, a, n) \in Seq(Nat) /\ Len(SubSeq(body, a, n)) = k - i + 1
        /\ \A j \in 1..(k - i + 1) : SubSeq(body, a, n)[j] = body[i + j]
    <3>1. /\ SubSeq(body, a, n) \in Seq(Nat) /\ Len(SubSeq(body, a, n)) = n - a + 1
          /\ \A j \in 1..(n - a + 1) : SubSeq(body, a, n)[j] = body[a + j - 1]
      <4>1. a \in Nat /\ n \in Nat /\ 1 <= a /\ a <= n + 1 /\ n <= Len(body) /\ body \in Seq(Nat)
        BY Zenon, <2>2
      <4> QED BY <4>1, PartIs
    <3> DEFINE s == SubSeq(body, a, n)
    <3>2. \A j \in 1..(k - i + 1) : j \in Nat /\ j \in 1..(n - a + 1)
      BY <1>2, <2>2
    <3> HIDE DEF s
    <3>3. s \in Seq(Nat) /\ Len(s) = n - a + 1 /\ \A j \in 1..(n - a + 1) : s[j] = body[a + j - 1]
      BY Zenon, <3>1 DEF s
    <3>4. ASSUME NEW j \in 1..(k - i + 1) PROVE s[j] = body[i + j]
      <4>1. s[j] = body[a + j - 1]
        BY Zenon, <3>2, <3>3
      <4>2. a + j - 1 = i + j
        BY Zenon, <2>2, <3>2
      <4> QED BY Zenon, <4>1, <4>2
    <3> QED BY Zenon, <2>2, <3>3, <3>4 DEF s
  <2>3. body[k + 1] \in Nat
    BY <1>0
  <2> DEFINE s == SubSeq(body, a, n)  t == Append(buf, body[k + 1])
  <2> HIDE DEF s
  <2>4. t \in Seq(Nat) /\ Len(t) = k - i + 1 /\ (\A j \in 1..(k - i) : t[j] = buf[j])
        /\ t[k - i + 1] = body[k + 1]
    BY <1>2, <2>3
  <2> HIDE DEF t
  <2>5. ASSUME NEW j \in 1..(k - i + 1) PROVE t[j] = s[j]
    <3>1. j \in 1..(k - i) \/ (j = k - i + 1 /\ i + j = k + 1)
      <4>1. CASE j = k - i + 1
        BY <1>2, <4>1
      <4>2. CASE j # k - i + 1
        BY <1>2, <4>2
      <4> QED BY <4>1, <4>2
    <3>2. s[j] = body[i + j]
      BY <2>s DEF s
    <3> QED BY <1>2, <2>4, <3>1, <3>2
  <2>6. t = s
    <3>1. s \in Seq(Nat) /\ Len(s) = k - i + 1
      BY <2>s DEF s
    <3> QED BY <3>1, <2>4, <2>5, SeqEqual
  <2> QED BY <2>1, <2>6 DEF s, t
<1>6. i \in 0..(k + 1)
  BY <1>2
<1> QED BY Zenon, <1>2, <1>4, <1>5, <1>6 DEF LineState, LineSince

\* One that ends it makes it a line, if there is any of it.
LEMMA LineEnds1 ==
  ASSUME NEW body \in Seq(Nat), NEW k \in 0..(Len(body) - 1), NEW buf, NEW ls,
         LineState(body, k, buf, ls), body[k + 1] = Body!LF
  PROVE  LineState(body, k + 1, <<>>, IF buf = <<>> THEN ls ELSE Append(ls, buf))
<1>0. k \in 0..Len(body) /\ k + 1 \in 1..Len(body) /\ k + 1 \in 0..Len(body) /\ Len(body) \in Nat
  OBVIOUS
<1>1. PICK i : LineSince(body, k, buf, ls, i)
  BY DEF LineState
<1>2. /\ i \in Nat /\ k \in Nat /\ i <= k /\ k <= Len(body) /\ Len(body) \in Nat
      /\ i \in Body!Ends(body) /\ i \in 0..Len(body)
      /\ \A m \in (i + 1)..k : m \notin Body!Ends(body)
      /\ buf = SubSeq(body, i + 1, k) /\ buf \in Seq(Nat)
      /\ ls = Joined(LinesAt(body))[i] /\ ls \in Seq(Seq(Nat))
  BY <1>0, <1>1, SinceIs
<1>3. k + 1 \in Body!Ends(body)
  BY <1>0, BreaksAre
<1>4. Body!LineAfter(body, i) = buf
  <2>1. k \in i..Len(body)
    BY <1>2
  <2>2. LineEndsAt(body, i, k)
    BY <1>2, <1>3, <2>1 DEF LineEndsAt
  <2> QED BY <1>2, <2>2, LineEndIs
<1>5. Joined(LinesAt(body))[i + 1] = ls \o (IF buf # <<>> THEN <<buf>> ELSE <<>>)
  <2>1. i + 1 \in 1..(Len(body) + 1) /\ (i + 1) - 1 = i
    BY <1>2
  <2>2. Joined(LinesAt(body))[i + 1] = Joined(LinesAt(body))[(i + 1) - 1] \o LinesAt(body)[i + 1]
    BY <2>1, LinesAre, JoinedIs
  <2>3. LinesAt(body)[i + 1] = IF buf # <<>> THEN <<buf>> ELSE <<>>
    <3>1. LinesAt(body)[i + 1] = IF i \in Body!Ends(body) /\ Body!LineAfter(body, i) # <<>>
                                 THEN <<Body!LineAfter(body, i)>> ELSE <<>>
      BY <1>2, LinesAre
    <3> QED BY Zenon, <1>2, <1>4, <3>1
  <2> QED BY Zenon, <1>2, <2>1, <2>2, <2>3
<1>6. Joined(LinesAt(body))[k + 1] = Joined(LinesAt(body))[i + 1]
  <2>1. i + 1 \in 0..(Len(body) + 1) /\ k + 1 \in (i + 1)..(Len(body) + 1) /\ (k + 1) - 1 = k
    BY <1>2, <1>0
  <2> QED BY <1>2, <2>1, NoLines
<1>7. Joined(LinesAt(body))[k + 1] = IF buf = <<>> THEN ls ELSE Append(ls, buf)
  <2>1. ls \o <<>> = ls /\ ls \o <<buf>> = Append(ls, buf)
    <3>1. ls \in Seq(Seq(Nat)) /\ buf \in Seq(Nat)
      BY Zenon, <1>2
    <3> QED BY Zenon, <3>1, OneMore
  <2> QED BY <1>5, <1>6, <2>1, Zenon
<1>8. /\ k + 1 \in 0..(k + 1) /\ (\A m \in ((k + 1) + 1)..(k + 1) : m \notin Body!Ends(body))
      /\ <<>> = SubSeq(body, (k + 1) + 1, k + 1)
  BY <1>2
<1>9. LineSince(body, k + 1, <<>>, IF buf = <<>> THEN ls ELSE Append(ls, buf), k + 1)
  BY Zenon, <1>3, <1>7, <1>8 DEF LineSince
<1> QED BY Zenon, <1>9 DEF LineState

Splitter == [buf : Seq(Nat), lines : Seq(Seq(Nat))]
Splits(f, bytes) ==
  f = [i \in 0..Len(bytes) |->
         IF i = 0 THEN [buf |-> split, lines |-> lines] ELSE Body!Take(f[i - 1], bytes[i])]

LEMMA TakeIs ==
  ASSUME NEW x \in Splitter, NEW c \in Nat
  PROVE  /\ Body!Take(x, c) \in Splitter
         /\ c # Body!LF => /\ Body!Take(x, c).buf = Append(x.buf, c) /\ Body!Take(x, c).lines = x.lines
         /\ c = Body!LF => /\ Body!Take(x, c).buf = <<>>
                           /\ Body!Take(x, c).lines
                                = IF x.buf = <<>> THEN x.lines ELSE Append(x.lines, x.buf)
<1>1. /\ x.buf \in Seq(Nat) /\ x.lines \in Seq(Seq(Nat))
      /\ x = [buf |-> x.buf, lines |-> x.lines]
  BY DEF Splitter
<1>2. CASE c # Body!LF
  <2>1. Body!Take(x, c) = [x EXCEPT !.buf = Append(@, c)]
    BY Zenon, <1>2 DEF Body!Take
  <2>2. Body!Take(x, c) = [buf |-> Append(x.buf, c), lines |-> x.lines]
    BY <1>1, <2>1
  <2>3. Append(x.buf, c) \in Seq(Nat)
    BY <1>1
  <2> QED BY <1>1, <1>2, <2>2, <2>3 DEF Splitter
<1>3. CASE c = Body!LF
  <2>1. Body!Take(x, c) = [buf |-> <<>>,
                           lines |-> IF x.buf = <<>> THEN x.lines ELSE Append(x.lines, x.buf)]
    BY Zenon, <1>3 DEF Body!Take
  <2>2. PICK ls : ls = IF x.buf = <<>> THEN x.lines ELSE Append(x.lines, x.buf)
    OBVIOUS
  <2>3. ls \in Seq(Seq(Nat)) /\ <<>> \in Seq(Nat)
    BY <1>1, <2>2
  <2>4. Body!Take(x, c) = [buf |-> <<>>, lines |-> ls]
    BY Zenon, <2>1, <2>2
  <2> QED BY <1>3, <2>2, <2>3, <2>4 DEF Splitter
<1> QED BY <1>2, <1>3

LEMMA SplitIs ==
  ASSUME NEW bytes \in Seq(Nat), split \in Seq(Nat), lines \in Seq(Seq(Nat))
  PROVE  \E h \in [0..Len(bytes) -> Splitter] :
           /\ Body!Split(bytes) = h[Len(bytes)]
           /\ h[0] = [buf |-> split, lines |-> lines]
           /\ \A i \in 1..Len(bytes) : h[i] = Body!Take(h[i - 1], bytes[i])
<1> DEFINE n == Len(bytes)
           a == [buf |-> split, lines |-> lines]
           g == [p \in (1..n) \X Splitter |-> Body!Take(p[2], bytes[p[1]])]
<1>0. n \in Nat /\ a \in Splitter /\ \A i \in 1..n : bytes[i] \in Nat
  BY DEF Splitter
<1>1. \A i \in 1..n : \A x \in Splitter : g[<<i, x>>] = Body!Take(x, bytes[i])
  OBVIOUS
<1>2. \A i \in 1..n : \A x \in Splitter : g[<<i, x>>] \in Splitter
  <2>1. ASSUME NEW i \in 1..n, NEW x \in Splitter PROVE Body!Take(x, bytes[i]) \in Splitter
    <3>1. bytes[i] \in Nat
      BY <1>0
    <3> QED BY <3>1, TakeIs
  <2> QED BY <1>1, <2>1, Zenon
<1> HIDE DEF n, a, g
<1>3. PICK f \in [0..n -> Splitter] : Folds(f, a, g, n)
  BY <1>0, <1>2, FoldThere
<1>4. f = [i \in 0..n |-> IF i = 0 THEN a ELSE g[<<i, f[i - 1]>>]]
  BY <1>3, Zenon DEF Folds
<1>5. ASSUME NEW i \in 0..n PROVE f[i] = IF i = 0 THEN a ELSE Body!Take(f[i - 1], bytes[i])
  <2>1. f[i] = IF i = 0 THEN a ELSE g[<<i, f[i - 1]>>]
    BY <1>4, Zenon
  <2>2. CASE i # 0
    <3>1. i \in 1..n /\ i - 1 \in 0..n
      BY <1>0, <2>2
    <3>2. f[i - 1] \in Splitter
      BY <1>3, <3>1
    <3>3. g[<<i, f[i - 1]>>] = Body!Take(f[i - 1], bytes[i])
      BY Zenon, <1>1, <3>1, <3>2
    <3> QED BY Zenon, <2>1, <2>2, <3>3
  <2>3. CASE i = 0
    BY Zenon, <2>1, <2>3
  <2> QED BY <2>2, <2>3
<1>6. f = [i \in 0..n |-> IF i = 0 THEN a ELSE Body!Take(f[i - 1], bytes[i])]
  <2>1. f = [i \in 0..n |-> f[i]]
    BY <1>3
  <2> QED BY Zenon, <2>1, <1>5
<1>7. Splits(f, bytes)
  BY <1>6, Zenon DEF Splits, n, a
<1>8. Body!Split(bytes) = (CHOOSE x : Splits(x, bytes))[Len(bytes)]
  BY Zenon DEF Body!Split, Splits
<1>9. PICK h : h = CHOOSE x : Splits(x, bytes)
  OBVIOUS
<1>10. Splits(h, bytes)
  BY <1>7, <1>9, Zenon
<1>11. h = [i \in 0..n |-> IF i = 0 THEN a ELSE Body!Take(h[i - 1], bytes[i])]
  BY <1>10, Zenon DEF Splits, n, a
<1>12. ASSUME NEW i \in 0..n PROVE h[i] = IF i = 0 THEN a ELSE Body!Take(h[i - 1], bytes[i])
  BY <1>11, Zenon
<1>13. h[0] = a /\ \A i \in 1..n : h[i] = Body!Take(h[i - 1], bytes[i])
  <2>1. 0 \in 0..n /\ \A i \in 1..n : i \in 0..n /\ i # 0
    BY <1>0
  <2> QED BY <2>1, <1>12, Zenon
<1> DEFINE H == {i \in Nat : h[i] \in Splitter}
<1>14. 0 \in H
  BY <1>0, <1>13
<1>15. ASSUME NEW i \in 0..n, i # 0, i - 1 \in H PROVE i \in H
  <2>1. i \in 1..n /\ i \in Nat
    BY <1>0, <1>15
  <2>2. h[i - 1] \in Splitter /\ bytes[i] \in Nat
    BY <1>15, <2>1, <1>0
  <2>3. Body!Take(h[i - 1], bytes[i]) \in Splitter
    BY <2>2, TakeIs
  <2>4. h[i] \in Splitter
    BY <2>1, <2>3, <1>13, Zenon
  <2> QED BY <2>1, <2>4
<1> HIDE DEF H
<1>16. 0..n \subseteq H
  BY <1>0, <1>14, <1>15, Upward
<1>17. h \in [0..n -> Splitter]
  <2>1. \A i \in 0..n : h[i] \in Splitter
    BY <1>16 DEF H
  <2>2. h = [i \in 0..n |-> h[i]]
    BY Zenon, <1>11
  <2> QED BY Zenon, <2>1, <2>2
<1> QED BY Zenon, <1>8, <1>9, <1>13, <1>17 DEF n, a

\* What Split makes of the next bytes of a body is where they end.
LEMMA LineSplits ==
  ASSUME NEW body \in Seq(Nat), NEW k \in 0..Len(body), LineState(body, k, split, lines),
         NEW bytes \in Seq(Nat), k + Len(bytes) <= Len(body),
         \A j \in 1..Len(bytes) : bytes[j] = body[k + j]
  PROVE  /\ LineState(body, k + Len(bytes), Body!Split(bytes).buf, Body!Split(bytes).lines)
         /\ Body!Split(bytes) \in Splitter
<1> DEFINE n == Len(bytes)
<1>0. n \in Nat /\ k \in Nat /\ Len(body) \in Nat
  OBVIOUS
<1>1. split \in Seq(Nat) /\ lines \in Seq(Seq(Nat))
  <2>1. PICK i : LineSince(body, k, split, lines, i)
    BY DEF LineState
  <2> QED BY <2>1, SinceIs
<1>2. PICK h \in [0..Len(bytes) -> Splitter] :
           /\ Body!Split(bytes) = h[Len(bytes)]
           /\ h[0] = [buf |-> split, lines |-> lines]
           /\ \A i \in 1..Len(bytes) : h[i] = Body!Take(h[i - 1], bytes[i])
  BY <1>1, SplitIs
<1>t. (\A i \in 0..n : h[i] \in Splitter) /\ (\A i \in 1..n : bytes[i] \in Nat)
  <2>1. h \in [0..n -> Splitter] /\ \A i \in 1..n : bytes[i] \in Nat
    BY <1>0
  <2> HIDE DEF n
  <2> QED BY <2>1
<1> HIDE DEF n
<1> DEFINE H == {j \in Nat : LineState(body, k + j, h[j].buf, h[j].lines)}
<1>3. 0 \in H
  <2>1. k + 0 = k /\ h[0].buf = split /\ h[0].lines = lines
    BY <1>0, <1>2
  <2> QED BY <2>1
<1>4. ASSUME NEW j \in 0..n, j # 0, j - 1 \in H PROVE j \in H
  <2>1. j \in 1..n /\ j \in Nat /\ j - 1 \in 0..n /\ j - 1 \in Nat /\ k + (j - 1) \in 0..(Len(body) - 1)
        /\ (k + (j - 1)) + 1 = k + j
    BY <1>0, <1>4 DEF n
  <2>2. PICK m, x, c : m = k + (j - 1) /\ x = h[j - 1] /\ c = bytes[j]
    OBVIOUS
  <2>3. m \in 0..(Len(body) - 1) /\ x \in Splitter /\ c \in Nat /\ LineState(body, m, x.buf, x.lines)
        /\ body[m + 1] = c /\ h[j] = Body!Take(x, c) /\ m + 1 = k + j
    <3>1. m \in 0..(Len(body) - 1) /\ m + 1 = k + j
      BY <2>1, <2>2
    <3>2. x \in Splitter /\ c \in Nat
      BY Zenon, <1>t, <2>1, <2>2
    <3>3. LineState(body, m, x.buf, x.lines)
      BY Zenon, <1>4, <2>2
    <3>4. c = body[k + j] /\ h[j] = Body!Take(x, c)
      BY Zenon, <1>2, <2>1, <2>2 DEF n
    <3> QED BY Zenon, <3>1, <3>2, <3>3, <3>4
  <2>4. LineState(body, m + 1, Body!Take(x, c).buf, Body!Take(x, c).lines)
    <3>1. CASE c # Body!LF
      <4>1. LineState(body, m + 1, Append(x.buf, body[m + 1]), x.lines)
        BY <2>3, <3>1, LineGrows
      <4> QED BY Zenon, <4>1, <2>3, <3>1, TakeIs
    <3>2. CASE c = Body!LF
      <4>1. LineState(body, m + 1, <<>>, IF x.buf = <<>> THEN x.lines ELSE Append(x.lines, x.buf))
        BY <2>3, <3>2, LineEnds1
      <4> QED BY Zenon, <4>1, <2>3, <3>2, TakeIs
    <3> QED BY <3>1, <3>2
  <2> QED BY Zenon, <2>1, <2>3, <2>4
<1> HIDE DEF H
<1>5. 0..n \subseteq H
  BY <1>0, <1>3, <1>4, Upward
<1>6. n \in H
  BY <1>0, <1>5
<1>7. LineState(body, k + n, h[n].buf, h[n].lines)
  BY Zenon, <1>6 DEF H
<1>8. h[n] \in Splitter
  <2>1. n \in 0..n
    BY <1>0
  <2> QED BY Zenon, <2>1, <1>t
<1> QED BY Zenon, <1>2, <1>7, <1>8 DEF n

\* What the caller has is lines of a body; of the last one it may have only the beginning.
WholeLines(ls, meant) ==
  /\ \A i \in DOMAIN ls : i < Len(ls) => ls[i] = meant[i]
  /\ ls # <<>> => IsPrefix(ls[Len(ls)], meant[Len(ls)])
WithTail(buf, ls) == IF buf = <<>> THEN ls ELSE Append(ls, buf)

LEMMA PrefixWhole ==
  ASSUME NEW ls \in Seq(Seq(Nat)), NEW t \in Seq(Seq(Nat)), NEW meant, meant = ls \o t
  PROVE  WholeLines(ls, meant) /\ IsPrefix(ls, meant)
<1>1. meant \in Seq(Seq(Nat)) /\ Len(meant) = Len(ls) + Len(t) /\ Len(ls) \in Nat /\ DOMAIN ls = 1..Len(ls)
      /\ \A i \in 1..Len(ls) : meant[i] = ls[i] /\ ls[i] \in Seq(Nat)
  OBVIOUS
<1>2. IsPrefix(ls, meant)
  BY <1>1, PrefixIs
<1>3. ls # <<>> => Len(ls) \in 1..Len(ls)
  BY <1>1
<1>4. ASSUME NEW s \in Seq(Nat) PROVE IsPrefix(s, s)
  <2>1. s = s \o <<>> /\ <<>> \in Seq(Nat)
    OBVIOUS
  <2> QED BY <2>1, PrefixIs
<1> QED BY Zenon, <1>1, <1>2, <1>3, <1>4 DEF WholeLines

LEMMA TailWhole ==
  ASSUME NEW ls \in Seq(Seq(Nat)), NEW buf \in Seq(Nat), NEW w \in Seq(Nat), IsPrefix(buf, w),
         NEW t \in Seq(Seq(Nat)), NEW meant, meant = Append(ls, w) \o t
  PROVE  WholeLines(Append(ls, buf), meant)
<1> DEFINE n == Len(ls)  l == Append(ls, buf)
<1>1. l \in Seq(Seq(Nat)) /\ Len(l) = n + 1 /\ n \in Nat /\ DOMAIN l = 1..(n + 1) /\ l[n + 1] = buf
      /\ \A i \in 1..n : l[i] = ls[i]
  OBVIOUS
<1>2. meant[n + 1] = w /\ \A i \in 1..n : meant[i] = ls[i]
  OBVIOUS
<1>3. \A i \in DOMAIN l : i < Len(l) => i \in 1..n
  BY <1>1
<1> HIDE DEF l, n
<1>4. \A i \in DOMAIN l : i < Len(l) => l[i] = meant[i]
  BY Zenon, <1>1, <1>2, <1>3
<1>5. IsPrefix(l[Len(l)], meant[Len(l)])
  BY Zenon, <1>1, <1>2
<1> QED BY Zenon, <1>4, <1>5 DEF WholeLines, l

LEMMA PartFrom ==
  ASSUME NEW S, NEW s \in Seq(S), NEW i \in Nat, NEW k \in Nat, i <= k, k <= Len(s)
  PROVE  /\ SubSeq(s, i + 1, k) \in Seq(S) /\ Len(SubSeq(s, i + 1, k)) = k - i
         /\ \A j \in 1..(k - i) : SubSeq(s, i + 1, k)[j] = s[i + j]
<1>1. PICK a : a = i + 1
  OBVIOUS
<1>2. a \in Nat /\ 1 <= a /\ a <= k + 1 /\ k - a + 1 = k - i
      /\ \A j \in 1..(k - i) : a + j - 1 = i + j
  BY <1>1
<1>3. /\ SubSeq(s, a, k) \in Seq(S) /\ Len(SubSeq(s, a, k)) = k - a + 1
      /\ \A j \in 1..(k - a + 1) : SubSeq(s, a, k)[j] = s[a + j - 1]
  <2>1. a \in Nat /\ 1 <= a /\ a <= k + 1
    BY Zenon, <1>2
  <2> QED BY <2>1, PartIs
<1> QED BY Zenon, <1>1, <1>2, <1>3

LEMMA LinesGrow ==
  ASSUME NEW body \in Seq(Nat), NEW a \in 0..(Len(body) + 1)
  PROVE  \E t \in Seq(Seq(Nat)) : Body!LinesOf(body) = Joined(LinesAt(body))[a] \o t
<1>1. LinesAt(body) \in Seq(Seq(Seq(Nat))) /\ Len(LinesAt(body)) = Len(body) + 1
      /\ Body!LinesOf(body) = FlattenSeq(LinesAt(body))
  BY LinesAre
<1>2. PICK ll, n : ll = LinesAt(body) /\ n = Len(ll)
  OBVIOUS
<1>3. ll \in Seq(Seq(Seq(Nat))) /\ n = Len(body) + 1 /\ a \in 0..n /\ n \in a..n /\ n = Len(ll)
  BY <1>1, <1>2
<1>4. Body!LinesOf(body) = Joined(ll)[n]
  BY <1>1, <1>2, <1>3, FlattenIs
<1>5. \E t \in Seq(Seq(Nat)) : Joined(ll)[n] = Joined(ll)[a] \o t
  <2> DEFINE T == Seq(Nat)
  <2>1. ll \in Seq(Seq(T)) /\ a \in 0..Len(ll) /\ n \in a..Len(ll)
    BY Zenon, <1>3
  <2> HIDE DEF T
  <2>2. \E t \in Seq(T) : Joined(ll)[n] = Joined(ll)[a] \o t
    BY <2>1, JoinedGrows
  <2> QED BY Zenon, <2>2 DEF T
<1> QED BY Zenon, <1>2, <1>4, <1>5

\* What there is of a line is its beginning.
LEMMA LineOpens ==
  ASSUME NEW body \in Seq(Nat), NEW k \in 0..Len(body), NEW buf, NEW ls, NEW i,
         LineSince(body, k, buf, ls, i)
  PROVE  /\ Body!LineAfter(body, i) \in Seq(Nat) /\ IsPrefix(buf, Body!LineAfter(body, i))
         /\ Len(buf) <= Len(Body!LineAfter(body, i))
         /\ k = Len(body) => Body!LineAfter(body, i) = buf
<1>1. /\ i \in Nat /\ k \in Nat /\ i <= k /\ k <= Len(body) /\ Len(body) \in Nat
      /\ i \in Body!Ends(body) /\ i \in 0..Len(body)
      /\ \A m \in (i + 1)..k : m \notin Body!Ends(body)
      /\ buf = SubSeq(body, i + 1, k) /\ buf \in Seq(Nat) /\ Len(buf) = k - i
      /\ \A j \in 1..(k - i) : buf[j] = body[i + j]
  BY SinceIs
<1>2. PICK j \in i..Len(body) : LineEndsAt(body, i, j) /\ Body!LineAfter(body, i) = SubSeq(body, i + 1, j)
  BY <1>1, LineAfterIs
<1>3. j = Len(body) \/ j + 1 \in Body!Ends(body)
  BY <1>2 DEF LineEndsAt
<1>4. k <= j
  <2>1. CASE ~(k <= j)
    <3>1. j + 1 \in (i + 1)..k /\ j # Len(body)
      BY <1>1, <1>2, <2>1
    <3> QED BY <1>1, <1>3, <3>1
  <2> QED BY <2>1
<1>5. PICK w : w = SubSeq(body, i + 1, j)
  OBVIOUS
<1>6. j \in Nat /\ i <= j /\ j <= Len(body)
  BY <1>1, <1>2
<1>7. w \in Seq(Nat) /\ Len(w) = j - i /\ \A m \in 1..(j - i) : w[m] = body[i + m]
  <2>1. i \in Nat
    BY <1>1
  <2>2. /\ SubSeq(body, i + 1, j) \in Seq(Nat) /\ Len(SubSeq(body, i + 1, j)) = j - i
        /\ \A m \in 1..(j - i) : SubSeq(body, i + 1, j)[m] = body[i + m]
    BY <2>1, <1>6, PartFrom
  <2> QED BY Zenon, <1>5, <2>2
<1>8. Body!LineAfter(body, i) = w
  BY <1>2, <1>5
<1>9. k - i \in 0..Len(w)
  BY <1>1, <1>2, <1>4, <1>7
<1>10. /\ SubSeq(w, 1, k - i) \in Seq(Nat) /\ Len(SubSeq(w, 1, k - i)) = k - i
       /\ From(w, k - i) \in Seq(Nat) /\ SubSeq(w, 1, k - i) \o From(w, k - i) = w
  BY <1>7, <1>9, Cut
<1>11. SubSeq(w, 1, k - i) = buf
  <2>1. PICK d : d = k - i
    OBVIOUS
  <2>2. d \in Nat /\ d <= Len(w) /\ 0 <= d /\ d <= j - i
    BY <1>1, <1>7, <1>9, <2>1
  <2>3. /\ SubSeq(w, 1, d) \in Seq(Nat) /\ Len(SubSeq(w, 1, d)) = d
        /\ \A m \in 1..d : SubSeq(w, 1, d)[m] = w[m]
    <3>1. /\ SubSeq(w, 0 + 1, d) \in Seq(Nat) /\ Len(SubSeq(w, 0 + 1, d)) = d - 0
          /\ \A m \in 1..(d - 0) : SubSeq(w, 0 + 1, d)[m] = w[0 + m]
      <4>1. w \in Seq(Nat) /\ 0 \in Nat
        BY <1>7
      <4> QED BY Zenon, <4>1, <2>2, PartFrom
    <3>2. 0 + 1 = 1 /\ d - 0 = d /\ \A m \in 1..d : 0 + m = m
      BY <2>2
    <3> QED BY Zenon, <3>1, <3>2
  <2>4. \A m \in 1..d : m \in 1..(j - i)
    BY <1>1, <1>6, <2>2
  <2>5. ASSUME NEW m \in 1..d PROVE SubSeq(w, 1, d)[m] = buf[m]
    BY Zenon, <1>1, <1>7, <2>1, <2>3, <2>4
  <2>6. Len(buf) = d
    BY <1>1, <2>1
  <2> HIDE DEF From
  <2>7. PICK s : s = SubSeq(w, 1, d)
    OBVIOUS
  <2>8. s \in Seq(Nat) /\ Len(s) = Len(buf) /\ \A m \in 1..Len(s) : s[m] = buf[m]
    BY Zenon, <2>3, <2>5, <2>6, <2>7
  <2>9. s = buf
    BY <2>8, <1>1, SeqEqual
  <2> QED BY <2>1, <2>7, <2>9
<1>12. IsPrefix(buf, w)
  BY <1>1, <1>7, <1>10, <1>11, PrefixIs
<1>13. Len(buf) <= Len(w)
  BY <1>1, <1>4, <1>7, <1>2
<1>14. k = Len(body) => w = buf
  <2>1. ASSUME k = Len(body) PROVE w = buf
    <3>1. j = k
      BY <1>2, <1>4, <2>1
    <3> QED BY Zenon, <3>1, <1>1, <1>5
  <2> QED BY <2>1
<1> QED BY Zenon, <1>7, <1>8, <1>12, <1>13, <1>14

LEMMA LinesShow ==
  ASSUME NEW body \in Seq(Nat), NEW k \in 0..Len(body), NEW buf, NEW ls, LineState(body, k, buf, ls)
  PROVE  /\ buf \in Seq(Nat) /\ ls \in Seq(Seq(Nat))
         /\ IsPrefix(ls, Body!LinesOf(body)) /\ WholeLines(ls, Body!LinesOf(body))
         /\ WholeLines(WithTail(buf, ls), Body!LinesOf(body))
         /\ k = Len(body) => WithTail(buf, ls) = Body!LinesOf(body)
         /\ \E i \in Body!Ends(body) : Len(buf) <= Len(Body!LineAfter(body, i))
<1>1. PICK i : LineSince(body, k, buf, ls, i)
  BY DEF LineState
<1>2. /\ i \in Nat /\ k \in Nat /\ i <= k /\ k <= Len(body) /\ Len(body) \in Nat
      /\ i \in Body!Ends(body) /\ i \in 0..Len(body)
      /\ \A m \in (i + 1)..k : m \notin Body!Ends(body)
      /\ buf \in Seq(Nat) /\ ls = Joined(LinesAt(body))[i] /\ ls \in Seq(Seq(Nat))
  BY <1>1, SinceIs
<1>3. PICK w : w = Body!LineAfter(body, i)
  OBVIOUS
<1>4. w \in Seq(Nat) /\ IsPrefix(buf, w) /\ Len(buf) <= Len(w) /\ (k = Len(body) => w = buf)
  BY <1>1, <1>3, LineOpens
<1>5. LinesAt(body) \in Seq(Seq(Seq(Nat))) /\ Len(LinesAt(body)) = Len(body) + 1
      /\ Body!LinesOf(body) = Joined(LinesAt(body))[Len(body) + 1]
  <2>1. LinesAt(body) \in Seq(Seq(Seq(Nat))) /\ Len(LinesAt(body)) = Len(body) + 1
        /\ Body!LinesOf(body) = FlattenSeq(LinesAt(body))
    BY LinesAre
  <2> QED BY <2>1, FlattenIs
<1>6. Joined(LinesAt(body))[i + 1] = ls \o (IF w # <<>> THEN <<w>> ELSE <<>>)
  <2>1. i + 1 \in 1..(Len(body) + 1) /\ (i + 1) - 1 = i
    BY <1>2
  <2>2. Joined(LinesAt(body))[i + 1] = Joined(LinesAt(body))[(i + 1) - 1] \o LinesAt(body)[i + 1]
    BY <2>1, <1>5, JoinedIs
  <2>3. LinesAt(body)[i + 1] = IF i \in Body!Ends(body) /\ Body!LineAfter(body, i) # <<>>
                               THEN <<Body!LineAfter(body, i)>> ELSE <<>>
    BY <1>2, LinesAre
  <2> QED BY Zenon, <1>2, <1>3, <2>1, <2>2, <2>3
<1>7. PICK t \in Seq(Seq(Nat)) : Body!LinesOf(body) = Joined(LinesAt(body))[i + 1] \o t
  <2>1. i + 1 \in 0..(Len(body) + 1)
    BY <1>2
  <2> QED BY Zenon, <2>1, LinesGrow
<1>8. PICK u \in Seq(Seq(Nat)) : Body!LinesOf(body) = ls \o u
  <2>1. i \in 0..(Len(body) + 1)
    BY <1>2
  <2> QED BY Zenon, <1>2, <2>1, LinesGrow
<1>9. IsPrefix(ls, Body!LinesOf(body)) /\ WholeLines(ls, Body!LinesOf(body))
  BY Zenon, <1>2, <1>8, PrefixWhole
<1>10. w # <<>> => Body!LinesOf(body) = Append(ls, w) \o t
  <2>1. ls \o <<w>> = Append(ls, w)
    BY Zenon, <1>2, <1>4, OneMore
  <2> QED BY Zenon, <1>6, <1>7, <2>1
<1>11. WholeLines(WithTail(buf, ls), Body!LinesOf(body))
  <2>1. CASE buf = <<>>
    BY Zenon, <2>1, <1>9 DEF WithTail
  <2>2. CASE buf # <<>>
    <3>1. w # <<>>
      BY <1>2, <1>4, <2>2
    <3>2. Body!LinesOf(body) = Append(ls, w) \o t
      BY <1>10, <3>1
    <3>3. WholeLines(Append(ls, buf), Body!LinesOf(body))
      BY Zenon, <1>2, <1>4, <3>2, TailWhole
    <3> QED BY Zenon, <2>2, <3>3 DEF WithTail
  <2> QED BY <2>1, <2>2
<1>12. ASSUME k = Len(body) PROVE WithTail(buf, ls) = Body!LinesOf(body)
  <2>1. w = buf
    BY <1>4, <1>12
  <2>2. Joined(LinesAt(body))[Len(body) + 1] = Joined(LinesAt(body))[i + 1]
    <3>1. i + 1 \in 0..(Len(body) + 1) /\ Len(body) + 1 \in (i + 1)..(Len(body) + 1)
          /\ (Len(body) + 1) - 1 = k
      BY <1>2, <1>12
    <3> QED BY <1>2, <3>1, NoLines
  <2>3. ls \o <<>> = ls /\ ls \o <<buf>> = Append(ls, buf)
    <3>1. ls \in Seq(Seq(Nat)) /\ buf \in Seq(Nat)
      BY Zenon, <1>2
    <3> QED BY Zenon, <3>1, OneMore
  <2> QED BY Zenon, <1>5, <1>6, <2>1, <2>2, <2>3 DEF WithTail
<1>13. \E m \in Body!Ends(body) : Len(buf) <= Len(Body!LineAfter(body, m))
  BY Zenon, <1>2, <1>3, <1>4
<1> QED BY Zenon, <1>2, <1>9, <1>11, <1>12, <1>13

-----------------------------------------------------------------------------
(* Bodies: the decoder is at a place, and what is left there is what is     *)
(* meant from there on.                                                     *)

\* The decoder d has, and then the wire, what is in b from q on.
Placed(b, d, r, q) == q \in Places(b) /\ Body!From(b, q) = d.buf \o r

\* What is yet to be decoded, and whether that is well formed.
Yet(b, c, d, q) ==
  IF d.done THEN <<>> ELSE IF d.remaining = -1 THEN c[q].body ELSE Rest(b, c, q, d.remaining)
YetSound(b, c, d, q) ==
  IF d.done THEN TRUE ELSE IF d.remaining = -1 THEN c[q].sound ELSE RestSound(b, c, q, d.remaining)

DecIs(d) ==
  /\ d \in [buf : Seq(Nat), remaining : Nat \union {-1}, done : BOOLEAN, out : Seq(Nat)]
  /\ d.done => d.remaining = -1

LEMMA PlacedIs ==
  ASSUME NEW b \in Seq(Nat), NEW d, d.buf \in Seq(Nat), NEW r \in Seq(Nat), NEW q, Placed(b, d, r, q)
  PROVE  /\ q \in Places(b) /\ q \in Nat /\ 1 <= q /\ q <= Len(b) + 1 /\ Len(b) \in Nat
         /\ Body!From(b, q) \in Seq(Nat) /\ Body!From(b, q) = d.buf \o r
         /\ Len(d.buf) + Len(r) = Len(b) - q + 1 /\ Len(d.buf) \in Nat /\ Len(r) \in Nat
         /\ \A j \in 1..Len(d.buf) : d.buf[j] = b[q + j - 1]
<1>1. q \in Places(b) /\ Body!From(b, q) = d.buf \o r
  BY DEF Placed
<1>2. PICK w, s : w = Body!From(b, q) /\ s = d.buf
  OBVIOUS
<1>3. /\ w \in Seq(Nat) /\ Len(w) = Len(b) - q + 1
      /\ \A j \in 1..(Len(b) - q + 1) : w[j] = b[q + j - 1]
      /\ q \in Nat /\ 1 <= q /\ q <= Len(b) + 1 /\ Len(b) \in Nat
  BY <1>1, <1>2, PlaceIs
<1>4. Len(w) = Len(s) + Len(r) /\ Len(s) \in Nat /\ Len(r) \in Nat /\ \A j \in 1..Len(s) : w[j] = s[j]
  BY <1>1, <1>2
<1>5. \A j \in 1..Len(s) : j \in 1..(Len(b) - q + 1)
  BY <1>3, <1>4
<1>6. Len(s) + Len(r) = Len(b) - q + 1
  BY <1>3, <1>4
<1>7. \A j \in 1..Len(s) : s[j] = b[q + j - 1]
  BY Zenon, <1>3, <1>4, <1>5
<1> QED BY Zenon, <1>1, <1>2, <1>3, <1>4, <1>6, <1>7

\* n bytes further on.
LEMMA Moves ==
  ASSUME NEW b \in Seq(Nat), NEW d, d.buf \in Seq(Nat), NEW r \in Seq(Nat), NEW q, Placed(b, d, r, q),
         NEW n \in 0..Len(d.buf), NEW e, e.buf = From(d.buf, n)
  PROVE  e.buf \in Seq(Nat) /\ Placed(b, e, r, q + n)
<1>1. /\ q \in Nat /\ 1 <= q /\ q <= Len(b) + 1 /\ Len(b) \in Nat
      /\ Body!From(b, q) = d.buf \o r
      /\ Len(d.buf) + Len(r) = Len(b) - q + 1 /\ Len(d.buf) \in Nat /\ Len(r) \in Nat
  BY PlacedIs
<1>2. PICK k : k = q - 1
  OBVIOUS
<1>3. k \in 0..Len(b) /\ k + 1 = q /\ k \in Int /\ n \in 0..(Len(b) - k) /\ n \in Nat
      /\ (k + n) + 1 = q + n /\ k + n \in Int /\ q + n \in Places(b)
  BY <1>1, <1>2 DEF Places
<1>4. From(b, k) = d.buf \o r
  BY Zenon, <1>1, <1>3, BodyFrom
<1>5. From(From(b, k), n) = From(b, k + n)
  BY <1>3, FromFrom
<1>6. From(d.buf \o r, n) = From(d.buf, n) \o r /\ From(d.buf, n) \in Seq(Nat)
  BY <1>3, FromConcat, FromIs
<1>7. Body!From(b, q + n) = From(b, k + n)
  BY Zenon, <1>3, BodyFrom
<1> QED BY Zenon, <1>3, <1>4, <1>5, <1>6, <1>7 DEF Placed

\* As many bytes of a chunk as the decoder has, and then the rest of it.
PieceFront(b, d, q, n, m) ==
  Body!Piece(b, q, m) = SubSeq(d.buf, 1, n) \o Body!Piece(b, q + n, m - n)

LEMMA PieceSplits ==
  ASSUME NEW b \in Seq(Nat), NEW d, d.buf \in Seq(Nat), NEW r \in Seq(Nat), NEW q, Placed(b, d, r, q),
         NEW n \in 0..Len(d.buf), NEW m \in Nat, n <= m
  PROVE  /\ PieceFront(b, d, q, n, m)
         /\ Body!Piece(b, q, 0) = <<>>
<1>1. /\ q \in Nat /\ 1 <= q /\ q <= Len(b) + 1 /\ Len(b) \in Nat
      /\ Len(d.buf) + Len(r) = Len(b) - q + 1 /\ Len(d.buf) \in Nat /\ Len(r) \in Nat
      /\ \A j \in 1..Len(d.buf) : d.buf[j] = b[q + j - 1]
  BY PlacedIs
<1>2. PICK k : k = IF q + m - 1 <= Len(b) THEN q + m - 1 ELSE Len(b)
  OBVIOUS
<1>3. PICK h : h = q + n - 1
  OBVIOUS
<1>4. /\ h \in Nat /\ k \in Nat /\ q \in 1..(Len(b) + 1) /\ h \in (q - 1)..Len(b) /\ k \in h..Len(b)
      /\ h + 1 = q + n /\ (q + n) + (m - n) - 1 = q + m - 1 /\ n \in Nat
  BY <1>1, <1>2, <1>3
<1>5. Body!Piece(b, q, m) = SubSeq(b, q, k)
  BY Zenon, <1>2 DEF Body!Piece
<1>6. Body!Piece(b, q + n, m - n) = SubSeq(b, h + 1, k)
  BY Zenon, <1>2, <1>4 DEF Body!Piece
<1>7. SubSeq(b, q, h) \o SubSeq(b, h + 1, k) = SubSeq(b, q, k)
  BY <1>4, ConcatAdjacentSubSeq
<1>8. SubSeq(b, q, h) = SubSeq(d.buf, 1, n)
  <2>1. PICK s, t, u : s = SubSeq(b, q, h) /\ t = SubSeq(u, 1, n) /\ u = d.buf
    OBVIOUS
  <2>2. h - q + 1 = n /\ q <= h + 1 /\ h <= Len(b) /\ n <= Len(u) /\ u \in Seq(Nat) /\ 1 <= n + 1
        /\ 1 \in Nat /\ n - 1 + 1 = n /\ \A j \in 1..n : 1 + j - 1 = j /\ j \in 1..Len(u)
    BY <1>1, <1>3, <1>4, <2>1
  <2>3. s \in Seq(Nat) /\ Len(s) = n /\ \A j \in 1..n : s[j] = b[q + j - 1]
    <3>1. /\ SubSeq(b, q, h) \in Seq(Nat) /\ Len(SubSeq(b, q, h)) = h - q + 1
          /\ \A j \in 1..(h - q + 1) : SubSeq(b, q, h)[j] = b[q + j - 1]
      <4>1. q \in Nat /\ h \in Nat /\ 1 <= q /\ q <= h + 1 /\ h <= Len(b)
        BY <1>1, <1>4, <2>2
      <4> QED BY <4>1, PartIs
    <3> QED BY Zenon, <2>1, <2>2, <3>1
  <2>4. t \in Seq(Nat) /\ Len(t) = n /\ \A j \in 1..n : t[j] = u[j]
    <3>1. /\ SubSeq(u, 1, n) \in Seq(Nat) /\ Len(SubSeq(u, 1, n)) = n - 1 + 1
          /\ \A j \in 1..(n - 1 + 1) : SubSeq(u, 1, n)[j] = u[1 + j - 1]
      <4>1. u \in Seq(Nat) /\ 1 \in Nat /\ n \in Nat /\ 1 <= 1 /\ 1 <= n + 1 /\ n <= Len(u)
        BY <1>4, <2>2
      <4> QED BY <4>1, PartIs
    <3> QED BY Zenon, <2>1, <2>2, <3>1
  <2>5. \A j \in 1..n : s[j] = t[j]
    BY Zenon, <1>1, <2>1, <2>2, <2>3, <2>4
  <2>6. s = t
    <3>1. Len(s) = Len(t) /\ \A j \in 1..Len(s) : s[j] = t[j]
      BY Zenon, <2>3, <2>4, <2>5
    <3> QED BY Zenon, <2>3, <2>4, <3>1, SeqEqual
  <2> QED BY Zenon, <2>1, <2>6
<1>9. Body!Piece(b, q, 0) = <<>>
  <2>1. q + 0 - 1 = q - 1 /\ q - 1 <= Len(b) /\ q - 1 \in Int /\ q \in Int /\ q - 1 < q
    BY <1>1
  <2>2. SubSeq(b, q, q - 1) = <<>>
    BY <2>1, SubSeqEmpty
  <2> QED BY Zenon, <2>1, <2>2 DEF Body!Piece
<1> QED BY Zenon, <1>5, <1>6, <1>7, <1>8, <1>9 DEF PieceFront

\* From d at q to e at another place, with the same bytes yet to come.
Goes(b, d, q, e, r) ==
  /\ DecIs(e)
  /\ \E p : /\ Placed(b, e, r, p)
            /\ d.out \o Yet(b, Body!Chunks(b), d, q) = e.out \o Yet(b, Body!Chunks(b), e, p)
            /\ YetSound(b, Body!Chunks(b), d, q) => YetSound(b, Body!Chunks(b), e, p)

LEMMA RestIs ==
  ASSUME NEW b \in Seq(Nat), NEW q \in Places(b), NEW n \in Nat
  PROVE  Rest(b, Body!Chunks(b), q, n) \in Seq(Nat)
<1>1. Body!Piece(b, q, n) \in Seq(Nat)
  BY PieceIs
<1>2. ASSUME Body!CrlfAt(b, q + n) PROVE Body!Chunks(b)[q + n + 2].body \in Seq(Nat)
  <2>1. q + n + 2 \in Places(b)
    <3>1. q + n + 1 <= Len(b)
      BY <1>2 DEF Body!CrlfAt
    <3> QED BY <3>1 DEF Places
  <2>2. Body!Chunks(b)[q + n + 2] \in Chunk
    BY <2>1, ChunksAre
  <2> QED BY <2>2 DEF Chunk
<1>3. ASSUME Body!CrlfAt(b, q + n)
      PROVE  Body!Piece(b, q, n) \o Body!Chunks(b)[q + n + 2].body \in Seq(Nat)
  <2>1. PICK s, t : s = Body!Piece(b, q, n) /\ t = Body!Chunks(b)[q + n + 2].body
    OBVIOUS
  <2>2. s \in Seq(Nat) /\ t \in Seq(Nat)
    BY <1>1, <1>2, <1>3, <2>1
  <2>3. s \o t \in Seq(Nat)
    BY <2>2
  <2> QED BY <2>1, <2>3
<1> QED BY Zenon, <1>1, <1>3 DEF Rest

LEMMA YetIs ==
  ASSUME NEW b \in Seq(Nat), NEW d, DecIs(d), NEW q \in Places(b)
  PROVE  Yet(b, Body!Chunks(b), d, q) \in Seq(Nat)
<1>1. d.remaining \in Nat \union {-1} /\ <<>> \in Seq(Nat)
  BY DEF DecIs
<1>2. Body!Chunks(b)[q].body \in Seq(Nat)
  <2>1. Body!Chunks(b)[q] \in Chunk
    BY ChunksAre
  <2> QED BY <2>1 DEF Chunk
<1>3. d.remaining # -1 => Rest(b, Body!Chunks(b), q, d.remaining) \in Seq(Nat)
  <2>1. d.remaining # -1 => d.remaining \in Nat
    BY <1>1
  <2> QED BY <2>1, RestIs
<1> QED BY Zenon, <1>1, <1>2, <1>3 DEF Yet

\* What the decoder finds of a size line is what is there.
LEMMA LineFound ==
  ASSUME NEW b \in Seq(Nat), NEW d, DecIs(d), NEW r \in Seq(Nat), NEW q, Placed(b, d, r, q)
  PROVE  /\ Body!LineEnds(d.buf) # {} =>
              /\ Body!LineEnds(Body!From(b, q)) # {}
              /\ Body!Eol(Body!From(b, q)) = Body!Eol(d.buf)
              /\ Body!Digits(b, q) = SubSeq(d.buf, 1, Body!Eol(d.buf) - 1)
              /\ Body!Data(b, q) = q + (Body!Eol(d.buf) + 1)
              /\ Body!Eol(d.buf) + 1 \in 0..Len(d.buf)
         /\ Body!LineEnds(d.buf) = {} /\ Body!LineEnds(Body!From(b, q)) # {}
              => Len(d.buf) <= Body!Eol(Body!From(b, q))
<1>1. PICK s, w : s = d.buf /\ w = Body!From(b, q)
  OBVIOUS
<1>2. s \in Seq(Nat) /\ w \in Seq(Nat) /\ w = s \o r /\ q \in Nat
  <2>1. d.buf \in Seq(Nat)
    BY DEF DecIs
  <2>2. Body!From(b, q) \in Seq(Nat) /\ Body!From(b, q) = d.buf \o r /\ q \in Nat
    BY <2>1, PlacedIs
  <2> QED BY Zenon, <1>1, <2>1, <2>2
<1>3. /\ Body!LineEnds(s) # {} =>
            /\ Body!LineEnds(w) # {} /\ Body!Eol(w) = Body!Eol(s)
            /\ SubSeq(w, 1, Body!Eol(s) - 1) = SubSeq(s, 1, Body!Eol(s) - 1)
      /\ Body!LineEnds(s) = {} /\ Body!LineEnds(w) # {} => Len(s) <= Body!Eol(w)
  BY <1>2, EolFirst
<1>4. ASSUME Body!LineEnds(s) # {}
      PROVE  /\ Body!Eol(s) + 1 \in 0..Len(s)
             /\ q + Body!Eol(s) + 1 = q + (Body!Eol(s) + 1)
  <2>1. PICK e : e = Body!Eol(s)
    OBVIOUS
  <2>2. EndsAt(s, e)
    BY <1>2, <1>4, <2>1, EolIs
  <2>3. e \in 1..(Len(s) - 1) /\ Len(s) \in Nat
    BY <1>2, <2>2 DEF EndsAt
  <2> QED BY <1>2, <2>1, <2>3
<1>5. Body!Digits(b, q) = SubSeq(w, 1, Body!Eol(w) - 1) /\ Body!Data(b, q) = q + Body!Eol(w) + 1
  BY Zenon, <1>1 DEF Body!Digits, Body!Data
<1> QED BY Zenon, <1>1, <1>3, <1>4, <1>5

SizeTaken(d, n, e) ==
  e = [d EXCEPT !.buf = Body!From(@, Body!Eol(d.buf) + 2),
                !.remaining = IF n = 0 THEN -1 ELSE n, !.done = n = 0]

LEMMA SizeIsRead ==
  ASSUME NEW b \in Seq(Nat), NEW d, DecIs(d), NEW r \in Seq(Nat), NEW q, Placed(b, d, r, q),
         d.remaining = -1, ~d.done, Body!LineEnds(d.buf) # {},
         NEW n, n = Body!Size(SubSeq(d.buf, 1, Body!Eol(d.buf) - 1)),
         Body!IsSize(SubSeq(d.buf, 1, Body!Eol(d.buf) - 1)),
         NEW e, SizeTaken(d, n, e)
  PROVE  Goes(b, d, q, e, r) /\ e.out = d.out
<1> DEFINE C == Body!Chunks(b)
<1>1. /\ Body!LineEnds(Body!From(b, q)) # {}
      /\ Body!Eol(Body!From(b, q)) = Body!Eol(d.buf)
      /\ Body!Digits(b, q) = SubSeq(d.buf, 1, Body!Eol(d.buf) - 1)
      /\ Body!Data(b, q) = q + (Body!Eol(d.buf) + 1)
      /\ Body!Eol(d.buf) + 1 \in 0..Len(d.buf)
  BY LineFound
<1>2. PICK k : k = Body!Eol(d.buf) + 1
  OBVIOUS
<1>3. k \in 0..Len(d.buf) /\ Body!Eol(d.buf) + 2 = k + 1 /\ k \in Int
  <2>1. k \in 0..Len(d.buf)
    BY <1>1, <1>2
  <2>2. Len(d.buf) \in Nat
    BY DEF DecIs
  <2>3. Body!Eol(d.buf) \in Int
    <3>1. d.buf \in Seq(Nat)
      BY DEF DecIs
    <3>2. EndsAt(d.buf, Body!Eol(d.buf))
      BY <3>1, EolIs
    <3> QED BY <3>2 DEF EndsAt
  <2> QED BY <1>2, <2>1, <2>2, <2>3
<1>4. n \in Nat /\ n = Body!Size(Body!Digits(b, q)) /\ Body!HasSize(b, q)
  <2>1. q \in Places(b)
    BY DEF Placed
  <2>2. Body!Size(Body!Digits(b, q)) \in Nat
    BY <1>1, <2>1, SizeLineIs
  <2>3. n = Body!Size(Body!Digits(b, q)) /\ Body!HasSize(b, q)
    BY Zenon, <1>1 DEF Body!HasSize
  <2> QED BY <2>2, <2>3
<1>5. /\ d.buf \in Seq(Nat) /\ d.out \in Seq(Nat)
      /\ d = [buf |-> d.buf, remaining |-> d.remaining, done |-> d.done, out |-> d.out]
  BY DEF DecIs
<1>6. e = [buf |-> From(d.buf, k), remaining |-> IF n = 0 THEN -1 ELSE n, done |-> (n = 0), out |-> d.out]
  <2>1. Body!From(d.buf, Body!Eol(d.buf) + 2) = From(d.buf, k)
    BY Zenon, <1>3, BodyFrom
  <2>2. e = [buf |-> Body!From(d.buf, Body!Eol(d.buf) + 2), remaining |-> IF n = 0 THEN -1 ELSE n,
             done |-> (n = 0), out |-> d.out]
    BY <1>5 DEF SizeTaken
  <2> QED BY Zenon, <2>1, <2>2
<1>7. /\ e.buf = From(d.buf, k) /\ e.remaining = (IF n = 0 THEN -1 ELSE n) /\ e.done = (n = 0)
      /\ e.out = d.out
  <2>1. PICK x, y, z : x = (IF n = 0 THEN -1 ELSE n) /\ y = (n = 0) /\ z = From(d.buf, k)
    OBVIOUS
  <2>2. e = [buf |-> z, remaining |-> x, done |-> y, out |-> d.out]
    BY Zenon, <1>6, <2>1
  <2>3. e.buf = z /\ e.remaining = x /\ e.done = y /\ e.out = d.out
    BY Zenon, <2>2
  <2> QED BY Zenon, <2>1, <2>3
<1>8. e.buf \in Seq(Nat) /\ Placed(b, e, r, q + k)
  <2>1. k \in 0..Len(d.buf) /\ d.buf \in Seq(Nat) /\ e.buf = From(d.buf, k)
    BY Zenon, <1>3, <1>5, <1>7
  <2> QED BY Zenon, <2>1, Moves
<1>9. DecIs(e)
  <2>1. From(d.buf, k) \in Seq(Nat)
    BY Zenon, <1>7, <1>8
  <2>2. (IF n = 0 THEN -1 ELSE n) \in Nat \union {-1} /\ (n = 0) \in BOOLEAN
    BY <1>4
  <2>3. e.done => e.remaining = -1
    BY Zenon, <1>7
  <2>4. e \in [buf : Seq(Nat), remaining : Nat \union {-1}, done : BOOLEAN, out : Seq(Nat)]
    <3>1. PICK x, y, z : x = (IF n = 0 THEN -1 ELSE n) /\ y = (n = 0) /\ z = From(d.buf, k)
      OBVIOUS
    <3>2. e = [buf |-> z, remaining |-> x, done |-> y, out |-> d.out]
      BY Zenon, <1>6, <3>1
    <3>3. x \in Nat \union {-1} /\ y \in BOOLEAN /\ z \in Seq(Nat) /\ d.out \in Seq(Nat)
      BY Zenon, <1>5, <2>1, <2>2, <3>1
    <3> QED BY <3>2, <3>3
  <2> QED BY Zenon, <2>3, <2>4 DEF DecIs
<1>10. q \in Places(b) /\ ChunkAt(b, C, q)
  <2>1. q \in Places(b)
    BY DEF Placed
  <2> QED BY <2>1, ChunksAre
<1>11. Yet(b, C, d, q) = C[q].body /\ (YetSound(b, C, d, q) <=> C[q].sound)
  BY Zenon DEF Yet, YetSound
<1>12. CASE n = 0
  <2>1. ~Body!Begins(b, q)
    BY Zenon, <1>4, <1>12 DEF Body!Begins
  <2>2. C[q].body = <<>>
    <3>1. C[q] = [body |-> <<>>, sound |-> Body!IsShort(b, q)]
      BY Zenon, <1>10, <2>1 DEF ChunkAt
    <3> QED BY <3>1
  <2>3. Yet(b, C, e, q + k) = <<>> /\ YetSound(b, C, e, q + k)
    BY Zenon, <1>7, <1>12 DEF Yet, YetSound
  <2> HIDE DEF C
  <2>4. d.out \o Yet(b, C, d, q) = e.out \o Yet(b, C, e, q + k)
    BY Zenon, <1>7, <1>11, <2>2, <2>3
  <2> QED BY Zenon, <1>7, <1>8, <1>9, <2>3, <2>4 DEF Goes, C
<1>13. CASE n # 0
  <2>1. Body!Begins(b, q)
    BY Zenon, <1>4, <1>13 DEF Body!Begins
  <2>2. ~e.done /\ e.remaining = n /\ n # -1
    <3>1. n # -1
      BY <1>4
    <3> QED BY Zenon, <1>7, <1>13, <3>1
  <2>3. Yet(b, C, e, q + k) = Rest(b, C, q + k, n) /\ (YetSound(b, C, e, q + k) <=> RestSound(b, C, q + k, n))
    BY Zenon, <2>2 DEF Yet, YetSound
  <2>4. Body!Data(b, q) = q + k /\ EndOf(b, q) = q + k + n
    BY Zenon, <1>1, <1>2, <1>4 DEF EndOf
  <2>5. C[q].body = Rest(b, C, q + k, n) /\ (C[q].sound => RestSound(b, C, q + k, n))
    <3>1. CASE ~Body!CrlfAt(b, EndOf(b, q))
      <4>1. C[q] = [body |-> Body!Piece(b, Body!Data(b, q), Body!Size(Body!Digits(b, q))),
                    sound |-> Body!IsShort(b, q) /\ EndOf(b, q) >= Len(b)]
        BY Zenon, <1>10, <2>1, <3>1 DEF ChunkAt
      <4>2. C[q].body = Body!Piece(b, Body!Data(b, q), Body!Size(Body!Digits(b, q)))
            /\ (C[q].sound => EndOf(b, q) >= Len(b))
        <5>1. PICK x, y : x = Body!Piece(b, Body!Data(b, q), Body!Size(Body!Digits(b, q)))
                   /\ y = (Body!IsShort(b, q) /\ EndOf(b, q) >= Len(b))
          OBVIOUS
        <5>2. C[q] = [body |-> x, sound |-> y]
          BY Zenon, <4>1, <5>1
        <5>3. C[q].body = x /\ C[q].sound = y
          <6> HIDE DEF C
          <6> QED BY <5>2
        <5> QED BY Zenon, <5>1, <5>3
      <4> QED BY Zenon, <4>2, <1>4, <2>4, <3>1 DEF Rest, RestSound
    <3>2. CASE Body!CrlfAt(b, EndOf(b, q))
      <4>1. C[q] = [body |-> Body!Piece(b, Body!Data(b, q), Body!Size(Body!Digits(b, q)))
                               \o C[EndOf(b, q) + 2].body,
                    sound |-> Body!IsShort(b, q) /\ C[EndOf(b, q) + 2].sound]
        BY Zenon, <1>10, <2>1, <3>2 DEF ChunkAt
      <4>2. /\ C[q].body = Body!Piece(b, Body!Data(b, q), Body!Size(Body!Digits(b, q)))
                             \o C[EndOf(b, q) + 2].body
            /\ C[q].sound => C[EndOf(b, q) + 2].sound
        <5>1. PICK x, y : x = Body!Piece(b, Body!Data(b, q), Body!Size(Body!Digits(b, q)))
                             \o C[EndOf(b, q) + 2].body
                   /\ y = (Body!IsShort(b, q) /\ C[EndOf(b, q) + 2].sound)
          OBVIOUS
        <5>2. C[q] = [body |-> x, sound |-> y]
          BY Zenon, <4>1, <5>1
        <5>3. C[q].body = x /\ C[q].sound = y
          <6> HIDE DEF C
          <6> QED BY <5>2
        <5> QED BY Zenon, <5>1, <5>3
      <4> QED BY Zenon, <4>2, <1>4, <2>4, <3>2 DEF Rest, RestSound
    <3> QED BY <3>1, <3>2
  <2> HIDE DEF C
  <2>6. d.out \o Yet(b, C, d, q) = e.out \o Yet(b, C, e, q + k)
    BY Zenon, <1>7, <1>11, <2>3, <2>5
  <2>7. YetSound(b, C, d, q) => YetSound(b, C, e, q + k)
    BY Zenon, <1>11, <2>3, <2>5
  <2> QED BY Zenon, <1>7, <1>8, <1>9, <2>6, <2>7 DEF Goes, C
<1> QED BY <1>12, <1>13

LEMMA Associates ==
  ASSUME NEW s \in Seq(Nat), NEW t \in Seq(Nat), NEW u \in Seq(Nat)
  PROVE  (s \o t) \o u = s \o (t \o u)
BY ConcatAssociative, SMTT(40)

LEMMA ChunkShort ==
  ASSUME NEW b \in Seq(Nat), NEW q \in Places(b), Body!Chunks(b)[q].sound
  PROVE  Body!IsShort(b, q)
<1>1. ChunkAt(b, Body!Chunks(b), q)
  BY ChunksAre
<1>2. PICK C, x : C = Body!Chunks(b) /\ x = C[q]
  OBVIOUS
<1>3. PICK body, last, rest :
        /\ body = Body!Piece(b, Body!Data(b, q), Body!Size(Body!Digits(b, q)))
        /\ last = (EndOf(b, q) >= Len(b)) /\ rest = C[EndOf(b, q) + 2]
  OBVIOUS
<1>4. \/ x = [body |-> <<>>, sound |-> Body!IsShort(b, q)]
      \/ x = [body |-> body, sound |-> Body!IsShort(b, q) /\ last]
      \/ x = [body |-> body \o rest.body, sound |-> Body!IsShort(b, q) /\ rest.sound]
  BY Zenon, <1>1, <1>2, <1>3 DEF ChunkAt
<1>5. PICK y, z, s : y = (Body!IsShort(b, q) /\ last) /\ z = (Body!IsShort(b, q) /\ rest.sound)
                     /\ s = Body!IsShort(b, q)
  OBVIOUS
<1>6. PICK u : u = body \o rest.body
  OBVIOUS
<1>7. \/ x = [body |-> <<>>, sound |-> s]
      \/ x = [body |-> body, sound |-> y]
      \/ x = [body |-> u, sound |-> z]
  BY Zenon, <1>4, <1>5, <1>6
<1>8. x.sound = s \/ x.sound = y \/ x.sound = z
  BY <1>7
<1> QED BY Zenon, <1>2, <1>5, <1>8

\* A size line that the decoder refuses is none that it could have read.
LEMMA SizeRefused ==
  ASSUME NEW b \in Seq(Nat), NEW d, DecIs(d), NEW r \in Seq(Nat), NEW q, Placed(b, d, r, q),
         d.remaining = -1, ~d.done,
         \/ Body!LineEnds(d.buf) = {} /\ Len(d.buf) > Body!MaxSize
         \/ Body!LineEnds(d.buf) # {} /\ ~Body!IsSize(SubSeq(d.buf, 1, Body!Eol(d.buf) - 1))
  PROVE  ~YetSound(b, Body!Chunks(b), d, q)
<1>1. q \in Places(b)
  BY DEF Placed
<1>2. /\ Body!LineEnds(d.buf) # {} =>
              /\ Body!LineEnds(Body!From(b, q)) # {}
              /\ Body!Eol(Body!From(b, q)) = Body!Eol(d.buf)
              /\ Body!Digits(b, q) = SubSeq(d.buf, 1, Body!Eol(d.buf) - 1)
      /\ Body!LineEnds(d.buf) = {} /\ Body!LineEnds(Body!From(b, q)) # {}
              => Len(d.buf) <= Body!Eol(Body!From(b, q))
  BY LineFound
<1>3. ~Body!IsShort(b, q)
  <2>1. CASE Body!LineEnds(d.buf) # {}
    <3>1. ~Body!HasSize(b, q) /\ Body!LineEnds(Body!From(b, q)) # {}
      BY Zenon, <1>2, <2>1 DEF Body!HasSize
    <3> QED BY Zenon, <3>1 DEF Body!IsShort
  <2>2. CASE Body!LineEnds(d.buf) = {} /\ Body!LineEnds(Body!From(b, q)) # {}
    <3>1. PICK n, m, k : n = Len(d.buf) /\ m = Body!Eol(Body!From(b, q)) /\ k = Body!MaxSize
      OBVIOUS
    <3>2. n <= m /\ n > k
      BY Zenon, <1>2, <2>2, <3>1
    <3>3. n \in Nat /\ k \in Nat /\ m \in Nat
      <4>1. d.buf \in Seq(Nat)
        BY DEF DecIs
      <4>2. m \in 1..(Len(b) - q) /\ q \in Nat /\ Len(b) \in Nat
        BY <1>1, <2>2, <3>1, SizeLineIs, PlaceIs
      <4> QED BY <3>1, <4>1, <4>2 DEF Body!MaxSize
    <3>4. ~(m <= k)
      BY <3>2, <3>3
    <3> QED BY Zenon, <2>2, <3>1, <3>4 DEF Body!IsShort
  <2>3. CASE Body!LineEnds(d.buf) = {} /\ Body!LineEnds(Body!From(b, q)) = {}
    <3>1. PICK n, m, k : n = Len(d.buf) /\ m = Len(Body!From(b, q)) /\ k = Body!MaxSize
      OBVIOUS
    <3>2. n > k
      BY Zenon, <2>3, <3>1
    <3>3. n \in Nat /\ m \in Nat /\ n <= m
      <4>1. d.buf \in Seq(Nat)
        BY DEF DecIs
      <4>2. /\ Len(d.buf) + Len(r) = Len(b) - q + 1 /\ Len(d.buf) \in Nat /\ Len(r) \in Nat
            /\ q \in Nat /\ Len(b) \in Nat
        BY <4>1, PlacedIs
      <4>3. Len(Body!From(b, q)) = Len(b) - q + 1
        BY <1>1, PlaceIs
      <4> QED BY <3>1, <4>2, <4>3
    <3>4. ~(m <= k)
      <4>1. k \in Nat
        BY <3>1 DEF Body!MaxSize
      <4> QED BY <3>2, <3>3, <4>1
    <3> QED BY Zenon, <2>3, <3>1, <3>4 DEF Body!IsShort
  <2> QED BY <2>1, <2>2, <2>3
<1>4. ~Body!Chunks(b)[q].sound
  BY <1>1, <1>3, ChunkShort
<1> QED BY Zenon, <1>4 DEF YetSound

\* As much of a chunk as there is goes out.
ChunkTaken(d, n, e) ==
  e = [d EXCEPT !.buf = Body!From(@, n + 1), !.remaining = @ - n, !.out = @ \o SubSeq(d.buf, 1, n)]

LEMMA ChunkIsRead ==
  ASSUME NEW b \in Seq(Nat), NEW d, DecIs(d), NEW r \in Seq(Nat), NEW q, Placed(b, d, r, q),
         NEW n \in Nat, d.remaining > 0, n <= d.remaining, n <= Len(d.buf), NEW e, ChunkTaken(d, n, e)
  PROVE  Goes(b, d, q, e, r)
<1> DEFINE C == Body!Chunks(b)
<1>1. /\ d.buf \in Seq(Nat) /\ d.out \in Seq(Nat) /\ d.remaining \in Nat \union {-1} /\ d.done \in BOOLEAN
      /\ d = [buf |-> d.buf, remaining |-> d.remaining, done |-> d.done, out |-> d.out]
      /\ d.done => d.remaining = -1
  BY DEF DecIs
<1>2. PICK m : m = d.remaining
  OBVIOUS
<1>3. m \in Nat /\ n <= m /\ ~d.done /\ m # -1 /\ m - n # -1 /\ m - n \in Nat /\ n \in Int
      /\ n \in 0..Len(d.buf) /\ m > 0
  <2>1. m \in Nat /\ m > 0 /\ n <= m /\ Len(d.buf) \in Nat
    BY <1>1, <1>2
  <2>2. ~d.done
    BY <1>1, <1>2, <2>1
  <2> QED BY <2>1, <2>2
<1>4. PICK s, t, u : s = From(d.buf, n) /\ t = SubSeq(d.buf, 1, n) /\ u = d.out \o t
  OBVIOUS
<1>5. s \in Seq(Nat) /\ t \in Seq(Nat) /\ u \in Seq(Nat)
  <2>1. From(d.buf, n) \in Seq(Nat) /\ SubSeq(d.buf, 1, n) \in Seq(Nat)
    BY <1>1, <1>3, Cut
  <2>2. t \in Seq(Nat)
    BY Zenon, <1>4, <2>1
  <2>3. d.out \o t \in Seq(Nat)
    BY <1>1, <2>2
  <2> QED BY Zenon, <1>4, <2>1, <2>3
<1>6. e = [buf |-> s, remaining |-> m - n, done |-> d.done, out |-> u]
  <2>1. Body!From(d.buf, n + 1) = s
    BY Zenon, <1>3, <1>4, BodyFrom
  <2>2. e = [buf |-> Body!From(d.buf, n + 1), remaining |-> d.remaining - n, done |-> d.done,
             out |-> d.out \o SubSeq(d.buf, 1, n)]
    BY <1>1 DEF ChunkTaken
  <2> QED BY Zenon, <1>2, <1>4, <2>1, <2>2
<1>7. e.buf = s /\ e.remaining = m - n /\ e.done = d.done /\ e.out = u
  BY <1>6
<1>8. DecIs(e)
  <2>1. e \in [buf : Seq(Nat), remaining : Nat \union {-1}, done : BOOLEAN, out : Seq(Nat)]
    BY <1>1, <1>3, <1>5, <1>6
  <2> QED BY Zenon, <1>3, <1>7, <2>1 DEF DecIs
<1>9. Placed(b, e, r, q + n)
  <2>1. e.buf = From(d.buf, n)
    BY Zenon, <1>4, <1>7
  <2> QED BY <1>1, <1>3, <2>1, Moves
<1>10. q \in Nat /\ (q + n) + (m - n) = q + m /\ q + n + (m - n) = q + m
  <2>1. q \in Nat
    BY <1>1, PlacedIs
  <2> QED BY <2>1, <1>3
<1>11. Body!Piece(b, q, m) = t \o Body!Piece(b, q + n, m - n)
  <2>1. Body!Piece(b, q, m) = SubSeq(d.buf, 1, n) \o Body!Piece(b, q + n, m - n)
    <3>1. d.buf \in Seq(Nat) /\ n \in 0..Len(d.buf) /\ m \in Nat /\ n <= m
      BY Zenon, <1>1, <1>3
    <3>2. Placed(b, d, r, q)
      OBVIOUS
    <3>3. PieceFront(b, d, q, n, m)
      BY <3>1, <3>2, PieceSplits
    <3> QED BY Zenon, <3>3 DEF PieceFront
  <2> QED BY Zenon, <1>4, <2>1
<1>12. /\ Yet(b, C, d, q) = Rest(b, C, q, m) /\ (YetSound(b, C, d, q) <=> RestSound(b, C, q, m))
       /\ Yet(b, C, e, q + n) = Rest(b, C, q + n, m - n)
       /\ (YetSound(b, C, e, q + n) <=> RestSound(b, C, q + n, m - n))
  BY Zenon, <1>2, <1>3, <1>7 DEF Yet, YetSound
<1>13. RestSound(b, C, q, m) <=> RestSound(b, C, q + n, m - n)
  BY Zenon, <1>10 DEF RestSound
<1>14. Rest(b, C, q, m) = t \o Rest(b, C, q + n, m - n)
  <2>1. q \in Places(b) /\ q + n \in Places(b)
    BY Zenon, <1>9 DEF Placed
  <2>2. CASE ~Body!CrlfAt(b, q + m)
    BY Zenon, <2>2, <1>10, <1>11 DEF Rest
  <2>3. CASE Body!CrlfAt(b, q + m)
    <3>1. PICK y, z, w : y = Body!Piece(b, q + n, m - n) /\ z = C[q + m + 2].body /\ w = Body!Piece(b, q, m)
      OBVIOUS
    <3>2. y \in Seq(Nat) /\ z \in Seq(Nat)
      <4>1. y \in Seq(Nat)
        BY <2>1, <1>3, <3>1, PieceIs
      <4>2. q + m + 2 \in Places(b)
        <5>1. q + m + 1 <= Len(b) /\ Len(b) \in Nat
          BY <2>3 DEF Body!CrlfAt
        <5> QED BY <5>1, <1>3, <1>10 DEF Places
      <4>3. C[q + m + 2] \in Chunk
        BY <4>2, ChunksAre
      <4>4. C[q + m + 2].body \in Seq(Nat)
        <5> HIDE DEF C
        <5> QED BY <4>3 DEF Chunk
      <4> QED BY Zenon, <3>1, <4>1, <4>4
    <3>3. (t \o y) \o z = t \o (y \o z)
      <4>1. t \in Seq(Nat) /\ y \in Seq(Nat) /\ z \in Seq(Nat)
        BY Zenon, <1>5, <3>2
      <4> HIDE DEF C
      <4> QED BY <4>1, Associates, ZenonT(40)
    <3>4. Rest(b, C, q, m) = w \o z /\ Rest(b, C, q + n, m - n) = y \o z /\ w = t \o y
      BY Zenon, <2>3, <1>10, <1>11, <3>1 DEF Rest
    <3> QED BY Zenon, <3>3, <3>4
  <2> QED BY <2>2, <2>3
<1>15. d.out \o Yet(b, C, d, q) = e.out \o Yet(b, C, e, q + n)
  <2>1. PICK y : y = Rest(b, C, q + n, m - n)
    OBVIOUS
  <2>2. y \in Seq(Nat)
    <3>1. q + n \in Places(b)
      BY Zenon, <1>9 DEF Placed
    <3> QED BY <1>3, <2>1, <3>1, RestIs
  <2>3. (d.out \o t) \o y = d.out \o (t \o y)
    <3>1. d.out \in Seq(Nat) /\ t \in Seq(Nat) /\ y \in Seq(Nat)
      BY Zenon, <1>1, <1>5, <2>2
    <3> QED BY Zenon, <3>1, Associates
  <2> QED BY Zenon, <1>4, <1>7, <1>12, <1>14, <2>1, <2>3
<1> QED BY Zenon, <1>8, <1>9, <1>12, <1>13, <1>15 DEF Goes

DecoderOf(buf, remaining, done, out) ==
  [buf |-> buf, remaining |-> remaining, done |-> done, out |-> out]

LEMMA DecoderIs ==
  ASSUME NEW s \in Seq(Nat), NEW m \in Nat \union {-1}, NEW done \in BOOLEAN, NEW o \in Seq(Nat),
         done => m = -1
  PROVE  /\ DecIs(DecoderOf(s, m, done, o))
         /\ DecoderOf(s, m, done, o).buf = s /\ DecoderOf(s, m, done, o).remaining = m
         /\ DecoderOf(s, m, done, o).done = done /\ DecoderOf(s, m, done, o).out = o
<1>1. PICK e : e = DecoderOf(s, m, done, o)
  OBVIOUS
<1>2. e.buf = s /\ e.remaining = m /\ e.done = done /\ e.out = o
  BY <1>1 DEF DecoderOf
<1>3. e \in [buf : Seq(Nat), remaining : Nat \union {-1}, done : BOOLEAN, out : Seq(Nat)]
  BY <1>1 DEF DecoderOf
<1> QED BY Zenon, <1>1, <1>2, <1>3 DEF DecIs

\* The CRLF of a chunk is there, or it is none.
CrlfHere(d) == SubSeq(d.buf, 1, 2) = <<Body!CR, Body!LF>>

LEMMA CrlfIs ==
  ASSUME NEW b \in Seq(Nat), NEW d, DecIs(d), NEW r \in Seq(Nat), NEW q, Placed(b, d, r, q), Len(d.buf) >= 2
  PROVE  (CrlfHere(d) <=> Body!CrlfAt(b, q)) /\ ~(q >= Len(b)) /\ q + 0 = q
<1>1. d.buf \in Seq(Nat)
  BY DEF DecIs
<1>2. /\ q \in Nat /\ 1 <= q /\ q <= Len(b) + 1 /\ Len(b) \in Nat
      /\ Len(d.buf) + Len(r) = Len(b) - q + 1 /\ Len(d.buf) \in Nat /\ Len(r) \in Nat
      /\ \A j \in 1..Len(d.buf) : d.buf[j] = b[q + j - 1]
  BY <1>1, PlacedIs
<1>3. PICK s : s = d.buf
  OBVIOUS
<1>4. 1 \in 1..Len(s) /\ 2 \in 1..Len(s) /\ q + 1 - 1 = q /\ q + 2 - 1 = q + 1 /\ q + 1 <= Len(b)
      /\ ~(q >= Len(b)) /\ q + 0 = q
  <2>1. PICK l, m, n : l = Len(s) /\ m = Len(r) /\ n = Len(b)
    OBVIOUS
  <2>2. q \in Nat /\ n \in Nat /\ l + m = n - q + 1 /\ l \in Nat /\ m \in Nat /\ 2 <= l
    BY Zenon, <1>2, <1>3, <2>1
  <2>3. 1 \in 1..l /\ 2 \in 1..l /\ q + 1 - 1 = q /\ q + 2 - 1 = q + 1 /\ q + 1 <= n
        /\ ~(q >= n) /\ q + 0 = q
    <3>1. 1 \in 1..l /\ 2 \in 1..l
      BY <2>2
    <3>2. q + 1 - 1 = q /\ q + 2 - 1 = q + 1 /\ q + 0 = q
      BY <2>2
    <3>3. q + 1 <= n
      BY <2>2
    <3>4. ~(q >= n)
      BY <2>2, <3>3
    <3> QED BY Zenon, <3>1, <3>2, <3>3, <3>4
  <2> QED BY Zenon, <2>1, <2>3
<1>5. s[1] = b[q] /\ s[2] = b[q + 1]
  BY Zenon, <1>2, <1>3, <1>4
<1>6. SubSeq(s, 1, 2) = <<s[1], s[2]>>
  <2>1. s \in Seq(Nat) /\ Len(s) \in Nat /\ 2 <= Len(s)
    BY <1>1, <1>2, <1>3, <1>4
  <2>2. PICK t : t = SubSeq(s, 1, 2)
    OBVIOUS
  <2>3. t \in Seq(Nat) /\ Len(t) = 2 /\ t[1] = s[1] /\ t[2] = s[2]
    <3>1. /\ SubSeq(s, 1, 2) \in Seq(Nat) /\ Len(SubSeq(s, 1, 2)) = 2 - 1 + 1
          /\ \A j \in 1..(2 - 1 + 1) : SubSeq(s, 1, 2)[j] = s[1 + j - 1]
      <4>1. 1 \in Nat /\ 2 \in Nat /\ 1 <= 1 /\ 1 <= 2 + 1
        OBVIOUS
      <4> QED BY Zenon, <2>1, <4>1, PartIs
    <3>2. 2 - 1 + 1 = 2 /\ 1 \in 1..2 /\ 2 \in 1..2 /\ 1 + 1 - 1 = 1 /\ 1 + 2 - 1 = 2
      OBVIOUS
    <3> QED BY Zenon, <2>2, <3>1, <3>2
  <2>4. t = <<s[1], s[2]>>
    BY <2>3
  <2> QED BY Zenon, <2>2, <2>4
<1>7. CrlfHere(d) <=> s[1] = Body!CR /\ s[2] = Body!LF
  <2>1. SubSeq(d.buf, 1, 2) = <<s[1], s[2]>>
    BY Zenon, <1>3, <1>6
  <2>2. <<s[1], s[2]>> = <<Body!CR, Body!LF>> <=> s[1] = Body!CR /\ s[2] = Body!LF
    OBVIOUS
  <2> QED BY Zenon, <2>1, <2>2 DEF CrlfHere
<1> QED BY Zenon, <1>4, <1>5, <1>7 DEF Body!CrlfAt

CrlfTaken(d, e) == e = [d EXCEPT !.buf = Body!From(@, 3), !.remaining = -1]

LEMMA CrlfIsRead ==
  ASSUME NEW b \in Seq(Nat), NEW d, DecIs(d), NEW r \in Seq(Nat), NEW q, Placed(b, d, r, q),
         d.remaining = 0, Len(d.buf) >= 2, CrlfHere(d),
         NEW e, CrlfTaken(d, e)
  PROVE  Goes(b, d, q, e, r)
<1> DEFINE C == Body!Chunks(b)
<1>1. /\ d.buf \in Seq(Nat) /\ d.out \in Seq(Nat) /\ d.done \in BOOLEAN
      /\ d = [buf |-> d.buf, remaining |-> d.remaining, done |-> d.done, out |-> d.out]
      /\ d.done => d.remaining = -1
  BY DEF DecIs
<1>2. ~d.done /\ d.remaining # -1
  BY <1>1
<1>3. PICK s : s = From(d.buf, 2)
  OBVIOUS
<1>4. 2 \in 0..Len(d.buf)
  BY <1>1
<1>5. s \in Seq(Nat)
  <2>1. From(d.buf, 2) \in Seq(Nat)
    BY <1>1, <1>4, FromIs
  <2> QED BY Zenon, <1>3, <2>1
<1>6. e = DecoderOf(s, -1, d.done, d.out)
  <2>1. Body!From(d.buf, 3) = s
    <3>1. 2 + 1 = 3 /\ 2 \in Int
      OBVIOUS
    <3> QED BY Zenon, <1>3, <3>1, BodyFrom
  <2>2. e = [buf |-> Body!From(d.buf, 3), remaining |-> -1, done |-> d.done, out |-> d.out]
    BY <1>1 DEF CrlfTaken
  <2> QED BY Zenon, <2>1, <2>2 DEF DecoderOf
<1>7. DecIs(e) /\ e.buf = s /\ e.remaining = -1 /\ e.done = d.done /\ e.out = d.out
  <2>1. -1 \in Nat \union {-1}
    OBVIOUS
  <2>a. s \in Seq(Nat) /\ -1 \in Nat \union {-1} /\ d.done \in BOOLEAN /\ d.out \in Seq(Nat)
        /\ (d.done => -1 = -1)
    BY Zenon, <1>1, <1>2, <1>5, <2>1
  <2>b. /\ DecIs(DecoderOf(s, -1, d.done, d.out))
        /\ DecoderOf(s, -1, d.done, d.out).buf = s /\ DecoderOf(s, -1, d.done, d.out).remaining = -1
        /\ DecoderOf(s, -1, d.done, d.out).done = d.done /\ DecoderOf(s, -1, d.done, d.out).out = d.out
    BY <2>a, DecoderIs
  <2> QED BY Zenon, <1>6, <2>b
<1>8. Placed(b, e, r, q + 2)
  <2>1. e.buf = From(d.buf, 2)
    BY Zenon, <1>3, <1>7
  <2> QED BY Zenon, <1>1, <1>4, <2>1, Moves
<1>9. Body!CrlfAt(b, q) /\ q + 0 = q
  BY CrlfIs
<1>10. Body!Piece(b, q, 0) = <<>>
  <2>1. 0 \in 0..Len(d.buf) /\ 0 \in Nat /\ 0 <= 0
    BY <1>1
  <2> QED BY Zenon, <1>1, <2>1, PieceSplits
<1>11. /\ Yet(b, C, d, q) = Rest(b, C, q, 0) /\ (YetSound(b, C, d, q) <=> RestSound(b, C, q, 0))
       /\ Yet(b, C, e, q + 2) = C[q + 2].body /\ (YetSound(b, C, e, q + 2) <=> C[q + 2].sound)
  BY Zenon, <1>2, <1>7 DEF Yet, YetSound
<1>12. Rest(b, C, q, 0) = <<>> \o C[q + 2].body /\ (RestSound(b, C, q, 0) <=> C[q + 2].sound)
  BY Zenon, <1>9, <1>10 DEF Rest, RestSound
<1>13. <<>> \o C[q + 2].body = C[q + 2].body
  <2>1. q + 2 \in Places(b)
    BY Zenon, <1>8 DEF Placed
  <2>2. C[q + 2] \in Chunk
    BY <2>1, ChunksAre
  <2>3. C[q + 2].body \in Seq(Nat)
    <3> HIDE DEF C
    <3> QED BY <2>2 DEF Chunk
  <2>4. PICK x : x = C[q + 2].body
    OBVIOUS
  <2>5. x \in Seq(Nat)
    BY Zenon, <2>3, <2>4
  <2>6. <<>> \o x = x
    BY <2>5
  <2> QED BY Zenon, <2>4, <2>6
<1> QED BY Zenon, <1>7, <1>8, <1>11, <1>12, <1>13 DEF Goes

LEMMA CrlfRefused ==
  ASSUME NEW b \in Seq(Nat), NEW d, DecIs(d), NEW r \in Seq(Nat), NEW q, Placed(b, d, r, q),
         d.remaining = 0, Len(d.buf) >= 2, ~CrlfHere(d)
  PROVE  ~YetSound(b, Body!Chunks(b), d, q)
<1>1. ~d.done /\ d.remaining # -1
  BY DEF DecIs
<1>2. ~Body!CrlfAt(b, q) /\ ~(q >= Len(b)) /\ q + 0 = q
  BY CrlfIs
<1> QED BY Zenon, <1>1, <1>2 DEF YetSound, RestSound

Dropped(d, e) == e = [d EXCEPT !.buf = <<>>]

\* Of what comes after the last chunk nothing is meant.
LEMMA TrailersDrop ==
  ASSUME NEW b \in Seq(Nat), NEW d, DecIs(d), NEW r \in Seq(Nat), NEW q, Placed(b, d, r, q), d.done,
         NEW e, Dropped(d, e)
  PROVE  Goes(b, d, q, e, r)
<1>1. /\ d.buf \in Seq(Nat) /\ d.out \in Seq(Nat) /\ d.done \in BOOLEAN /\ d.remaining = -1
      /\ d = [buf |-> d.buf, remaining |-> d.remaining, done |-> d.done, out |-> d.out]
  BY DEF DecIs
<1>2. e = DecoderOf(<<>>, -1, d.done, d.out)
  BY <1>1 DEF Dropped, DecoderOf
<1>3. DecIs(e) /\ e.buf = <<>> /\ e.done = d.done /\ e.out = d.out
  <2>1. -1 \in Nat \union {-1} /\ <<>> \in Seq(Nat)
    OBVIOUS
  <2>0. PICK z, y : z = <<>> /\ y = d.done
    OBVIOUS
  <2>a. z \in Seq(Nat) /\ -1 \in Nat \union {-1} /\ y \in BOOLEAN /\ d.out \in Seq(Nat)
        /\ (y => -1 = -1)
    BY Zenon, <1>1, <2>1, <2>0
  <2>b. /\ DecIs(DecoderOf(z, -1, y, d.out))
        /\ DecoderOf(z, -1, y, d.out).buf = z /\ DecoderOf(z, -1, y, d.out).remaining = -1
        /\ DecoderOf(z, -1, y, d.out).done = y /\ DecoderOf(z, -1, y, d.out).out = d.out
    BY <2>a, DecoderIs
  <2> QED BY Zenon, <1>2, <2>0, <2>b
<1>4. PICK n : n = Len(d.buf)
  OBVIOUS
<1>5. n \in 0..Len(d.buf) /\ e.buf = From(d.buf, n)
  <2>1. d.buf \o <<>> = d.buf
    BY <1>1
  <2>2. From(d.buf \o <<>>, Len(d.buf)) = <<>>
    <3>1. <<>> \in Seq(Nat)
      OBVIOUS
    <3> QED BY Zenon, <1>1, <3>1, FromPast
  <2>3. n \in 0..Len(d.buf)
    BY <1>1, <1>4
  <2> QED BY Zenon, <1>3, <1>4, <2>1, <2>2, <2>3
<1>6. Placed(b, e, r, q + n)
  BY Zenon, <1>1, <1>5, Moves
<1> QED BY Zenon, <1>3, <1>6 DEF Goes, Yet, YetSound

\* More bytes have come.
Came(d, r, n, e) == e = [d EXCEPT !.buf = @ \o SubSeq(r, 1, n)]

LEMMA BytesCome ==
  ASSUME NEW b \in Seq(Nat), NEW d, DecIs(d), NEW r \in Seq(Nat), NEW q, Placed(b, d, r, q),
         NEW n \in 0..Len(r), NEW e, Came(d, r, n, e)
  PROVE  Goes(b, d, q, e, From(r, n))
<1>1. /\ d.buf \in Seq(Nat) /\ d.out \in Seq(Nat) /\ d.done \in BOOLEAN
      /\ d.remaining \in Nat \union {-1} /\ (d.done => d.remaining = -1)
      /\ d = [buf |-> d.buf, remaining |-> d.remaining, done |-> d.done, out |-> d.out]
  BY DEF DecIs
<1>2. PICK s, t : s = SubSeq(r, 1, n) /\ t = From(r, n)
  OBVIOUS
<1>3. s \in Seq(Nat) /\ t \in Seq(Nat) /\ s \o t = r
  <2>1. SubSeq(r, 1, n) \in Seq(Nat) /\ From(r, n) \in Seq(Nat) /\ SubSeq(r, 1, n) \o From(r, n) = r
    BY Zenon, Cut
  <2> QED BY Zenon, <1>2, <2>1
<1>4. PICK x : x = d.buf \o s
  OBVIOUS
<1>5. x \in Seq(Nat)
  BY <1>1, <1>3, <1>4
<1>6. e = DecoderOf(x, d.remaining, d.done, d.out)
  <2>1. e = [buf |-> d.buf \o SubSeq(r, 1, n), remaining |-> d.remaining, done |-> d.done, out |-> d.out]
    BY <1>1 DEF Came
  <2> QED BY Zenon, <1>2, <1>4, <2>1 DEF DecoderOf
<1>7. DecIs(e) /\ e.buf = x /\ e.remaining = d.remaining /\ e.done = d.done /\ e.out = d.out
  <2>a. x \in Seq(Nat) /\ d.remaining \in Nat \union {-1} /\ d.done \in BOOLEAN /\ d.out \in Seq(Nat)
        /\ (d.done => d.remaining = -1)
    BY Zenon, <1>1, <1>5
  <2>b. /\ DecIs(DecoderOf(x, d.remaining, d.done, d.out))
        /\ DecoderOf(x, d.remaining, d.done, d.out).buf = x /\ DecoderOf(x, d.remaining, d.done, d.out).remaining = d.remaining
        /\ DecoderOf(x, d.remaining, d.done, d.out).done = d.done /\ DecoderOf(x, d.remaining, d.done, d.out).out = d.out
    BY <2>a, DecoderIs
  <2> QED BY Zenon, <1>6, <2>b
<1>8. Placed(b, e, t, q)
  <2>1. (d.buf \o s) \o t = d.buf \o (s \o t)
    <3>1. PICK y : y = d.buf
      OBVIOUS
    <3>2. y \in Seq(Nat) /\ s \in Seq(Nat) /\ t \in Seq(Nat)
      BY Zenon, <1>1, <1>3, <3>1
    <3>3. (y \o s) \o t = y \o (s \o t)
      BY Zenon, <3>2, Associates
    <3> QED BY Zenon, <3>1, <3>3
  <2> QED BY Zenon, <1>3, <1>4, <1>7, <2>1 DEF Placed
<1> QED BY Zenon, <1>2, <1>7, <1>8 DEF Goes, Yet, YetSound

-----------------------------------------------------------------------------
(* Bodies: the invariant.                                                  *)

\* What is yet to come is what is meant after k.
Follows(s, r, d, k) ==
  IF s.framing = "chunked"
  THEN \E q : /\ Placed(s.bytes, d, r, q)
              /\ d.out \o Yet(s.bytes, Body!Chunks(s.bytes), d, q) = From(Body!Meant(s), k)
              /\ Body!Sound(s) => YetSound(s.bytes, Body!Chunks(s.bytes), d, q)
  ELSE d.buf = <<>> /\ d.out = <<>> /\ r = From(Body!Meant(s), k)

Going(s, r, d, buf, ls) ==
  \E k \in 0..Len(Body!Meant(s)) : LineState(Body!Meant(s), k, buf, ls) /\ Follows(s, r, d, k)

BodyTyped(s, r, d, buf, n, ls, st) ==
  /\ s \in Streams /\ s.bytes \in Seq(Nat)
  /\ n \in 0..Len(s.bytes) /\ r = From(s.bytes, n)
  /\ DecIs(d) /\ buf \in Seq(Nat) /\ ls \in Seq(Seq(Nat))
  /\ st \in {"reading", "decoding", "ok", "error", "broken"}
  /\ st = "reading" => d.out = <<>>
  /\ st = "decoding" => s.framing = "chunked"

\* Between reads little is kept.
Little(d, buf, st) ==
  st = "reading" => Len(buf) <= MaxLine /\ (d.remaining = -1 => Len(d.buf) <= Body!MaxSize)

BodyIs(s, r, d, buf, n, ls, st) ==
  /\ BodyTyped(s, r, d, buf, n, ls, st)
  /\ st \in {"reading", "decoding"} => Going(s, r, d, buf, ls)
  /\ WholeLines(ls, Body!LinesOf(Body!Meant(s)))
  /\ Little(d, buf, st)
  /\ Body!Sound(s) => st # "error"

BodyInv == BodyIs(response, unread, dec, split, counted, lines, bodyState)

LEMMA MeantIs ==
  ASSUME Body!Parameters, NEW s \in Streams
  PROVE  /\ s.bytes \in Seq(Nat) /\ Body!Meant(s) \in Seq(Nat) /\ Len(Body!Meant(s)) \in Nat
         /\ s.framing = "chunked" => Body!Meant(s) = Body!Chunks(s.bytes)[1].body
         /\ s.framing # "chunked" => Body!Meant(s) = s.bytes
         /\ s.framing \in {"chunked", "length", "eof"} /\ s.length \in Nat
         /\ s.framing = "length" => Len(s.bytes) <= s.length
<1>1. /\ Streams \subseteq [framing : {"chunked", "length", "eof"}, length : Nat, bytes : Seq(Nat)]
      /\ s.framing = "length" => Len(s.bytes) <= s.length
  BY DEF Body!Parameters
<1>2. s \in [framing : {"chunked", "length", "eof"}, length : Nat, bytes : Seq(Nat)]
  BY Zenon, <1>1
<1>3. s.bytes \in Seq(Nat) /\ s.framing \in {"chunked", "length", "eof"} /\ s.length \in Nat
  BY <1>2
<1>4. Body!Chunks(s.bytes)[1].body \in Seq(Nat)
  <2>1. 1 \in Places(s.bytes)
    BY <1>3 DEF Places
  <2>2. Body!Chunks(s.bytes)[1] \in Chunk
    BY <1>3, <2>1, ChunksAre
  <2> QED BY <2>2 DEF Chunk
<1>5. /\ s.framing = "chunked" => Body!Meant(s) = Body!Chunks(s.bytes)[1].body
      /\ s.framing # "chunked" => Body!Meant(s) = s.bytes
  BY Zenon DEF Body!Meant
<1>6. Body!Meant(s) \in Seq(Nat)
  BY Zenon, <1>3, <1>4, <1>5
<1>7. Len(Body!Meant(s)) \in Nat
  BY <1>6
<1> QED BY Zenon, <1>1, <1>3, <1>5, <1>6, <1>7

\* If the lines are short enough, no part of one is too long.
LEMMA TailShort ==
  ASSUME Body!Parameters, NEW s \in Streams, Body!Sound(s),
         NEW k \in 0..Len(Body!Meant(s)), NEW buf, NEW ls, LineState(Body!Meant(s), k, buf, ls)
  PROVE  Len(buf) <= MaxLine
<1>1. PICK m : m = Body!Meant(s)
  OBVIOUS
<1>2. m \in Seq(Nat) /\ k \in 0..Len(m) /\ LineState(m, k, buf, ls)
  BY <1>1, MeantIs
<1>3. buf \in Seq(Nat) /\ \E i \in Body!Ends(m) : Len(buf) <= Len(Body!LineAfter(m, i))
  BY <1>2, LinesShow
<1>4. PICK i \in Body!Ends(m) : Len(buf) <= Len(Body!LineAfter(m, i))
  BY <1>3
<1>5. Len(Body!LineAfter(m, i)) <= MaxLine
  BY Zenon, <1>1, <1>4 DEF Body!Sound
<1>6. Body!LineAfter(m, i) \in Seq(Nat)
  <2>1. i \in 0..Len(m)
    BY <1>2, <1>4, BreaksAre
  <2> QED BY <1>2, <2>1, LinesAre
<1>7. PICK x, y : x = Len(buf) /\ y = Len(Body!LineAfter(m, i))
  OBVIOUS
<1>8. x \in Nat /\ y \in Nat /\ x <= y /\ y <= MaxLine /\ MaxLine \in Nat
  <2>1. MaxLine \in Nat
    BY DEF Body!Parameters
  <2> QED BY <1>3, <1>4, <1>5, <1>6, <1>7, <2>1
<1> QED BY <1>7, <1>8

\* The caller gets the lines that some bytes complete, or nobody could have read them.
LEMMA Emits ==
  ASSUME Body!Parameters, response \in Streams, NEW k \in 0..Len(Body!Meant(response)),
         LineState(Body!Meant(response), k, split, lines),
         NEW bytes \in Seq(Nat), NEW t \in Seq(Nat), bytes \o t = From(Body!Meant(response), k),
         Body!Emit(bytes)
  PROVE  \/ bodyState' = "error" /\ UNCHANGED <<split, lines>> /\ ~Body!Sound(response)
         \/ /\ bodyState' = "reading" /\ split' \in Seq(Nat) /\ Len(split') <= MaxLine
            /\ \E j \in 0..Len(Body!Meant(response)) :
                 LineState(Body!Meant(response), j, split', lines') /\ t = From(Body!Meant(response), j)
<1>1. PICK m, n, s : m = Body!Meant(response) /\ n = Len(bytes) /\ s = Body!Split(bytes)
  OBVIOUS
<1>2. m \in Seq(Nat) /\ k \in 0..Len(m) /\ n \in Nat /\ LineState(m, k, split, lines) /\ bytes \o t = From(m, k)
  BY <1>1, MeantIs
<1>3. /\ From(m, k) \in Seq(Nat) /\ Len(From(m, k)) = Len(m) - k
      /\ \A j \in 1..(Len(m) - k) : From(m, k)[j] = m[k + j]
  BY <1>2, FromIs
<1>4. PICK f : f = From(m, k)
  OBVIOUS
<1>5. Len(f) = n + Len(t) /\ (\A j \in 1..n : f[j] = bytes[j]) /\ Len(t) \in Nat
  BY <1>1, <1>2, <1>4
<1>6. n <= Len(m) - k /\ k + n <= Len(m) /\ k \in Nat /\ Len(m) \in Nat /\ n \in 0..(Len(m) - k)
      /\ \A j \in 1..n : j \in 1..(Len(m) - k)
  BY <1>2, <1>3, <1>4, <1>5
<1>7. \A j \in 1..n : bytes[j] = m[k + j]
  BY Zenon, <1>3, <1>4, <1>5, <1>6
<1>8. LineState(m, k + n, s.buf, s.lines) /\ s \in Splitter
  BY <1>1, <1>2, <1>6, <1>7, LineSplits
<1>9. t = From(m, k + n)
  <2>1. From(bytes \o t, Len(bytes)) = t
    BY Zenon, FromPast
  <2>2. From(From(m, k), n) = From(m, k + n)
    BY <1>2, <1>6, FromFrom
  <2> QED BY Zenon, <1>1, <1>2, <2>1, <2>2
<1>10. k + n \in 0..Len(m)
  BY <1>2, <1>6
<1>11. s.buf \in Seq(Nat) /\ MaxLine \in Nat
  BY <1>8 DEF Splitter, Body!Parameters
<1>12. CASE Len(s.buf) > MaxLine
  <2>1. bodyState' = "error" /\ UNCHANGED <<split, lines>>
    BY Zenon, <1>1, <1>12 DEF Body!Emit
  <2>2. ~Body!Sound(response)
    <3>1. ASSUME Body!Sound(response) PROVE Len(s.buf) <= MaxLine
      BY <1>1, <1>8, <1>10, <3>1, TailShort
    <3>2. ~(Len(s.buf) <= MaxLine)
      BY <1>11, <1>12
    <3> QED BY Zenon, <3>1, <3>2
  <2> QED BY Zenon, <2>1, <2>2
<1>13. CASE ~(Len(s.buf) > MaxLine)
  <2>1. bodyState' = "reading" /\ split' = s.buf /\ lines' = s.lines
    BY Zenon, <1>1, <1>13 DEF Body!Emit
  <2>2. Len(s.buf) <= MaxLine
    BY <1>11, <1>13
  <2> QED BY Zenon, <1>1, <1>8, <1>9, <1>10, <1>11, <2>1, <2>2
<1> QED BY <1>12, <1>13

-----------------------------------------------------------------------------
(* Bodies: the steps.                                                      *)

LEMMA Stops ==
  ASSUME BodyInv, UNCHANGED <<response, unread, dec, counted>>,
         split' \in Seq(Nat), lines' \in Seq(Seq(Nat)),
         WholeLines(lines', Body!LinesOf(Body!Meant(response))),
         bodyState' \in {"ok", "error", "broken"}, Body!Sound(response) => bodyState' # "error"
  PROVE  BodyInv'
<1>1. BodyTyped(response, unread, dec, split, counted, lines, bodyState)
  BY DEF BodyInv, BodyIs
<1>2. /\ bodyState' # "reading" /\ bodyState' # "decoding" /\ bodyState' \notin {"reading", "decoding"}
      /\ bodyState' \in {"reading", "decoding", "ok", "error", "broken"}
  OBVIOUS
<1>3. BodyTyped(response', unread', dec', split', counted', lines', bodyState')
  BY Zenon, <1>1, <1>2 DEF BodyTyped
<1>4. Little(dec', split', bodyState')
  BY Zenon, <1>2 DEF Little
<1>5. BodyIs(response', unread', dec', split', counted', lines', bodyState')
  BY Zenon, <1>2, <1>3, <1>4 DEF BodyIs
<1> QED BY Zenon, <1>5 DEF BodyInv

LEMMA BodyBreaks ==
  ASSUME BodyInv, Body!Breaks \/ Body!CallerLeaves
  PROVE  BodyInv'
<1>1. /\ UNCHANGED <<response, unread, dec, counted, split, lines>>
      /\ bodyState' = "broken" \/ bodyState' = "ok"
  BY DEF Body!Breaks, Body!CallerLeaves
<1>2. /\ split \in Seq(Nat) /\ lines \in Seq(Seq(Nat))
      /\ WholeLines(lines, Body!LinesOf(Body!Meant(response)))
  BY Zenon DEF BodyInv, BodyIs, BodyTyped
<1>3. split' = split /\ lines' = lines
  BY <1>1
<1>4. split' \in Seq(Nat) /\ lines' \in Seq(Seq(Nat))
      /\ WholeLines(lines', Body!LinesOf(Body!Meant(response)))
  BY Zenon, <1>2, <1>3
<1>5. bodyState' \in {"ok", "error", "broken"} /\ bodyState' # "error"
  BY <1>1
<1> QED BY Zenon, <1>1, <1>4, <1>5, Stops

LEMMA BodyEnds ==
  ASSUME Body!Parameters, BodyInv, Body!Eof
  PROVE  BodyInv'
<1>1. /\ bodyState = "reading" /\ bodyState' = "ok" /\ split' = <<>>
      /\ lines' = WithTail(split, lines) /\ UNCHANGED <<response, unread, dec, counted>>
  BY Zenon DEF Body!Eof, Body!Flushes, Body!Flushed, WithTail
<1>2. response \in Streams /\ Going(response, unread, dec, split, lines)
  BY Zenon, <1>1 DEF BodyInv, BodyIs, BodyTyped
<1>3. PICK m : m = Body!Meant(response)
  OBVIOUS
<1>4. m \in Seq(Nat)
  BY <1>2, <1>3, MeantIs
<1>5. PICK k \in 0..Len(m) : LineState(m, k, split, lines)
  BY Zenon, <1>2, <1>3 DEF Going
<1>6. split \in Seq(Nat) /\ lines \in Seq(Seq(Nat)) /\ WholeLines(WithTail(split, lines), Body!LinesOf(m))
  BY <1>4, <1>5, LinesShow
<1>7. WithTail(split, lines) \in Seq(Seq(Nat))
  <2>1. Append(lines, split) \in Seq(Seq(Nat))
    BY <1>6
  <2> QED BY Zenon, <1>6, <2>1 DEF WithTail
<1>8. split' \in Seq(Nat) /\ lines' \in Seq(Seq(Nat))
      /\ WholeLines(lines', Body!LinesOf(Body!Meant(response)))
  <2>1. <<>> \in Seq(Nat)
    OBVIOUS
  <2> QED BY Zenon, <1>1, <1>3, <1>6, <1>7, <2>1
<1>9. bodyState' \in {"ok", "error", "broken"} /\ bodyState' # "error"
  BY <1>1
<1> QED BY Zenon, <1>1, <1>8, <1>9, Stops

\* The decoder d has decoded what it could, and hands it on.
Emptied(d, e) == e = [d EXCEPT !.out = <<>>]

LEMMA EmptiedIs ==
  ASSUME NEW d, DecIs(d), NEW e, Emptied(d, e)
  PROVE  DecIs(e) /\ e.buf = d.buf /\ e.remaining = d.remaining /\ e.done = d.done /\ e.out = <<>>
<1>1. /\ d.buf \in Seq(Nat) /\ d.out \in Seq(Nat) /\ d.done \in BOOLEAN
      /\ d.remaining \in Nat \union {-1} /\ (d.done => d.remaining = -1)
      /\ d = [buf |-> d.buf, remaining |-> d.remaining, done |-> d.done, out |-> d.out]
  BY DEF DecIs
<1>2. e = DecoderOf(d.buf, d.remaining, d.done, <<>>)
  BY <1>1 DEF Emptied, DecoderOf
<1>3. PICK z : z = <<>>
  OBVIOUS
<1>4. /\ d.buf \in Seq(Nat) /\ d.remaining \in Nat \union {-1} /\ d.done \in BOOLEAN /\ z \in Seq(Nat)
      /\ d.done => d.remaining = -1
  <2>1. <<>> \in Seq(Nat)
    OBVIOUS
  <2> QED BY Zenon, <1>1, <1>3, <2>1
<1>5. /\ DecIs(DecoderOf(d.buf, d.remaining, d.done, z))
      /\ DecoderOf(d.buf, d.remaining, d.done, z).buf = d.buf
      /\ DecoderOf(d.buf, d.remaining, d.done, z).remaining = d.remaining
      /\ DecoderOf(d.buf, d.remaining, d.done, z).done = d.done
      /\ DecoderOf(d.buf, d.remaining, d.done, z).out = z
  BY <1>4, DecoderIs
<1> QED BY Zenon, <1>2, <1>3, <1>5

\* d is the decoder at the end of a push, with the bytes of it that came out.
LEMMA DecoderReturns ==
  ASSUME Body!Parameters, BodyInv, bodyState = "decoding", UNCHANGED <<response, unread, counted>>,
         NEW d, DecIs(d), Emptied(d, dec'), Body!Emit(d.out),
         NEW k \in 0..Len(Body!Meant(response)), LineState(Body!Meant(response), k, split, lines),
         NEW q, Placed(response.bytes, d, unread, q),
         d.out \o Yet(response.bytes, Body!Chunks(response.bytes), d, q) = From(Body!Meant(response), k),
         Body!Sound(response) => YetSound(response.bytes, Body!Chunks(response.bytes), d, q),
         d.remaining = -1 => Len(d.buf) <= Body!MaxSize
  PROVE  BodyInv'
<1> DEFINE B == response.bytes  C == Body!Chunks(B)  M == Body!Meant(response)
<1>1. /\ BodyTyped(response, unread, dec, split, counted, lines, bodyState)
      /\ WholeLines(lines, Body!LinesOf(M))
  BY DEF BodyInv, BodyIs
<1>2. response \in Streams /\ B \in Seq(Nat) /\ response.framing = "chunked"
      /\ split \in Seq(Nat) /\ lines \in Seq(Seq(Nat))
  BY Zenon, <1>1 DEF BodyTyped
<1>3. /\ DecIs(dec') /\ dec'.buf = d.buf /\ dec'.remaining = d.remaining /\ dec'.done = d.done
      /\ dec'.out = <<>>
  BY EmptiedIs
<1>4. d.out \in Seq(Nat) /\ d.buf \in Seq(Nat)
  BY DEF DecIs
<1>5. q \in Places(B)
  BY DEF Placed
<1>6. PICK t : t = Yet(B, C, d, q)
  OBVIOUS
<1>7. t \in Seq(Nat)
  BY <1>2, <1>5, <1>6, YetIs
<1>8. /\ Placed(B, dec', unread, q) /\ Yet(B, C, dec', q) = t
      /\ YetSound(B, C, dec', q) <=> YetSound(B, C, d, q)
  BY Zenon, <1>3, <1>6 DEF Placed, Yet, YetSound
<1>9. d.out \o t = From(M, k) /\ k \in 0..Len(M) /\ LineState(M, k, split, lines)
  BY Zenon, <1>6
<1> HIDE DEF B, C, M
<1>10. \/ bodyState' = "error" /\ UNCHANGED <<split, lines>> /\ ~Body!Sound(response)
       \/ /\ bodyState' = "reading" /\ split' \in Seq(Nat) /\ Len(split') <= MaxLine
          /\ \E j \in 0..Len(M) : LineState(M, j, split', lines') /\ t = From(M, j)
  BY Zenon, <1>2, <1>4, <1>7, <1>9, Emits DEF M
<1>11. CASE bodyState' = "error" /\ UNCHANGED <<split, lines>> /\ ~Body!Sound(response)
  <2>1. /\ bodyState' # "reading" /\ bodyState' # "decoding" /\ bodyState' \notin {"reading", "decoding"}
        /\ bodyState' \in {"reading", "decoding", "ok", "error", "broken"}
    BY <1>11
  <2>2. split' = split /\ lines' = lines /\ response' = response
    BY <1>11
  <2>3. BodyTyped(response', unread', dec', split', counted', lines', bodyState')
    BY Zenon, <1>1, <1>3, <2>1, <2>2 DEF BodyTyped
  <2>4. Little(dec', split', bodyState')
    BY Zenon, <2>1 DEF Little
  <2>5. BodyIs(response', unread', dec', split', counted', lines', bodyState')
    BY Zenon, <1>1, <1>11, <2>1, <2>2, <2>3, <2>4 DEF BodyIs, M
  <2> QED BY Zenon, <2>5 DEF BodyInv
<1>12. CASE /\ bodyState' = "reading" /\ split' \in Seq(Nat) /\ Len(split') <= MaxLine
            /\ \E j \in 0..Len(M) : LineState(M, j, split', lines') /\ t = From(M, j)
  <2>1. PICK j \in 0..Len(M) : LineState(M, j, split', lines') /\ t = From(M, j)
    BY <1>12
  <2>2. M \in Seq(Nat)
    BY <1>2, MeantIs DEF M
  <2>3. lines' \in Seq(Seq(Nat)) /\ WholeLines(lines', Body!LinesOf(M))
    BY <2>1, <2>2, LinesShow
  <2>4. /\ bodyState' # "decoding" /\ bodyState' # "error"
        /\ bodyState' \in {"reading", "decoding", "ok", "error", "broken"}
    BY <1>12
  <2>5. BodyTyped(response', unread', dec', split', counted', lines', bodyState')
    BY Zenon, <1>1, <1>3, <1>12, <2>3, <2>4 DEF BodyTyped
  <2>6. Little(dec', split', bodyState')
    BY Zenon, <1>3, <1>12 DEF Little
  <2>7. <<>> \o t = t
    BY <1>7
  <2>8. Follows(response, unread, dec', j)
    BY Zenon, <1>2, <1>3, <1>8, <2>1, <2>7 DEF Follows, B, C, M
  <2>9. Going(response', unread', dec', split', lines')
    BY Zenon, <2>1, <2>8 DEF Going, M
  <2>10. BodyIs(response', unread', dec', split', counted', lines', bodyState')
    BY Zenon, <2>3, <2>4, <2>5, <2>6, <2>9 DEF BodyIs, M
  <2> QED BY Zenon, <2>10 DEF BodyInv
<1> QED BY <1>10, <1>11, <1>12

\* The decoder, and what it stands for.
DecoderAt(k, q) ==
  /\ k \in 0..Len(Body!Meant(response)) /\ LineState(Body!Meant(response), k, split, lines)
  /\ Placed(response.bytes, dec, unread, q)
  /\ dec.out \o Yet(response.bytes, Body!Chunks(response.bytes), dec, q) = From(Body!Meant(response), k)
  /\ Body!Sound(response) => YetSound(response.bytes, Body!Chunks(response.bytes), dec, q)

LEMMA DecodingIs ==
  ASSUME Body!Parameters, BodyInv, bodyState \in {"reading", "decoding"}, response.framing = "chunked"
  PROVE  /\ \E k, q : DecoderAt(k, q)
         /\ response \in Streams /\ response.bytes \in Seq(Nat) /\ unread \in Seq(Nat) /\ DecIs(dec)
<1>1. BodyTyped(response, unread, dec, split, counted, lines, bodyState)
      /\ Going(response, unread, dec, split, lines)
  BY Zenon DEF BodyInv, BodyIs
<1>2. \E k, q : DecoderAt(k, q)
  BY Zenon, <1>1 DEF Going, Follows, DecoderAt
<1>3. /\ response \in Streams /\ response.bytes \in Seq(Nat) /\ DecIs(dec)
      /\ counted \in 0..Len(response.bytes) /\ unread = From(response.bytes, counted)
  BY Zenon, <1>1 DEF BodyTyped
<1>4. From(response.bytes, counted) \in Seq(Nat)
  BY <1>3, FromIs
<1> QED BY Zenon, <1>2, <1>3, <1>4

\* A turn of its loop leaves it to decode.
LEMMA DecoderGoes ==
  ASSUME Body!Parameters, BodyInv, NEW k, NEW q, DecoderAt(k, q), response.framing = "chunked",
         NEW r, Goes(response.bytes, dec, q, dec', r), bodyState' = "decoding",
         UNCHANGED <<response, split, lines>>, unread' = r,
         counted' \in 0..Len(response.bytes), r = From(response.bytes, counted')
  PROVE  BodyInv'
<1> DEFINE B == response.bytes  C == Body!Chunks(B)  M == Body!Meant(response)
<1>1. /\ BodyTyped(response, unread, dec, split, counted, lines, bodyState)
      /\ WholeLines(lines, Body!LinesOf(M))
  BY DEF BodyInv, BodyIs
<1>2. PICK p : /\ Placed(B, dec', r, p)
               /\ dec.out \o Yet(B, C, dec, q) = dec'.out \o Yet(B, C, dec', p)
               /\ YetSound(B, C, dec, q) => YetSound(B, C, dec', p)
  BY DEF Goes
<1>3. DecIs(dec')
  BY Zenon DEF Goes
<1>4. bodyState' # "reading" /\ bodyState' # "error"
      /\ bodyState' \in {"reading", "decoding", "ok", "error", "broken"}
  OBVIOUS
<1>5. split' = split /\ lines' = lines /\ response' = response
  OBVIOUS
<1>6. BodyTyped(response', unread', dec', split', counted', lines', bodyState')
  BY Zenon, <1>1, <1>3, <1>4, <1>5 DEF BodyTyped
<1>7. Little(dec', split', bodyState')
  BY Zenon, <1>4 DEF Little
<1>8. Follows(response, r, dec', k) /\ k \in 0..Len(M) /\ LineState(M, k, split, lines)
  BY Zenon, <1>2 DEF Follows, DecoderAt
<1>9. Going(response', unread', dec', split', lines')
  BY Zenon, <1>5, <1>8 DEF Going
<1>10. BodyIs(response', unread', dec', split', counted', lines', bodyState')
  BY Zenon, <1>1, <1>4, <1>5, <1>6, <1>7, <1>9 DEF BodyIs
<1> QED BY Zenon, <1>10 DEF BodyInv

\* The same, by Decodes.
LEMMA DecodesOn ==
  ASSUME Body!Parameters, BodyInv, NEW k, NEW q, DecoderAt(k, q), bodyState = "decoding",
         NEW d, Goes(response.bytes, dec, q, d, unread), Body!Decodes(d),
         UNCHANGED <<response, unread, counted>>
  PROVE  BodyInv'
<1>1. dec' = d /\ split' = split /\ lines' = lines /\ bodyState' = "decoding"
      /\ response' = response /\ unread' = unread /\ counted' = counted
  BY DEF Body!Decodes
<1>2. /\ response.framing = "chunked" /\ counted \in 0..Len(response.bytes)
      /\ unread = From(response.bytes, counted)
  BY Zenon DEF BodyInv, BodyIs, BodyTyped
<1>3. Goes(response.bytes, dec, q, dec', unread) /\ counted' \in 0..Len(response.bytes)
      /\ unread = From(response.bytes, counted')
  BY Zenon, <1>1, <1>2
<1>4. UNCHANGED <<response, split, lines>>
  BY <1>1
<1> QED BY Zenon, <1>1, <1>2, <1>3, <1>4, DecoderGoes

\* It refuses what nobody could have read.
LEMMA DecoderRefuses ==
  ASSUME BodyInv, NEW k, NEW q, DecoderAt(k, q),
         ~YetSound(response.bytes, Body!Chunks(response.bytes), dec, q), Body!Refuses,
         UNCHANGED <<response, unread, counted>>
  PROVE  BodyInv'
<1>1. bodyState' = "error" /\ UNCHANGED <<dec, split, lines>>
  BY DEF Body!Refuses
<1>2. ~Body!Sound(response)
  BY Zenon DEF DecoderAt
<1>3. /\ split \in Seq(Nat) /\ lines \in Seq(Seq(Nat))
      /\ WholeLines(lines, Body!LinesOf(Body!Meant(response)))
  BY Zenon DEF BodyInv, BodyIs, BodyTyped
<1>4. split' = split /\ lines' = lines /\ UNCHANGED <<response, unread, dec, counted>>
  BY <1>1
<1>5. split' \in Seq(Nat) /\ lines' \in Seq(Seq(Nat))
      /\ WholeLines(lines', Body!LinesOf(Body!Meant(response)))
  BY Zenon, <1>3, <1>4
<1>6. bodyState' \in {"ok", "error", "broken"}
  BY <1>1
<1> QED BY Zenon, <1>2, <1>4, <1>5, <1>6, Stops

LEMMA DecoderHasDone ==
  ASSUME Body!Parameters, BodyInv, NEW k, NEW q, DecoderAt(k, q), bodyState = "decoding",
         Body!Returns(dec), UNCHANGED <<response, unread, counted>>,
         dec.remaining = -1 => Len(dec.buf) <= Body!MaxSize
  PROVE  BodyInv'
<1>1. Emptied(dec, dec') /\ Body!Emit(dec.out)
  BY Zenon DEF Body!Returns, Emptied
<1>2. DecIs(dec)
  BY Zenon DEF BodyInv, BodyIs, BodyTyped
<1>3. /\ k \in 0..Len(Body!Meant(response)) /\ LineState(Body!Meant(response), k, split, lines)
      /\ Placed(response.bytes, dec, unread, q)
      /\ dec.out \o Yet(response.bytes, Body!Chunks(response.bytes), dec, q) = From(Body!Meant(response), k)
      /\ Body!Sound(response) => YetSound(response.bytes, Body!Chunks(response.bytes), dec, q)
  BY Zenon DEF DecoderAt
<1> QED BY Zenon, <1>1, <1>2, <1>3, DecoderReturns

LEMMA BodyReadsSize ==
  ASSUME Body!Parameters, BodyInv, NEW k, NEW q, DecoderAt(k, q), bodyState = "decoding",
         Body!ReadsSize, UNCHANGED <<response, unread, counted>>
  PROVE  BodyInv'
<1>1. dec.remaining = -1 /\ ~dec.done
  BY Zenon DEF Body!ReadsSize, Body!SizeLine
<1>2. DecIs(dec) /\ response.bytes \in Seq(Nat) /\ unread \in Seq(Nat) /\ response.framing = "chunked"
  <2>1. response.framing = "chunked" /\ bodyState \in {"reading", "decoding"}
    BY DEF BodyInv, BodyIs, BodyTyped
  <2> QED BY <2>1, DecodingIs
<1>3. Placed(response.bytes, dec, unread, q)
  BY Zenon DEF DecoderAt
<1>4. PICK digits : digits = SubSeq(dec.buf, 1, Body!Eol(dec.buf) - 1)
  OBVIOUS
<1>5. CASE Body!LineEnds(dec.buf) = {} /\ Len(dec.buf) > Body!MaxSize
  <2>1. Body!Refuses
    BY Zenon, <1>5 DEF Body!ReadsSize
  <2>2. ~YetSound(response.bytes, Body!Chunks(response.bytes), dec, q)
    BY <1>1, <1>2, <1>3, <1>5, SizeRefused
  <2> QED BY Zenon, <2>1, <2>2, DecoderRefuses
<1>6. CASE Body!LineEnds(dec.buf) = {} /\ ~(Len(dec.buf) > Body!MaxSize)
  <2>1. Body!Returns(dec)
    BY Zenon, <1>6 DEF Body!ReadsSize
  <2>2. Len(dec.buf) <= Body!MaxSize
    <3>1. Len(dec.buf) \in Nat
      BY <1>2 DEF DecIs
    <3> QED BY <1>6, <3>1 DEF Body!MaxSize
  <2> QED BY Zenon, <2>1, <2>2, DecoderHasDone
<1>7. CASE Body!LineEnds(dec.buf) # {} /\ ~Body!IsSize(digits)
  <2>1. Body!Refuses
    BY Zenon, <1>4, <1>7 DEF Body!ReadsSize
  <2>2. ~YetSound(response.bytes, Body!Chunks(response.bytes), dec, q)
    <3>1. Body!LineEnds(dec.buf) # {} /\ ~Body!IsSize(SubSeq(dec.buf, 1, Body!Eol(dec.buf) - 1))
      BY Zenon, <1>4, <1>7
    <3> QED BY Zenon, <1>1, <1>2, <1>3, <3>1, SizeRefused
  <2> QED BY Zenon, <2>1, <2>2, DecoderRefuses
<1>8. CASE Body!LineEnds(dec.buf) # {} /\ Body!IsSize(digits)
  <2>1. PICK n : n = Body!Size(digits)
    OBVIOUS
  <2>2. PICK d : d = [dec EXCEPT !.buf = Body!From(@, Body!Eol(dec.buf) + 2),
                                 !.remaining = IF n = 0 THEN -1 ELSE n, !.done = n = 0]
    OBVIOUS
  <2>3. Body!Decodes(d)
    BY Zenon, <1>4, <1>8, <2>1, <2>2 DEF Body!ReadsSize, Body!SizeLine
  <2>4. SizeTaken(dec, n, d)
    BY Zenon, <2>2 DEF SizeTaken
  <2>5. n = Body!Size(SubSeq(dec.buf, 1, Body!Eol(dec.buf) - 1))
        /\ Body!IsSize(SubSeq(dec.buf, 1, Body!Eol(dec.buf) - 1)) /\ Body!LineEnds(dec.buf) # {}
    BY Zenon, <1>4, <1>8, <2>1
  <2>6. Goes(response.bytes, dec, q, d, unread)
    BY Zenon, <1>1, <1>2, <1>3, <2>4, <2>5, SizeIsRead
  <2> QED BY Zenon, <2>3, <2>6, DecodesOn
<1> QED BY Zenon, <1>5, <1>6, <1>7, <1>8

LEMMA BodyDropsTrailers ==
  ASSUME Body!Parameters, BodyInv, NEW k, NEW q, DecoderAt(k, q), bodyState = "decoding",
         Body!DropsTrailers, UNCHANGED <<response, unread, counted>>
  PROVE  BodyInv'
<1>1. PICK d : d = [dec EXCEPT !.buf = <<>>]
  OBVIOUS
<1>2. dec.done /\ Body!Returns(d)
  BY Zenon, <1>1 DEF Body!DropsTrailers
<1>3. DecIs(dec) /\ response.bytes \in Seq(Nat) /\ unread \in Seq(Nat) /\ response.framing = "chunked"
  <2>1. response.framing = "chunked" /\ bodyState \in {"reading", "decoding"}
    BY DEF BodyInv, BodyIs, BodyTyped
  <2> QED BY <2>1, DecodingIs
<1>4. Placed(response.bytes, dec, unread, q)
  BY Zenon DEF DecoderAt
<1>5. Dropped(dec, d)
  BY Zenon, <1>1 DEF Dropped
<1>6. Goes(response.bytes, dec, q, d, unread)
  BY Zenon, <1>2, <1>3, <1>4, <1>5, TrailersDrop
<1>7. PICK p : /\ Placed(response.bytes, d, unread, p)
               /\ dec.out \o Yet(response.bytes, Body!Chunks(response.bytes), dec, q)
                    = d.out \o Yet(response.bytes, Body!Chunks(response.bytes), d, p)
               /\ YetSound(response.bytes, Body!Chunks(response.bytes), dec, q)
                    => YetSound(response.bytes, Body!Chunks(response.bytes), d, p)
  BY Zenon, <1>6 DEF Goes
<1>8. DecIs(d) /\ Emptied(d, dec') /\ Body!Emit(d.out)
  BY Zenon, <1>2, <1>6 DEF Goes, Body!Returns, Emptied
<1>9. Len(d.buf) <= Body!MaxSize
  <2>1. d.buf = <<>>
    BY <1>1, <1>3 DEF DecIs
  <2> QED BY <2>1 DEF Body!MaxSize
<1>10. /\ k \in 0..Len(Body!Meant(response)) /\ LineState(Body!Meant(response), k, split, lines)
       /\ d.out \o Yet(response.bytes, Body!Chunks(response.bytes), d, p) = From(Body!Meant(response), k)
       /\ Body!Sound(response) => YetSound(response.bytes, Body!Chunks(response.bytes), d, p)
  BY Zenon, <1>7 DEF DecoderAt
<1> QED BY Zenon, <1>7, <1>8, <1>9, <1>10, DecoderReturns

LEMMA BodyReadsChunk ==
  ASSUME Body!Parameters, BodyInv, NEW k, NEW q, DecoderAt(k, q), bodyState = "decoding",
         Body!ReadsChunk, UNCHANGED <<response, unread, counted>>
  PROVE  BodyInv'
<1>1. PICK n : n = IF dec.remaining < Len(dec.buf) THEN dec.remaining ELSE Len(dec.buf)
  OBVIOUS
<1>2. dec.remaining > 0
  BY Zenon DEF Body!ReadsChunk
<1>3. DecIs(dec) /\ response.bytes \in Seq(Nat) /\ unread \in Seq(Nat)
  <2>1. response.framing = "chunked" /\ bodyState \in {"reading", "decoding"}
    BY DEF BodyInv, BodyIs, BodyTyped
  <2> QED BY <2>1, DecodingIs
<1>4. Placed(response.bytes, dec, unread, q)
  BY Zenon DEF DecoderAt
<1>5. CASE n = 0
  <2>1. Body!Returns(dec)
    BY Zenon, <1>1, <1>5 DEF Body!ReadsChunk
  <2>2. dec.remaining # -1
    BY <1>2
  <2> QED BY Zenon, <2>1, <2>2, DecoderHasDone
<1>6. CASE n # 0
  <2>1. PICK d : d = [dec EXCEPT !.buf = Body!From(@, n + 1), !.remaining = @ - n,
                                 !.out = @ \o SubSeq(dec.buf, 1, n)]
    OBVIOUS
  <2>2. Body!Decodes(d)
    BY Zenon, <1>1, <1>6, <2>1 DEF Body!ReadsChunk
  <2>3. ChunkTaken(dec, n, d)
    BY Zenon, <2>1 DEF ChunkTaken
  <2>4. n \in Nat /\ n <= dec.remaining /\ n <= Len(dec.buf)
    <3>1. dec.remaining \in Nat \union {-1} /\ Len(dec.buf) \in Nat
      BY <1>3 DEF DecIs
    <3> QED BY <1>1, <1>2, <3>1
  <2>5. Goes(response.bytes, dec, q, d, unread)
    BY Zenon, <1>2, <1>3, <1>4, <2>3, <2>4, ChunkIsRead
  <2> QED BY Zenon, <2>2, <2>5, DecodesOn
<1> QED BY <1>5, <1>6

LEMMA BodyEndsChunk ==
  ASSUME Body!Parameters, BodyInv, NEW k, NEW q, DecoderAt(k, q), bodyState = "decoding",
         Body!EndsChunk, UNCHANGED <<response, unread, counted>>
  PROVE  BodyInv'
<1>1. dec.remaining = 0
  BY Zenon DEF Body!EndsChunk
<1>2. DecIs(dec) /\ response.bytes \in Seq(Nat) /\ unread \in Seq(Nat)
  <2>1. response.framing = "chunked" /\ bodyState \in {"reading", "decoding"}
    BY DEF BodyInv, BodyIs, BodyTyped
  <2> QED BY <2>1, DecodingIs
<1>3. Placed(response.bytes, dec, unread, q)
  BY Zenon DEF DecoderAt
<1>4. CASE Len(dec.buf) < 2
  <2>1. Body!Returns(dec)
    BY Zenon, <1>4 DEF Body!EndsChunk
  <2>2. dec.remaining # -1
    BY <1>1
  <2> QED BY Zenon, <2>1, <2>2, DecoderHasDone
<1>5. CASE ~(Len(dec.buf) < 2) /\ ~CrlfHere(dec)
  <2>1. Body!Refuses
    BY Zenon, <1>5 DEF Body!EndsChunk, CrlfHere
  <2>2. Len(dec.buf) >= 2
    <3>1. Len(dec.buf) \in Nat
      BY <1>2 DEF DecIs
    <3> QED BY <1>5, <3>1
  <2>3. ~YetSound(response.bytes, Body!Chunks(response.bytes), dec, q)
    BY Zenon, <1>1, <1>2, <1>3, <1>5, <2>2, CrlfRefused
  <2> QED BY Zenon, <2>1, <2>3, DecoderRefuses
<1>6. CASE ~(Len(dec.buf) < 2) /\ CrlfHere(dec)
  <2>1. PICK d : d = [dec EXCEPT !.buf = Body!From(@, 3), !.remaining = -1]
    OBVIOUS
  <2>2. Body!Decodes(d)
    BY Zenon, <1>6, <2>1 DEF Body!EndsChunk, CrlfHere, Body!SizeLine
  <2>3. CrlfTaken(dec, d)
    BY Zenon, <2>1 DEF CrlfTaken
  <2>4. Len(dec.buf) >= 2
    <3>1. Len(dec.buf) \in Nat
      BY <1>2 DEF DecIs
    <3> QED BY <1>6, <3>1
  <2>5. Goes(response.bytes, dec, q, d, unread)
    BY Zenon, <1>1, <1>2, <1>3, <1>6, <2>3, <2>4, CrlfIsRead
  <2> QED BY Zenon, <2>2, <2>5, DecodesOn
<1> QED BY <1>4, <1>5, <1>6

LEMMA BodyDecodes ==
  ASSUME Body!Parameters, BodyInv, Body!Decode
  PROVE  BodyInv'
<1>1. /\ bodyState = "decoding" /\ UNCHANGED <<response, unread, counted>>
      /\ Body!ReadsSize \/ Body!DropsTrailers \/ Body!ReadsChunk \/ Body!EndsChunk
  BY Zenon DEF Body!Decode
<1>2. response.framing = "chunked"
  BY Zenon, <1>1 DEF BodyInv, BodyIs, BodyTyped
<1>3. PICK k, q : DecoderAt(k, q)
  <2>1. bodyState \in {"reading", "decoding"}
    BY <1>1
  <2>2. \E k, q : DecoderAt(k, q)
    BY <1>2, <2>1, DecodingIs
  <2> QED BY Zenon, <2>2
<1>4. CASE Body!ReadsSize
  BY Zenon, <1>1, <1>3, <1>4, BodyReadsSize
<1>5. CASE Body!DropsTrailers
  BY Zenon, <1>1, <1>3, <1>5, BodyDropsTrailers
<1>6. CASE Body!ReadsChunk
  BY Zenon, <1>1, <1>3, <1>6, BodyReadsChunk
<1>7. CASE Body!EndsChunk
  BY Zenon, <1>1, <1>3, <1>7, BodyEndsChunk
<1> QED BY <1>1, <1>4, <1>5, <1>6, <1>7

LEMMA BodyReads ==
  ASSUME Body!Parameters, BodyInv, NEW n \in 1..Len(unread), Body!Read(n)
  PROVE  BodyInv'
<1> DEFINE B == response.bytes  M == Body!Meant(response)
<1>1. /\ bodyState = "reading" /\ unread' = SubSeq(unread, n + 1, Len(unread))
      /\ counted' = counted + n /\ response' = response
  BY Zenon DEF Body!Read
<1>2. /\ BodyTyped(response, unread, dec, split, counted, lines, bodyState)
      /\ Going(response, unread, dec, split, lines) /\ WholeLines(lines, Body!LinesOf(M))
  BY Zenon, <1>1 DEF BodyInv, BodyIs
<1>3. /\ response \in Streams /\ B \in Seq(Nat)
      /\ counted \in 0..Len(B) /\ unread = From(B, counted)
      /\ DecIs(dec) /\ split \in Seq(Nat) /\ lines \in Seq(Seq(Nat))
  BY Zenon, <1>2 DEF BodyTyped
<1>4. unread \in Seq(Nat) /\ Len(unread) = Len(B) - counted /\ n \in 0..Len(unread)
      /\ counted + n \in 0..Len(B) /\ n \in 0..(Len(B) - counted)
  <2>1. From(B, counted) \in Seq(Nat) /\ Len(From(B, counted)) = Len(B) - counted
    BY <1>3, FromIs
  <2>2. unread \in Seq(Nat) /\ Len(unread) = Len(B) - counted
    BY Zenon, <1>3, <2>1
  <2>3. Len(B) \in Nat
    BY <1>3
  <2> HIDE DEF B
  <2> QED BY <1>3, <2>2, <2>3
<1>5. unread' = From(unread, n)
  BY Zenon, <1>1 DEF From
<1>6. From(unread, n) = From(B, counted + n)
  <2>1. From(From(B, counted), n) = From(B, counted + n)
    BY <1>3, <1>4, FromFrom
  <2> QED BY Zenon, <1>3, <2>1
<1>7. counted' \in 0..Len(B) /\ unread' = From(B, counted')
  BY Zenon, <1>1, <1>4, <1>5, <1>6
<1>8. CASE response.framing = "chunked"
  <2>1. /\ Came(dec, unread, n, dec') /\ bodyState' = "decoding" /\ split' = split /\ lines' = lines
    BY Zenon, <1>8 DEF Body!Read, Came
  <2>2. PICK k, q : DecoderAt(k, q)
    <3>1. bodyState \in {"reading", "decoding"}
      BY <1>1
    <3>2. \E k, q : DecoderAt(k, q)
      BY <1>8, <3>1, DecodingIs
    <3> QED BY Zenon, <3>2
  <2>3. Placed(B, dec, unread, q)
    BY Zenon, <2>2 DEF DecoderAt
  <2>4. Goes(B, dec, q, dec', From(unread, n))
    BY Zenon, <1>3, <1>4, <2>1, <2>3, BytesCome
  <2>5. UNCHANGED <<response, split, lines>>
    BY <1>1, <2>1
  <2>6. From(unread, n) = From(response.bytes, counted') /\ counted' \in 0..Len(response.bytes)
    BY Zenon, <1>5, <1>7
  <2> QED BY Zenon, <1>5, <1>8, <2>1, <2>2, <2>4, <2>5, <2>6, DecoderGoes
<1>9. CASE response.framing # "chunked"
  <2>1. Body!Emit(SubSeq(unread, 1, n)) /\ dec' = dec
    BY Zenon, <1>9 DEF Body!Read
  <2>2. PICK k \in 0..Len(M) : LineState(M, k, split, lines) /\ Follows(response, unread, dec, k)
    BY Zenon, <1>2 DEF Going
  <2>3. dec.buf = <<>> /\ dec.out = <<>> /\ unread = From(M, k)
    BY Zenon, <1>9, <2>2 DEF Follows
  <2>4. PICK s, t : s = SubSeq(unread, 1, n) /\ t = From(unread, n)
    OBVIOUS
  <2>5. s \in Seq(Nat) /\ t \in Seq(Nat) /\ s \o t = From(M, k)
    <3>1. /\ SubSeq(unread, 1, n) \in Seq(Nat) /\ From(unread, n) \in Seq(Nat)
          /\ SubSeq(unread, 1, n) \o From(unread, n) = unread
      BY Zenon, <1>4, Cut
    <3> QED BY Zenon, <2>3, <2>4, <3>1
  <2> HIDE DEF M, B
  <2>6. \/ bodyState' = "error" /\ UNCHANGED <<split, lines>> /\ ~Body!Sound(response)
        \/ /\ bodyState' = "reading" /\ split' \in Seq(Nat) /\ Len(split') <= MaxLine
           /\ \E j \in 0..Len(M) : LineState(M, j, split', lines') /\ t = From(M, j)
    <3>1. Body!Emit(s)
      BY Zenon, <2>1, <2>4
    <3> QED BY Zenon, <1>3, <2>2, <2>5, <3>1, Emits DEF M
  <2>7. CASE bodyState' = "error" /\ UNCHANGED <<split, lines>> /\ ~Body!Sound(response)
    <3>1. /\ bodyState' # "reading" /\ bodyState' # "decoding" /\ bodyState' \notin {"reading", "decoding"}
          /\ bodyState' \in {"reading", "decoding", "ok", "error", "broken"}
      BY <2>7
    <3>2. split' = split /\ lines' = lines
      BY <2>7
    <3>3. BodyTyped(response', unread', dec', split', counted', lines', bodyState')
      BY Zenon, <1>1, <1>2, <1>7, <2>1, <3>1, <3>2 DEF BodyTyped, B
    <3>4. Little(dec', split', bodyState')
      BY Zenon, <3>1 DEF Little
    <3>5. BodyIs(response', unread', dec', split', counted', lines', bodyState')
      BY Zenon, <1>1, <1>2, <2>7, <3>1, <3>2, <3>3, <3>4 DEF BodyIs, M
    <3> QED BY Zenon, <3>5 DEF BodyInv
  <2>8. CASE /\ bodyState' = "reading" /\ split' \in Seq(Nat) /\ Len(split') <= MaxLine
             /\ \E j \in 0..Len(M) : LineState(M, j, split', lines') /\ t = From(M, j)
    <3>1. PICK j \in 0..Len(M) : LineState(M, j, split', lines') /\ t = From(M, j)
      BY <2>8
    <3>2. M \in Seq(Nat)
      BY <1>3, MeantIs DEF M
    <3>3. lines' \in Seq(Seq(Nat)) /\ WholeLines(lines', Body!LinesOf(M))
      BY <3>1, <3>2, LinesShow
    <3>4. /\ bodyState' # "decoding" /\ bodyState' # "error"
          /\ bodyState' \in {"reading", "decoding", "ok", "error", "broken"}
      BY <2>8
    <3>5. BodyTyped(response', unread', dec', split', counted', lines', bodyState')
      BY Zenon, <1>1, <1>2, <1>7, <2>1, <2>3, <2>8, <3>3, <3>4 DEF BodyTyped, B
    <3>6. Little(dec', split', bodyState')
      <4>1. Len(dec.buf) <= Body!MaxSize
        BY <2>3 DEF Body!MaxSize
      <4> QED BY Zenon, <2>1, <2>8, <4>1 DEF Little
    <3>7. Follows(response, unread', dec', j)
      BY Zenon, <1>5, <1>9, <2>1, <2>3, <2>4, <3>1 DEF Follows, M
    <3>8. Going(response', unread', dec', split', lines')
      BY Zenon, <1>1, <3>1, <3>7 DEF Going, M
    <3>9. BodyIs(response', unread', dec', split', counted', lines', bodyState')
      BY Zenon, <1>1, <3>3, <3>4, <3>5, <3>6, <3>8 DEF BodyIs, M
    <3> QED BY Zenon, <3>9 DEF BodyInv
  <2> QED BY <2>6, <2>7, <2>8
<1> QED BY <1>8, <1>9

LEMMA LineBegins ==
  ASSUME NEW body \in Seq(Nat)
  PROVE  LineState(body, 0, <<>>, <<>>) /\ 0 \in 0..Len(body)
<1>1. 0 \in Body!Ends(body)
  BY BreaksAre
<1>2. Joined(LinesAt(body))[0] = <<>>
  BY LinesAre, JoinedIs
<1>3. SubSeq(body, 0 + 1, 0) = <<>>
  <2>1. 0 + 1 \in Int /\ 0 \in Int /\ 0 < 0 + 1
    OBVIOUS
  <2> QED BY <2>1, SubSeqEmpty
<1>4. 0 \in 0..0 /\ (\A m \in (0 + 1)..0 : m \notin Body!Ends(body)) /\ 0 \in 0..Len(body)
  OBVIOUS
<1>5. LineSince(body, 0, <<>>, <<>>, 0)
  BY Zenon, <1>1, <1>2, <1>3, <1>4 DEF LineSince
<1> QED BY Zenon, <1>4, <1>5 DEF LineState

LEMMA BodyBegins ==
  ASSUME Body!Parameters, Body!Init
  PROVE  BodyInv
<1> DEFINE B == response.bytes  M == Body!Meant(response)  C == Body!Chunks(B)
<1>1. /\ response \in Streams /\ unread = B /\ split = <<>> /\ counted = 0 /\ lines = <<>>
      /\ bodyState = "reading"
      /\ dec = [buf |-> <<>>, remaining |-> Body!SizeLine, done |-> FALSE, out |-> <<>>]
  BY Zenon DEF Body!Init
<1>2. /\ B \in Seq(Nat) /\ M \in Seq(Nat) /\ Len(M) \in Nat
      /\ response.framing = "chunked" => M = C[1].body
      /\ response.framing # "chunked" => M = B
  BY <1>1, MeantIs
<1>3. PICK z : z = <<>>
  OBVIOUS
<1>4. z \in Seq(Nat) /\ z \in Seq(Seq(Nat)) /\ -1 \in Nat \union {-1} /\ FALSE \in BOOLEAN /\ Len(z) = 0
  BY <1>3
<1>5. dec = DecoderOf(z, -1, FALSE, z)
  BY Zenon, <1>1, <1>3 DEF DecoderOf, Body!SizeLine
<1>6. DecIs(dec) /\ dec.buf = z /\ dec.remaining = -1 /\ dec.done = FALSE /\ dec.out = z
  <2>1. PICK f, m : f = FALSE /\ m = -1
    OBVIOUS
  <2>2. z \in Seq(Nat) /\ m \in Nat \union {-1} /\ f \in BOOLEAN /\ (f => m = -1)
    BY <1>4, <2>1
  <2>3. /\ DecIs(DecoderOf(z, m, f, z))
        /\ DecoderOf(z, m, f, z).buf = z /\ DecoderOf(z, m, f, z).remaining = m
        /\ DecoderOf(z, m, f, z).done = f /\ DecoderOf(z, m, f, z).out = z
    BY <2>2, DecoderIs
  <2> QED BY Zenon, <1>5, <2>1, <2>3
<1>7. From(B, 0) = B /\ From(M, 0) = M /\ LineState(M, 0, z, z) /\ 0 \in 0..Len(M) /\ 0 \in 0..Len(B)
  <2>1. From(B, 0) = B /\ From(M, 0) = M
    BY <1>2, FromNothing
  <2>2. LineState(M, 0, <<>>, <<>>) /\ 0 \in 0..Len(M)
    BY <1>2, LineBegins
  <2>3. Len(B) \in Nat
    BY <1>2
  <2>4. 0 \in 0..Len(B)
    <3> HIDE DEF B
    <3> QED BY <2>3
  <2> QED BY Zenon, <1>3, <2>1, <2>2, <2>4
<1>8. Follows(response, unread, dec, 0)
  <2>1. CASE response.framing = "chunked"
    <3>1. Placed(B, dec, B, 1)
      <4>1. 1 \in Places(B)
        <5>1. Len(B) \in Nat
          BY <1>2
        <5> HIDE DEF B
        <5> QED BY <5>1 DEF Places
      <4>2. Body!From(B, 0 + 1) = B /\ 0 + 1 = 1
        <5>1. Body!From(B, 0 + 1) = From(B, 0)
          <6>1. 0 \in Int
            OBVIOUS
          <6> QED BY Zenon, <6>1, BodyFrom
        <5>2. 0 + 1 = 1
          OBVIOUS
        <5> QED BY Zenon, <1>7, <5>1, <5>2
      <4>3. <<>> \o B = B
        <5> HIDE DEF B
        <5> QED BY <1>2
      <4> QED BY Zenon, <1>3, <1>6, <4>1, <4>2, <4>3 DEF Placed
    <3>2. Yet(B, C, dec, 1) = M /\ (YetSound(B, C, dec, 1) <=> C[1].sound)
      BY Zenon, <1>2, <1>6, <2>1 DEF Yet, YetSound
    <3>3. <<>> \o M = M
      <4> HIDE DEF M
      <4> QED BY <1>2
    <3>4. Body!Sound(response) => C[1].sound
      BY Zenon, <2>1 DEF Body!Sound
    <3> QED BY Zenon, <1>1, <1>3, <1>6, <1>7, <2>1, <3>1, <3>2, <3>3, <3>4 DEF Follows
  <2>2. CASE response.framing # "chunked"
    BY Zenon, <1>1, <1>2, <1>3, <1>6, <1>7, <2>2 DEF Follows
  <2> QED BY <2>1, <2>2
<1>9. Going(response, unread, dec, split, lines)
  BY Zenon, <1>1, <1>3, <1>7, <1>8 DEF Going
<1>10. BodyTyped(response, unread, dec, split, counted, lines, bodyState)
  <2>1. bodyState # "decoding" /\ bodyState \in {"reading", "decoding", "ok", "error", "broken"}
    BY <1>1
  <2> QED BY Zenon, <1>1, <1>2, <1>3, <1>4, <1>6, <1>7, <2>1 DEF BodyTyped
<1>11. WholeLines(lines, Body!LinesOf(M))
  <2>1. PICK m : m = M
    OBVIOUS
  <2>2. WholeLines(z, Body!LinesOf(m))
    <3>1. m \in Seq(Nat) /\ LineState(m, 0, z, z) /\ 0 \in 0..Len(m)
      BY Zenon, <1>2, <1>7, <2>1
    <3> QED BY <3>1, LinesShow
  <2> QED BY Zenon, <1>1, <1>3, <2>1, <2>2
<1>12. Little(dec, split, bodyState)
  <2>1. Len(z) <= MaxLine /\ Len(z) <= Body!MaxSize
    BY <1>4 DEF Body!Parameters, Body!MaxSize
  <2> QED BY Zenon, <1>1, <1>3, <1>6, <2>1 DEF Little
<1>13. bodyState # "error"
  BY <1>1
<1> QED BY Zenon, <1>9, <1>10, <1>11, <1>12, <1>13 DEF BodyInv, BodyIs

LEMMA BodyNext ==
  ASSUME Body!Parameters, BodyInv, [Body!Next]_(Body!vars)
  PROVE  BodyInv'
<1>1. CASE UNCHANGED Body!vars
  <2>1. /\ response' = response /\ unread' = unread /\ dec' = dec /\ split' = split
        /\ counted' = counted /\ lines' = lines /\ bodyState' = bodyState
    BY <1>1 DEF Body!vars
  <2> QED BY Zenon, <2>1 DEF BodyInv
<1>2. ASSUME NEW n \in 1..Len(unread), Body!Read(n) PROVE BodyInv'
  BY <1>2, BodyReads
<1>3. CASE Body!Eof
  BY <1>3, BodyEnds
<1>4. CASE Body!Breaks \/ Body!CallerLeaves
  BY <1>4, BodyBreaks
<1>5. CASE Body!Decode
  BY <1>5, BodyDecodes
<1> QED BY Zenon, <1>1, <1>2, <1>3, <1>4, <1>5 DEF Body!Next

LEMMA BodyShows ==
  ASSUME Body!Parameters, BodyInv
  PROVE  Body!TypeOK /\ Body!BodyArrives
<1> DEFINE B == response.bytes  M == Body!Meant(response)
<1>1. /\ BodyTyped(response, unread, dec, split, counted, lines, bodyState)
      /\ bodyState \in {"reading", "decoding"} => Going(response, unread, dec, split, lines)
      /\ WholeLines(lines, Body!LinesOf(M)) /\ Little(dec, split, bodyState)
      /\ Body!Sound(response) => bodyState # "error"
  BY Zenon DEF BodyInv, BodyIs
<1>2. /\ response \in Streams /\ B \in Seq(Nat) /\ DecIs(dec)
      /\ counted \in 0..Len(B) /\ unread = From(B, counted)
      /\ split \in Seq(Nat) /\ lines \in Seq(Seq(Nat))
      /\ bodyState \in {"reading", "decoding", "ok", "error", "broken"}
      /\ bodyState = "reading" => dec.out = <<>>
  BY Zenon, <1>1 DEF BodyTyped
<1>3. M \in Seq(Nat) /\ Len(M) \in Nat /\ (response.framing = "length" => Len(B) <= response.length)
      /\ (response.framing # "chunked" => M = B) /\ response.length \in Nat
  BY <1>2, MeantIs
<1>4. /\ dec.buf \in Seq(Nat) /\ dec.out \in Seq(Nat) /\ dec.done \in BOOLEAN
      /\ dec.remaining \in Nat \union {-1} /\ (dec.done => dec.remaining = -1)
  BY <1>2 DEF DecIs
<1>5. unread \in Seq(Nat) /\ Len(unread) = Len(B) - counted /\ Len(B) \in Nat
  <2>1. From(B, counted) \in Seq(Nat) /\ Len(From(B, counted)) = Len(B) - counted
    BY <1>2, FromIs
  <2>2. Len(B) \in Nat
    BY <1>2
  <2> QED BY Zenon, <1>2, <2>1, <2>2
<1> HIDE DEF B, M
<1>6. Body!TypeOK
  <2>1. unread = Body!From(B, counted + 1)
    <3>1. counted \in Int
      BY <1>2
    <3> QED BY Zenon, <1>2, <3>1, BodyFrom
  <2>2. counted = Len(B) - Len(unread)
    BY <1>2, <1>5
  <2> QED BY Zenon, <1>2, <1>4, <2>1, <2>2 DEF Body!TypeOK, Body!SizeLine, B
<1>7. bodyState \in {"reading", "decoding"} => IsPrefix(lines, Body!LinesOf(M))
  <2>1. ASSUME bodyState \in {"reading", "decoding"} PROVE IsPrefix(lines, Body!LinesOf(M))
    <3>1. PICK k \in 0..Len(M) : LineState(M, k, split, lines)
      BY Zenon, <1>1, <2>1 DEF Going, M
    <3> QED BY <1>3, <3>1, LinesShow
  <2> QED BY <2>1
<1>8. ASSUME bodyState = "reading", Body!Ended \/ (response.framing = "eof" /\ unread = <<>>)
      PROVE  Body!Flushed = Body!LinesOf(M)
  <2>1. PICK k \in 0..Len(M) : LineState(M, k, split, lines) /\ Follows(response, unread, dec, k)
    <3>1. bodyState \in {"reading", "decoding"}
      BY <1>8
    <3> QED BY Zenon, <1>1, <3>1 DEF Going, M
  <2>2. From(M, k) = <<>>
    <3>1. CASE response.framing = "chunked"
      <4>1. dec.done
        BY Zenon, <1>8, <3>1 DEF Body!Ended
      <4>2. PICK q : dec.out \o Yet(response.bytes, Body!Chunks(response.bytes), dec, q) = From(M, k)
        BY Zenon, <2>1, <3>1 DEF Follows, M
      <4>3. Yet(response.bytes, Body!Chunks(response.bytes), dec, q) = <<>>
        BY Zenon, <4>1 DEF Yet
      <4>4. <<>> \o <<>> = <<>>
        OBVIOUS
      <4> QED BY Zenon, <1>2, <1>8, <4>2, <4>3, <4>4
    <3>2. CASE response.framing # "chunked"
      <4>1. unread = From(M, k)
        BY Zenon, <2>1, <3>2 DEF Follows, M
      <4>2. unread = <<>>
        <5>1. CASE response.framing = "eof" /\ unread = <<>>
          BY <5>1
        <5>2. CASE response.framing = "length" /\ counted >= response.length
          <6>1. Len(unread) = 0
            BY <1>2, <1>3, <1>5, <5>2
          <6> QED BY <1>5, <6>1
        <5> QED BY Zenon, <1>8, <3>2, <5>1, <5>2 DEF Body!Ended
      <4> QED BY Zenon, <4>1, <4>2
    <3> QED BY <3>1, <3>2
  <2>3. k = Len(M)
    <3>1. Len(From(M, k)) = Len(M) - k
      BY <1>3, <2>1, FromIs
    <3>2. PICK z : z = <<>>
      OBVIOUS
    <3>3. Len(z) = 0
      BY <3>2
    <3>4. Len(M) - k = 0
      BY Zenon, <2>2, <3>1, <3>2, <3>3
    <3> QED BY <1>3, <2>1, <3>4
  <2>4. WithTail(split, lines) = Body!LinesOf(M)
    BY <1>3, <2>1, <2>3, LinesShow
  <2> QED BY Zenon, <2>4 DEF Body!Flushed, WithTail
<1>9. Body!LinesAreWhole
  <2>1. /\ \A i \in DOMAIN lines : i < Len(lines) => lines[i] = Body!LinesOf(M)[i]
        /\ lines # <<>> => IsPrefix(lines[Len(lines)], Body!LinesOf(M)[Len(lines)])
    BY Zenon, <1>1 DEF WholeLines
  <2> QED BY Zenon, <1>7, <1>8, <2>1 DEF Body!LinesAreWhole, M
<1>10. Body!KeepsLittle
  BY Zenon, <1>1 DEF Little, Body!KeepsLittle, Body!SizeLine
<1>11. Body!NeverRefused
  BY Zenon, <1>1 DEF Body!NeverRefused
<1> QED BY Zenon, <1>6, <1>9, <1>10, <1>11 DEF Body!BodyArrives

-----------------------------------------------------------------------------
(* Bytes: each format begins with its invariant and keeps it.              *)

BytesInv ==
  /\ format \in Formats
  /\ format = "frames" => FramesInv
  /\ format = "body" => BodyInv
  /\ format = "names" => NamesInv
  /\ format = "discovery" => DiscoveryInv

LEMMA BytesBegin == BytesInit => BytesInv
<1> SUFFICES ASSUME BytesInit PROVE BytesInv
  OBVIOUS
<1>1. format = "frames" => FramesInv
  <2>1. format = "frames" => Frames!Init
    BY Zenon DEF BytesInit, Opens
  <2> QED BY <2>1, FramesBegins, BytesAssumption
<1>2. format = "body" => BodyInv
  <2>1. format = "body" => Body!Init
    BY Zenon DEF BytesInit, Opens
  <2> QED BY <2>1, BodyBegins, BytesAssumption
<1>3. format = "names" => NamesInv
  <2>1. format = "names" => Names!Init
    BY Zenon DEF BytesInit, Opens
  <2> QED BY <2>1, NamesBegins, BytesAssumption
<1>4. format = "discovery" => DiscoveryInv
  <2>1. format = "discovery" => Discovery!Init
    BY Zenon DEF BytesInit, Opens
  <2> QED BY <2>1, DiscoveryBegins, BytesAssumption
<1> QED BY <1>1, <1>2, <1>3, <1>4 DEF BytesInit, BytesInv

\* A step of Bytes is one of the format that has begun.
LEMMA OneFormat ==
  ASSUME [BytesNext]_bytesVars
  PROVE  /\ format' = format
         /\ format = "frames" => [Frames!Next]_(Frames!vars)
         /\ format = "body" => [Body!Next]_(Body!vars)
         /\ format = "names" => [Names!Next]_(Names!vars)
         /\ format = "discovery" => [Discovery!Next]_(Discovery!vars)
  BY DEF BytesNext, bytesVars, framesVars, bodyVars, namesVars, discoveryVars,
         Frames!vars, Body!vars, Names!vars, Discovery!vars

LEMMA BytesStep == BytesInv /\ [BytesNext]_bytesVars => BytesInv'
<1> SUFFICES ASSUME BytesInv, [BytesNext]_bytesVars PROVE BytesInv'
  OBVIOUS
<1>0. /\ format' = format
      /\ format = "frames" => [Frames!Next]_(Frames!vars)
      /\ format = "body" => [Body!Next]_(Body!vars)
      /\ format = "names" => [Names!Next]_(Names!vars)
      /\ format = "discovery" => [Discovery!Next]_(Discovery!vars)
  BY OneFormat
<1>1. format = "frames" => FramesInv'
  BY <1>0, FramesNext, BytesAssumption DEF BytesInv
<1>2. format = "body" => BodyInv'
  BY <1>0, BodyNext, BytesAssumption DEF BytesInv
<1>3. format = "names" => NamesInv'
  BY <1>0, NamesNext, BytesAssumption DEF BytesInv
<1>4. format = "discovery" => DiscoveryInv'
  BY <1>0, DiscoveryNext, BytesAssumption DEF BytesInv
<1> QED BY <1>0, <1>1, <1>2, <1>3, <1>4 DEF BytesInv

\* Messages and lines arrive whole, in their order and once, wherever TCP cuts them,
\* whatever control frames, chunks and trailers lie between, and however slowly the
\* socket takes what is sent; a name ends where its own bytes do and leads to a daemon,
\* not to what shares the packet; and no buffer outgrows its limit on the way (nev_ws.c,
\* http.rs, nev_mdns.c): for any bytes, messages and packets, and buffers of any size.
THEOREM BytesAreWhole == BytesSpec => []BytesArrive
<1>1. BytesInit => BytesInv
  BY BytesBegin
<1>2. BytesInv /\ [BytesNext]_bytesVars => BytesInv'
  BY BytesStep
<1>3. BytesInv => BytesArrive
  BY FramesShows, BodyShows, NamesShows, DiscoveryShows, BytesAssumption DEF BytesInv, BytesArrive
<1> QED BY <1>1, <1>2, <1>3, PTL DEF BytesSpec
=============================================================================
