-------------------------- MODULE HandshakeIOProofs --------------------------
(***************************************************************************)
(* What holds of handshake messages in records for every script, every     *)
(* length of header, message and fragment, and every interleaving.         *)
(***************************************************************************)
EXTENDS HandshakeIO, TLAPS, SequenceTheorems, WellFoundedInduction

-----------------------------------------------------------------------------
(* Induction over the natural numbers, in the form the provers can use.    *)

(* A set of natural numbers has a least one. *)
LEMMA LeastNatural ==
  ASSUME NEW T, T \subseteq Nat, T # {}
  PROVE  \E x \in T : \A y \in T : x <= y
<1> DEFINE R == OpToRel(<, Nat)
<1>1. IsWellFoundedOn(R, Nat)
  BY NatLessThanWellFounded
<1>2. \A x, y \in Nat : y < x => <<y, x>> \in R
  BY DEF OpToRel
<1> HIDE DEF R
<1>3. PICK x \in T : \A y \in T : ~ (<<y, x>> \in R)
  BY <1>1, WFMin
<1>4. ASSUME NEW y \in T PROVE x <= y
  <2>1. x \in Nat /\ y \in Nat
    OBVIOUS
  <2>2. ~(y < x)
    BY <1>2, <1>3, <2>1
  <2> QED BY <2>1, <2>2
<1> QED BY <1>4

(* What holds of zero and of the next number holds of all. *)
LEMMA SetInduction ==
  ASSUME NEW S, 0 \in S, \A n \in Nat : n \in S => n + 1 \in S
  PROVE  Nat \subseteq S
<1> DEFINE T == Nat \ S
<1> SUFFICES ASSUME T # {} PROVE FALSE
  OBVIOUS
<1>1. PICK x \in T : \A y \in T : x <= y
  BY LeastNatural
<1>2. x # 0 /\ x - 1 \in Nat /\ x - 1 \notin T
  BY <1>1
<1> QED BY <1>1, <1>2

LEMMA RangeInduction ==
  ASSUME NEW n \in Nat, NEW S, n # 0 => 1 \in S, \A k \in 1..(n-1) : k \in S => k + 1 \in S
  PROVE  1..n \subseteq S
<1> DEFINE A == {k \in Nat : k + 1 \in 1..n => k + 1 \in S}
<1>1. 0 \in A
  OBVIOUS
<1>2. ASSUME NEW k \in Nat, k \in A PROVE k + 1 \in A
  <2> SUFFICES ASSUME (k + 1) + 1 \in 1..n PROVE (k + 1) + 1 \in S
    OBVIOUS
  <2>1. k + 1 \in 1..(n-1) /\ k + 1 \in 1..n
    OBVIOUS
  <2> QED BY <1>2, <2>1
<1> HIDE DEF A
<1>3. Nat \subseteq A
  BY <1>1, <1>2, SetInduction
<1>4. ASSUME NEW i \in 1..n PROVE i \in S
  <2>1. i - 1 \in A /\ (i - 1) + 1 = i
    BY <1>3
  <2> QED BY <2>1 DEF A
<1> QED BY <1>4

-----------------------------------------------------------------------------
(* Sequences of sequences.                                                 *)

FlatStep(f, w, i) == IF i = 1 THEN w[i] ELSE f[i-1] \o w[i]
IsFlat(f, w, n) == f = [i \in 1..n |-> IF i = 1 THEN w[i] ELSE f[i-1] \o w[i]]

LEMMA FlatAt ==
  ASSUME NEW f, NEW w, NEW n \in Nat, IsFlat(f, w, n)
  PROVE  \A i \in 1..n : f[i] = FlatStep(f, w, i)
BY DEF IsFlat, FlatStep

LEMMA FlatFirst ==
  ASSUME NEW f, NEW w, NEW n \in Nat, IsFlat(f, w, n), n # 0
  PROVE  f[1] = w[1]
<1>1. 1 \in 1..n
  OBVIOUS
<1> QED BY <1>1, FlatAt DEF FlatStep

LEMMA FlatNext ==
  ASSUME NEW f, NEW w, NEW n \in Nat, IsFlat(f, w, n)
  PROVE  \A k \in 1..(n-1) : f[k+1] = f[k] \o w[k+1]
<1> SUFFICES ASSUME NEW k \in 1..(n-1) PROVE f[k+1] = f[k] \o w[k+1]
  OBVIOUS
<1>1. k + 1 \in 1..n /\ k + 1 # 1 /\ (k + 1) - 1 = k
  OBVIOUS
<1>2. f[k+1] = FlatStep(f, w, k+1)
  BY <1>1, FlatAt
<1> QED BY <1>1, <1>2 DEF FlatStep

(* The recursive function of FlattenSeq exists. *)
LEMMA FlatExists ==
  ASSUME NEW w, NEW n \in Nat
  PROVE  \E f : IsFlat(f, w, n)
<1> DEFINE A == {k \in Nat : \E f : IsFlat(f, w, k)}
<1>1. 0 \in A
  <2> DEFINE f == [i \in 1..0 |-> <<>>]
  <2>1. f = [i \in 1..0 |-> IF i = 1 THEN w[i] ELSE f[i-1] \o w[i]]
    OBVIOUS
  <2> HIDE DEF f
  <2>2. IsFlat(f, w, 0)
    BY <2>1 DEF IsFlat
  <2> QED BY <2>2
<1>2. ASSUME NEW k \in Nat, k \in A PROVE k + 1 \in A
  <2>1. PICK f : IsFlat(f, w, k)
    BY <1>2
  <2> DEFINE g == [i \in 1..(k+1) |-> IF i <= k THEN f[i] ELSE FlatStep(f, w, i)]
  <2>2. \A i \in 1..(k+1) : g[i] = FlatStep(g, w, i)
    <3> SUFFICES ASSUME NEW i \in 1..(k+1) PROVE g[i] = FlatStep(g, w, i)
      OBVIOUS
    <3>1. g[i] = FlatStep(f, w, i)
      <4>1. CASE i <= k
        <5>1. i \in 1..k /\ g[i] = f[i]
          BY <4>1
        <5> QED BY <2>1, <5>1, FlatAt
      <4>2. CASE ~(i <= k)
        BY <4>2
      <4> QED BY <4>1, <4>2
    <3>2. CASE i = 1
      BY <3>1, <3>2 DEF FlatStep
    <3>3. CASE i # 1
      <4>1. i - 1 \in 1..(k+1) /\ i - 1 <= k /\ g[i-1] = f[i-1]
        BY <3>3
      <4> QED BY <3>1, <3>3, <4>1 DEF FlatStep
    <3> QED BY <3>2, <3>3
  <2>3. g = [i \in 1..(k+1) |-> g[i]]
    OBVIOUS
  <2> HIDE DEF g
  <2>4. g = [i \in 1..(k+1) |-> IF i = 1 THEN w[i] ELSE g[i-1] \o w[i]]
    BY <2>2, <2>3 DEF FlatStep
  <2>5. IsFlat(g, w, k+1)
    BY <2>4 DEF IsFlat
  <2> QED BY <2>5
<1> HIDE DEF A
<1>3. Nat \subseteq A
  BY <1>1, <1>2, SetInduction
<1> QED BY <1>3 DEF A

LEMMA FlattenIs ==
  ASSUME NEW w, Len(w) \in Nat, Len(w) # 0
  PROVE  \E f : IsFlat(f, w, Len(w)) /\ FlattenSeq(w) = f[Len(w)]
<1> DEFINE F == CHOOSE f : f = [i \in 1..Len(w) |-> IF i = 1 THEN w[i] ELSE f[i-1] \o w[i]]
<1>1. \E f : f = [i \in 1..Len(w) |-> IF i = 1 THEN w[i] ELSE f[i-1] \o w[i]]
  BY FlatExists, Zenon DEF IsFlat
<1>2. F = [i \in 1..Len(w) |-> IF i = 1 THEN w[i] ELSE F[i-1] \o w[i]]
  BY <1>1, Zenon
<1>3. IsFlat(F, w, Len(w))
  BY <1>2, Zenon DEF IsFlat
<1>4. FlattenSeq(w) = F[Len(w)]
  BY DEF FlattenSeq
<1> HIDE DEF F
<1> QED BY <1>3, <1>4

(* The values of the function, whatever sequences are flattened. *)
LEMMA FlatType ==
  ASSUME NEW S, NEW w \in Seq(Seq(S)), NEW f, IsFlat(f, w, Len(w))
  PROVE  \A i \in 1..Len(w) : f[i] \in Seq(S)
<1> DEFINE n == Len(w)
           A == {k \in 1..n : f[k] \in Seq(S)}
<1>0. n \in Nat /\ \A i \in 1..n : w[i] \in Seq(S)
  OBVIOUS
<1>1. n # 0 => 1 \in A
  BY <1>0, FlatFirst
<1>2. ASSUME NEW k \in 1..(n-1), k \in A PROVE k + 1 \in A
  <2>1. f[k] \in Seq(S) /\ w[k+1] \in Seq(S) /\ k + 1 \in 1..n
    BY <1>0, <1>2
  <2>2. f[k+1] = f[k] \o w[k+1]
    BY <1>0, FlatNext
  <2>3. f[k] \o w[k+1] \in Seq(S)
    BY <2>1, ConcatProperties
  <2> QED BY <2>1, <2>2, <2>3
<1> HIDE DEF A
<1>3. 1..n \subseteq A
  BY <1>0, <1>1, <1>2, RangeInduction
<1> QED BY <1>3 DEF A

LEMMA FlattenType ==
  ASSUME NEW S, NEW w \in Seq(Seq(S))
  PROVE  FlattenSeq(w) \in Seq(S)
<1>1. CASE Len(w) = 0
  <2>1. FlattenSeq(w) = w
    BY <1>1 DEF FlattenSeq
  <2>2. w = <<>>
    BY <1>1, EmptySeq
  <2> QED BY <2>1, <2>2
<1>2. CASE Len(w) # 0
  <2>1. PICK f : IsFlat(f, w, Len(w)) /\ FlattenSeq(w) = f[Len(w)]
    BY <1>2, FlattenIs
  <2>2. Len(w) \in 1..Len(w)
    BY <1>2
  <2> QED BY <2>1, <2>2, FlatType
<1> QED BY <1>1, <1>2

LEMMA FlattenEmpty == FlattenSeq(<<>>) = <<>>
BY DEF FlattenSeq

LEMMA Assoc ==
  ASSUME NEW S
  PROVE  \A a, b, c \in Seq(S) : (a \o b) \o c = a \o (b \o c)
BY ConcatAssociative

(* One more sequence at the end. *)
LEMMA FlattenAppend ==
  ASSUME NEW S, NEW w \in Seq(Seq(S)), NEW x \in Seq(S)
  PROVE  FlattenSeq(Append(w, x)) = FlattenSeq(w) \o x
<1> DEFINE v == Append(w, x)
           n == Len(w)
<1>0. /\ n \in Nat /\ v \in Seq(Seq(S)) /\ Len(v) = n + 1 /\ v[n+1] = x
      /\ \A i \in 1..n : v[i] = w[i]
      /\ n + 1 \in Nat /\ (n + 1) - 1 = n /\ n = Len(w)
  OBVIOUS
<1> HIDE DEF v, n
<1>1. PICK f : IsFlat(f, v, n+1) /\ FlattenSeq(v) = f[n+1]
  BY <1>0, FlattenIs
<1>5. \A k \in 1..n : f[k+1] = f[k] \o v[k+1]
  <2>1. \A k \in 1..((n+1)-1) : f[k+1] = f[k] \o v[k+1]
    BY <1>0, <1>1, FlatNext, Zenon
  <2> QED BY <1>0, <2>1
<1>2. CASE n = 0
  <2>1. w = <<>> /\ FlattenSeq(w) = <<>>
    BY <1>0, <1>2, EmptySeq, FlattenEmpty
  <2>2. f[1] = x
    BY <1>0, <1>1, <1>2, FlatFirst
  <2> QED BY <1>1, <1>2, <2>1, <2>2 DEF v
<1>3. CASE n # 0
  <2>1. PICK g : IsFlat(g, w, n) /\ FlattenSeq(w) = g[n]
    BY <1>0, <1>3, FlattenIs
  <2> DEFINE A == {k \in 1..n : f[k] = g[k]}
  <2>2. 1 \in A
    <3>1. f[1] = v[1] /\ g[1] = w[1]
      BY <1>0, <1>1, <1>3, <2>1, FlatFirst
    <3> QED BY <1>0, <1>3, <3>1
  <2>3. ASSUME NEW k \in 1..(n-1), k \in A PROVE k + 1 \in A
    <3>1. k \in 1..n /\ k + 1 \in 1..n /\ k \in 1..((n+1)-1)
      BY <1>0
    <3>2. f[k+1] = f[k] \o v[k+1]
      BY <1>5, <3>1
    <3>3. g[k+1] = g[k] \o w[k+1]
      BY <1>0, <2>1, FlatNext
    <3> QED BY <1>0, <2>3, <3>1, <3>2, <3>3
  <2> HIDE DEF A
  <2>4. 1..n \subseteq A
    BY <1>0, <2>2, <2>3, RangeInduction
  <2>5. n \in 1..n /\ n \in 1..((n+1)-1)
    BY <1>0, <1>3
  <2>7. f[n] = g[n]
    BY <2>4, <2>5 DEF A
  <2>6. f[n+1] = f[n] \o v[n+1]
    BY <1>5, <2>5
  <2> QED BY <1>0, <1>1, <2>1, <2>6, <2>7 DEF v
<1> QED BY <1>2, <1>3

(* The first sequence comes first. *)
LEMMA FlattenTail ==
  ASSUME NEW S, NEW w \in Seq(Seq(S)), w # <<>>
  PROVE  FlattenSeq(w) = Head(w) \o FlattenSeq(Tail(w))
<1> DEFINE v == Tail(w)
           n == Len(w) - 1
           h == Head(w)
<1>0. /\ n \in Nat /\ v \in Seq(Seq(S)) /\ Len(v) = n /\ Len(w) = n + 1
      /\ h = w[1] /\ h \in Seq(S) /\ \A i \in 1..n : v[i] = w[i+1] /\ v[i] \in Seq(S)
      /\ n + 1 \in Nat /\ (n + 1) - 1 = n
  OBVIOUS
<1> HIDE DEF v, h, n
<1>6. Len(w) \in Nat /\ Len(w) # 0 /\ Len(w) - 1 = n
  BY <1>0
<1>7. PICK f : IsFlat(f, w, Len(w)) /\ FlattenSeq(w) = f[Len(w)]
  BY <1>6, FlattenIs, Zenon
<1>1. IsFlat(f, w, n+1) /\ FlattenSeq(w) = f[n+1]
  BY <1>0, <1>7
<1>5. \A k \in 1..n : f[k+1] = f[k] \o w[k+1]
  <2>1. \A k \in 1..(Len(w)-1) : f[k+1] = f[k] \o w[k+1]
    BY <1>6, <1>7, FlatNext, Zenon
  <2> QED BY <1>6, <2>1
<1>2. f[1] = h
  BY <1>0, <1>1, FlatFirst
<1>3. CASE n = 0
  <2>1. v = <<>> /\ FlattenSeq(v) = <<>>
    BY <1>0, <1>3, EmptySeq, FlattenEmpty
  <2>2. h \o <<>> = h /\ f[n+1] = h
    BY <1>0, <1>2, <1>3
  <2>3. FlattenSeq(w) = h \o FlattenSeq(v)
    BY <1>1, <2>1, <2>2
  <2> QED BY <2>3 DEF v, h
<1>4. CASE n # 0
  <2>1. PICK g : IsFlat(g, v, n) /\ FlattenSeq(v) = g[n]
    BY <1>0, <1>4, FlattenIs
  <2>2. \A i \in 1..n : g[i] \in Seq(S)
    BY <1>0, <2>1, FlatType
  <2>9. \A k \in 1..(n-1) : g[k+1] = g[k] \o v[k+1]
    <3>1. n \in Nat
      BY <1>0
    <3> QED BY <2>1, <3>1, FlatNext, Zenon
  <2> DEFINE A == {k \in 1..n : f[k+1] = h \o g[k]}
  <2>3. 1 \in A
    <3>0. 1 \in 1..n /\ 1 \in 1..((n+1)-1) /\ 1 + 1 = 2
      BY <1>0, <1>4
    <3>1. f[2] = f[1] \o w[2]
      BY <1>5, <3>0
    <3>2. g[1] = v[1] /\ v[1] = w[2]
      BY <1>0, <1>4, <2>1, FlatFirst
    <3> QED BY <1>2, <3>0, <3>1, <3>2
  <2>4. ASSUME NEW k \in 1..(n-1), k \in A PROVE k + 1 \in A
    <3>1. k \in 1..n /\ k + 1 \in 1..n /\ (k + 1) + 1 = k + 2 /\ k + 1 \in 1..((n+1)-1)
      BY <1>0
    <3>2. f[k+2] = f[k+1] \o w[k+2]
      BY <1>5, <3>1
    <3>3. g[k+1] = g[k] \o v[k+1]
      BY <2>9
    <3>4. f[k+1] = h \o g[k] /\ v[k+1] = w[k+2] /\ v[k+1] \in Seq(S) /\ g[k] \in Seq(S)
      BY <1>0, <2>2, <2>4, <3>1
    <3>5. (h \o g[k]) \o v[k+1] = h \o (g[k] \o v[k+1])
      <4>1. h \in Seq(S) /\ g[k] \in Seq(S) /\ v[k+1] \in Seq(S)
        BY <1>0, <3>4
      <4> DEFINE a == g[k]
                 b == v[k+1]
      <4>2. a \in Seq(S) /\ b \in Seq(S)
        BY <4>1
      <4> HIDE DEF a, b
      <4>3. (h \o a) \o b = h \o (a \o b)
        <5>1. \A x, y, z \in Seq(S) : (x \o y) \o z = x \o (y \o z)
          BY Assoc
        <5> QED BY <4>1, <4>2, <5>1, Zenon
      <4> QED BY <4>3 DEF a, b
    <3> QED BY <3>1, <3>2, <3>3, <3>4, <3>5
  <2> HIDE DEF A
  <2>5. 1..n \subseteq A
    BY <1>0, <1>4, <2>3, <2>4, RangeInduction
  <2>6. n \in 1..n
    BY <1>0, <1>4
  <2>7. f[n+1] = h \o g[n]
    BY <2>5, <2>6 DEF A
  <2>8. FlattenSeq(w) = h \o FlattenSeq(v)
    BY <1>1, <2>1, <2>7
  <2> QED BY <2>8 DEF v, h
<1> QED BY <1>3, <1>4

-----------------------------------------------------------------------------
(* The units of a transcript.                                              *)

KeptStep(f, u, i) == IF i = 0 THEN <<>> ELSE IF u[i][1] = 0 THEN f[i-1] ELSE Append(f[i-1], u[i])
IsKept(f, u, n) ==
    f = [i \in 0..n |-> IF i = 0 THEN <<>> ELSE IF u[i][1] = 0 THEN f[i-1] ELSE Append(f[i-1], u[i])]

LEMMA KeptAt ==
  ASSUME NEW f, NEW u, NEW n \in Nat, IsKept(f, u, n)
  PROVE  \A i \in 0..n : f[i] = KeptStep(f, u, i)
BY DEF IsKept, KeptStep

LEMMA KeptNext ==
  ASSUME NEW f, NEW u, NEW n \in Nat, IsKept(f, u, n)
  PROVE  /\ f[0] = <<>>
         /\ \A i \in 0..(n-1) : f[i+1] = IF u[i+1][1] = 0 THEN f[i] ELSE Append(f[i], u[i+1])
<1>1. f[0] = <<>>
  <2>1. 0 \in 0..n
    OBVIOUS
  <2>2. f[0] = KeptStep(f, u, 0)
    BY <2>1, KeptAt
  <2> QED BY <2>2 DEF KeptStep
<1>2. ASSUME NEW i \in 0..(n-1)
      PROVE  f[i+1] = IF u[i+1][1] = 0 THEN f[i] ELSE Append(f[i], u[i+1])
  <2>1. i + 1 \in 0..n /\ i + 1 # 0 /\ (i + 1) - 1 = i
    OBVIOUS
  <2>2. f[i+1] = KeptStep(f, u, i+1)
    BY <2>1, KeptAt
  <2> QED BY <2>1, <2>2 DEF KeptStep
<1> QED BY <1>1, <1>2

(* The recursive function of WithoutRequests exists. *)
LEMMA KeptExists ==
  ASSUME NEW u, NEW n \in Nat
  PROVE  \E f : IsKept(f, u, n)
<1> DEFINE A == {k \in Nat : \E f : IsKept(f, u, k)}
<1>1. 0 \in A
  <2> DEFINE f == [i \in 0..0 |-> <<>>]
  <2>1. f = [i \in 0..0 |-> IF i = 0 THEN <<>> ELSE IF u[i][1] = 0 THEN f[i-1] ELSE Append(f[i-1], u[i])]
    OBVIOUS
  <2> HIDE DEF f
  <2>2. IsKept(f, u, 0)
    BY <2>1 DEF IsKept
  <2> QED BY <2>2
<1>2. ASSUME NEW k \in Nat, k \in A PROVE k + 1 \in A
  <2>1. PICK f : IsKept(f, u, k)
    BY <1>2
  <2> DEFINE g == [i \in 0..(k+1) |-> IF i <= k THEN f[i] ELSE KeptStep(f, u, i)]
  <2>2. \A i \in 0..(k+1) : g[i] = KeptStep(g, u, i)
    <3> SUFFICES ASSUME NEW i \in 0..(k+1) PROVE g[i] = KeptStep(g, u, i)
      OBVIOUS
    <3>1. g[i] = KeptStep(f, u, i)
      <4>1. CASE i <= k
        <5>1. i \in 0..k /\ g[i] = f[i]
          BY <4>1
        <5> QED BY <2>1, <5>1, KeptAt
      <4>2. CASE ~(i <= k)
        BY <4>2
      <4> QED BY <4>1, <4>2
    <3>2. CASE i = 0
      BY <3>1, <3>2 DEF KeptStep
    <3>3. CASE i # 0
      <4>1. i - 1 \in 0..(k+1) /\ i - 1 <= k /\ g[i-1] = f[i-1]
        BY <3>3
      <4> QED BY <3>1, <3>3, <4>1 DEF KeptStep
    <3> QED BY <3>2, <3>3
  <2>3. g = [i \in 0..(k+1) |-> g[i]]
    OBVIOUS
  <2> HIDE DEF g
  <2>4. g = [i \in 0..(k+1) |-> IF i = 0 THEN <<>> ELSE IF u[i][1] = 0 THEN g[i-1] ELSE Append(g[i-1], u[i])]
    BY <2>2, <2>3 DEF KeptStep
  <2>5. IsKept(g, u, k+1)
    BY <2>4 DEF IsKept
  <2> QED BY <2>5
<1> HIDE DEF A
<1>3. Nat \subseteq A
  BY <1>1, <1>2, SetInduction
<1> QED BY <1>3 DEF A

LEMMA WithoutIs ==
  ASSUME NEW u, Len(u) \in Nat
  PROVE  \E f : IsKept(f, u, Len(u)) /\ WithoutRequests(u) = f[Len(u)]
<1> DEFINE F == CHOOSE f : f = [i \in 0..Len(u) |->
                   IF i = 0 THEN <<>> ELSE IF u[i][1] = 0 THEN f[i-1] ELSE Append(f[i-1], u[i])]
<1>1. \E f : f = [i \in 0..Len(u) |->
                   IF i = 0 THEN <<>> ELSE IF u[i][1] = 0 THEN f[i-1] ELSE Append(f[i-1], u[i])]
  BY KeptExists, Zenon DEF IsKept
<1>2. F = [i \in 0..Len(u) |->
                   IF i = 0 THEN <<>> ELSE IF u[i][1] = 0 THEN F[i-1] ELSE Append(F[i-1], u[i])]
  BY <1>1, Zenon
<1>3. IsKept(F, u, Len(u))
  BY <1>2, Zenon DEF IsKept
<1>4. WithoutRequests(u) = F[Len(u)]
  BY DEF WithoutRequests
<1> HIDE DEF F
<1> QED BY <1>3, <1>4

Unit == Nat \X Nat

LEMMA KeptType ==
  ASSUME NEW u \in Seq(Unit), NEW f, IsKept(f, u, Len(u))
  PROVE  \A i \in 0..Len(u) : f[i] \in Seq(Unit)
<1> DEFINE n == Len(u)
           A == {k \in Nat : k <= n => f[k] \in Seq(Unit)}
<1>0. n \in Nat /\ \A i \in 1..n : u[i] \in Unit
  OBVIOUS
<1>1. 0 \in A
  <2>1. f[0] = <<>>
    BY <1>0, KeptNext
  <2>2. f[0] \in Seq(Unit)
    BY <2>1, EmptySeq
  <2> QED BY <2>2
<1>2. ASSUME NEW k \in Nat, k \in A PROVE k + 1 \in A
  <2> SUFFICES ASSUME k + 1 <= n PROVE f[k+1] \in Seq(Unit)
    OBVIOUS
  <2>1. f[k] \in Seq(Unit) /\ k \in 0..(n-1) /\ u[k+1] \in Unit
    BY <1>0, <1>2
  <2>2. f[k+1] = IF u[k+1][1] = 0 THEN f[k] ELSE Append(f[k], u[k+1])
    BY <1>0, <2>1, KeptNext
  <2>3. Append(f[k], u[k+1]) \in Seq(Unit)
    BY <2>1, AppendProperties
  <2> QED BY <2>1, <2>2, <2>3
<1> HIDE DEF A
<1>3. Nat \subseteq A
  BY <1>1, <1>2, SetInduction
<1> QED BY <1>0, <1>3 DEF A

LEMMA WithoutType ==
  ASSUME NEW u \in Seq(Unit)
  PROVE  WithoutRequests(u) \in Seq(Unit)
<1>1. PICK f : IsKept(f, u, Len(u)) /\ WithoutRequests(u) = f[Len(u)]
  BY WithoutIs
<1> QED BY <1>1, KeptType

LEMMA WithoutEmpty == WithoutRequests(<<>>) = <<>>
<1> DEFINE u == <<>>
<1>1. Len(u) = 0
  OBVIOUS
<1>2. PICK f : IsKept(f, u, 0) /\ WithoutRequests(u) = f[0]
  BY <1>1, WithoutIs
<1> QED BY <1>2, KeptNext
LEMMA UnitConcat ==
  /\ \A a, b \in Seq(Unit) : a \o b \in Seq(Unit) /\ Len(a \o b) = Len(a) + Len(b)
  /\ \A a, b, c \in Seq(Unit) : (a \o b) \o c = a \o (b \o c)
  /\ \A a \in Seq(Unit) : a \o <<>> = a /\ <<>> \o a = a
  /\ <<>> \in Seq(Unit)
<1>1. \A a, b \in Seq(Unit) : a \o b \in Seq(Unit) /\ Len(a \o b) = Len(a) + Len(b)
  OBVIOUS
<1>2. \A a, b, c \in Seq(Unit) : (a \o b) \o c = a \o (b \o c)
  BY Assoc
<1>3. \A a \in Seq(Unit) : a \o <<>> = a /\ <<>> \o a = a
  BY ConcatEmptySeq
<1> QED BY <1>1, <1>2, <1>3

LEMMA AppendConcat ==
  ASSUME NEW a \in Seq(Unit), NEW b \in Seq(Unit), NEW x \in Unit
  PROVE  Append(a \o b, x) = a \o Append(b, x)
OBVIOUS

LEMMA WithoutConcat ==
  ASSUME NEW s \in Seq(Unit), NEW t \in Seq(Unit)
  PROVE  WithoutRequests(s \o t) = WithoutRequests(s) \o WithoutRequests(t)
<1> DEFINE u == s \o t
           n == Len(s)
           m == Len(t)
           z == Len(u)
<1>0. /\ n \in Nat /\ m \in Nat /\ z \in Nat /\ u \in Seq(Unit) /\ z = n + m
      /\ \A i \in 1..n : u[i] = s[i]
      /\ \A i \in 1..m : u[n+i] = t[i] /\ t[i] \in Unit
  OBVIOUS
<1>1. PICK f : IsKept(f, u, z) /\ WithoutRequests(u) = f[z]
  BY <1>0, WithoutIs
<1>2. PICK h : IsKept(h, s, n) /\ WithoutRequests(s) = h[n]
  BY <1>0, WithoutIs
<1>3. PICK g : IsKept(g, t, m) /\ WithoutRequests(t) = g[m]
  BY <1>0, WithoutIs
<1>a. h[n] \in Seq(Unit) /\ \A i \in 0..m : g[i] \in Seq(Unit)
  BY <1>0, <1>2, <1>3, KeptType
<1> HIDE DEF u, n, m, z
<1>4. /\ f[0] = <<>>
      /\ \A i \in 0..(z-1) : f[i+1] = IF u[i+1][1] = 0 THEN f[i] ELSE Append(f[i], u[i+1])
  BY <1>0, <1>1, KeptNext
<1>5. /\ h[0] = <<>>
      /\ \A i \in 0..(n-1) : h[i+1] = IF s[i+1][1] = 0 THEN h[i] ELSE Append(h[i], s[i+1])
  BY <1>0, <1>2, KeptNext
<1>6. /\ g[0] = <<>>
      /\ \A i \in 0..(m-1) : g[i+1] = IF t[i+1][1] = 0 THEN g[i] ELSE Append(g[i], t[i+1])
  BY <1>0, <1>3, KeptNext
<1>7. f[n] = h[n]
  <2> DEFINE A == {k \in Nat : k <= n => f[k] = h[k]}
  <2>1. 0 \in A
    BY <1>4, <1>5
  <2>2. ASSUME NEW k \in Nat, k \in A PROVE k + 1 \in A
    <3> SUFFICES ASSUME k + 1 <= n PROVE f[k+1] = h[k+1]
      OBVIOUS
    <3>1. k \in 0..(n-1) /\ k \in 0..(z-1) /\ k + 1 \in 1..n /\ f[k] = h[k]
      BY <1>0, <2>2
    <3>2. u[k+1] = s[k+1]
      BY <1>0, <3>1
    <3> QED BY <1>4, <1>5, <3>1, <3>2
  <2> HIDE DEF A
  <2>3. Nat \subseteq A
    BY <2>1, <2>2, SetInduction
  <2> QED BY <1>0, <2>3 DEF A
<1>8. f[z] = h[n] \o g[m]
  <2> DEFINE P(k) == k <= m => f[n+k] = h[n] \o g[k]
             A == {k \in Nat : P(k)}
  <2>1. P(0)
    <3>1. n + 0 = n /\ h[n] \o <<>> = h[n]
      BY <1>0, <1>a, UnitConcat
    <3> QED BY <1>6, <1>7, <3>1
  <2>2. ASSUME NEW k \in Nat, P(k) PROVE P(k + 1)
    <3> SUFFICES ASSUME k + 1 <= m PROVE f[n+(k+1)] = h[n] \o g[k+1]
      OBVIOUS
    <3>0. k <= m
      BY <1>0
    <3>6. f[n+k] = h[n] \o g[k]
      BY <2>2, <3>0
    <3>1. /\ k \in 0..(m-1) /\ n + k \in 0..(z-1) /\ k + 1 \in 1..m
          /\ n + (k + 1) = (n + k) + 1 /\ k \in 0..m
      BY <1>0
    <3>2. u[(n+k)+1] = t[k+1] /\ t[k+1] \in Unit
      BY <1>0, <3>1
    <3>3. f[(n+k)+1] = IF t[k+1][1] = 0 THEN f[n+k] ELSE Append(f[n+k], t[k+1])
      BY <1>4, <3>1, <3>2
    <3>4. g[k+1] = IF t[k+1][1] = 0 THEN g[k] ELSE Append(g[k], t[k+1])
      BY <1>6, <3>1
    <3>5. Append(h[n] \o g[k], t[k+1]) = h[n] \o Append(g[k], t[k+1])
      <4> DEFINE a == h[n]
                 b == g[k]
                 x == t[k+1]
      <4>1. a \in Seq(Unit) /\ b \in Seq(Unit) /\ x \in Unit
        BY <1>a, <3>1, <3>2
      <4> HIDE DEF a, b, x
      <4>2. Append(a \o b, x) = a \o Append(b, x)
        BY <4>1, AppendConcat
      <4> QED BY <4>2 DEF a, b, x
    <3>7. n + (k + 1) = (n + k) + 1
      BY <3>1
    <3> QED BY <3>3, <3>4, <3>5, <3>6, <3>7
  <2> HIDE DEF P
  <2>5. 0 \in A /\ \A k \in Nat : k \in A => k + 1 \in A
    BY <2>1, <2>2
  <2>3. Nat \subseteq A
    <3> HIDE DEF A
    <3> QED BY <2>5, SetInduction
  <2>4. f[n+m] = h[n] \o g[m]
    <3>1. m \in A /\ m <= m
      BY <1>0, <2>3
    <3> QED BY <3>1 DEF P
  <2> QED BY <1>0, <2>4
<1> QED BY <1>1, <1>2, <1>3, <1>8 DEF u

(* Units of messages all stay, units of HelloRequests all go. *)
LEMMA WithoutAll ==
  ASSUME NEW s \in Seq(Unit)
  PROVE  /\ (\A i \in 1..Len(s) : s[i][1] # 0) => WithoutRequests(s) = s
         /\ (\A i \in 1..Len(s) : s[i][1] = 0) => WithoutRequests(s) = <<>>
<1> DEFINE n == Len(s)
<1>0. n \in Nat /\ \A i \in 1..n : s[i] \in Unit
  OBVIOUS
<1>1. PICK f : IsKept(f, s, n) /\ WithoutRequests(s) = f[n]
  BY <1>0, WithoutIs
<1>2. /\ f[0] = <<>>
      /\ \A i \in 0..(n-1) : f[i+1] = IF s[i+1][1] = 0 THEN f[i] ELSE Append(f[i], s[i+1])
  BY <1>0, <1>1, KeptNext
<1>3. ASSUME \A i \in 1..n : s[i][1] = 0 PROVE f[n] = <<>>
  <2> DEFINE A == {k \in Nat : k <= n => f[k] = <<>>}
  <2>1. 0 \in A
    BY <1>2
  <2>2. ASSUME NEW k \in Nat, k \in A PROVE k + 1 \in A
    <3> SUFFICES ASSUME k + 1 <= n PROVE f[k+1] = <<>>
      OBVIOUS
    <3>1. k \in 0..(n-1) /\ k + 1 \in 1..n /\ f[k] = <<>>
      BY <1>0, <2>2
    <3> QED BY <1>2, <1>3, <3>1
  <2> HIDE DEF A
  <2>3. Nat \subseteq A
    BY <2>1, <2>2, SetInduction
  <2> QED BY <1>0, <2>3 DEF A
<1>4. ASSUME \A i \in 1..n : s[i][1] # 0 PROVE f[n] = s
  <2> DEFINE A == {k \in Nat : k <= n => f[k] = SubSeq(s, 1, k)}
  <2>1. 0 \in A
    <3>1. SubSeq(s, 1, 0) = <<>>
      BY SubSeqEmpty
    <3> QED BY <1>2, <3>1
  <2>2. ASSUME NEW k \in Nat, k \in A PROVE k + 1 \in A
    <3> SUFFICES ASSUME k + 1 <= n PROVE f[k+1] = SubSeq(s, 1, k+1)
      OBVIOUS
    <3>1. k \in 0..(n-1) /\ k + 1 \in 1..n /\ f[k] = SubSeq(s, 1, k)
      BY <1>0, <2>2
    <3>2. f[k+1] = Append(SubSeq(s, 1, k), s[k+1])
      BY <1>2, <1>4, <3>1
    <3>3. Append(SubSeq(s, 1, k), s[k+1]) = SubSeq(s, 1, k+1)
      BY <1>0, <3>1
    <3> QED BY <3>2, <3>3
  <2> HIDE DEF A
  <2>3. Nat \subseteq A
    BY <2>1, <2>2, SetInduction
  <2>4. f[n] = SubSeq(s, 1, n)
    BY <1>0, <2>3 DEF A
  <2> QED BY <2>4, SubSeqFull
<1> QED BY <1>1, <1>3, <1>4

-----------------------------------------------------------------------------
(***************************************************************************)
(* What is on its way to one endpoint.                                     *)
(***************************************************************************)
LenOf(s, m) == HeaderLength + (IF m = 0 THEN 0 ELSE s[m].body)
UnitsOf(s, m) == [i \in 1..LenOf(s, m) |-> <<m, i>>]

LEMMA LenOfType ==
  ASSUME NEW s \in Seq(ScriptEntry), NEW m \in 0..Len(s)
  PROVE  LenOf(s, m) \in Nat /\ LenOf(s, m) >= HeaderLength /\ LenOf(s, m) >= 1 /\ LenOf(s, 0) = HeaderLength
<1>1. HeaderLength \in Nat /\ HeaderLength >= 1
  BY BoundAssumption
<1>2. CASE m = 0
  BY <1>1, <1>2 DEF LenOf
<1>3. CASE m # 0
  <2>0. m \in 1..Len(s)
    BY <1>3
  <2>5. s[m] \in ScriptEntry
    BY <2>0, ElementOfSeq
  <2>1. s[m].body \in Nat
    BY <2>5 DEF ScriptEntry
  <2> DEFINE b == s[m].body
  <2>2. b \in Nat
    BY <2>1
  <2>3. LenOf(s, m) = HeaderLength + b /\ LenOf(s, 0) = HeaderLength
    BY <1>1, <1>3 DEF LenOf
  <2> HIDE DEF b
  <2> QED BY <1>1, <2>2, <2>3
<1> QED BY <1>2, <1>3

LEMMA UnitsOfType ==
  ASSUME NEW s \in Seq(ScriptEntry), NEW m \in 0..Len(s)
  PROVE  /\ UnitsOf(s, m) \in Seq(Unit) /\ Len(UnitsOf(s, m)) = LenOf(s, m)
         /\ \A i \in 1..LenOf(s, m) : UnitsOf(s, m)[i] = <<m, i>>
<1> DEFINE n == LenOf(s, m)
<1>1. n \in Nat /\ m \in Nat
  BY LenOfType
<1> HIDE DEF n
<1>2. [i \in 1..n |-> <<m, i>>] \in Seq(Unit) /\ Len([i \in 1..n |-> <<m, i>>]) = n
  BY <1>1 DEF Unit
<1>3. UnitsOf(s, m) = [i \in 1..n |-> <<m, i>>]
  BY DEF UnitsOf, n
<1> QED BY <1>2, <1>3 DEF n

(***************************************************************************)
(* S, on its way to e, is cut into messages; the messages come in the      *)
(* order of the script; all are the peer p's, none is one e is past, and   *)
(* p, which is at unit r of message P, has sent them; a HelloRequest is    *)
(* followed by a message, if not now then before the turn of p ends (w: it *)
(* has not ended); S ends where p stopped.                                 *)
(***************************************************************************)
Sent(P, r, u) == u[1] < P \/ (u[1] = P /\ u[2] <= r)
WellCut(s, S) ==
    /\ \A i \in 1..Len(S) : S[i][1] \in 0..Len(s) /\ S[i][2] \in 1..LenOf(s, S[i][1])
    /\ Len(S) > 0 => S[1][2] = 1
    /\ \A i \in 1..(Len(S) - 1) :
          IF S[i][2] = LenOf(s, S[i][1]) THEN S[i+1][2] = 1
          ELSE S[i+1] = <<S[i][1], S[i][2] + 1>>
Ordered(S) ==
    \A i, j \in 1..Len(S) : i < j /\ S[i][1] # 0 /\ S[j][1] # 0 =>
        S[i][1] < S[j][1] \/ (S[i][1] = S[j][1] /\ S[i][2] < S[j][2])
Bounds(s, S, p, n, P, r) ==
    \A i \in 1..Len(S) : S[i][1] # 0 => s[S[i][1]].from = p /\ n <= S[i][1] /\ Sent(P, r, S[i])
Followed(S, w) ==
    \A i \in 1..Len(S) : S[i][1] = 0 => w \/ \E j \in (i+1)..Len(S) : S[j][1] # 0
Ends(s, S, P, r) ==
    /\ Len(S) > 0 => S[Len(S)] = <<P, r>> \/ S[Len(S)][2] = LenOf(s, S[Len(S)][1])
    /\ r > 0 /\ r < LenOf(s, P) => Len(S) > 0 /\ S[Len(S)] = <<P, r>>
Stream(s, S, p, n, P, r, w) ==
    /\ S \in Seq(Unit)
    /\ WellCut(s, S) /\ Ordered(S) /\ Bounds(s, S, p, n, P, r)
    /\ Followed(S, w) /\ Ends(s, S, P, r)

(* z is S and units a + 1 to b of message m. *)
Joined(z, S, m, a, b) ==
    /\ z \in Seq(Unit) /\ Len(z) = Len(S) + (b - a)
    /\ \A i \in 1..Len(S) : z[i] = S[i]
    /\ \A i \in (Len(S)+1)..Len(z) : z[i] = <<m, a + (i - Len(S))>>

LEMMA PartIs ==
  ASSUME NEW s \in Seq(ScriptEntry), NEW m \in 0..Len(s),
         NEW a \in Nat, NEW b \in Nat, a <= b, b <= LenOf(s, m)
  PROVE  /\ SubSeq(UnitsOf(s, m), a + 1, b) \in Seq(Unit)
         /\ Len(SubSeq(UnitsOf(s, m), a + 1, b)) = b - a
         /\ \A i \in 1..(b-a) : SubSeq(UnitsOf(s, m), a + 1, b)[i] = <<m, a + i>>
<1> DEFINE U == UnitsOf(s, m)
           f == SubSeq(U, a + 1, b)
<1>1. /\ U \in Seq(Unit) /\ Len(U) = LenOf(s, m) /\ LenOf(s, m) \in Nat /\ m \in Nat
      /\ \A i \in 1..LenOf(s, m) : U[i] = <<m, i>>
  BY UnitsOfType, LenOfType
<1> HIDE DEF U
<1>2. f \in Seq(Unit) /\ Len(f) = b - a /\ \A i \in 1..(b-a) : f[i] = U[a + i]
  BY <1>1
<1>3. \A i \in 1..(b-a) : f[i] = <<m, a + i>>
  <2> SUFFICES ASSUME NEW i \in 1..(b-a) PROVE f[i] = <<m, a + i>>
    OBVIOUS
  <2>1. a + i \in 1..LenOf(s, m)
    BY <1>1
  <2> QED BY <1>1, <1>2, <2>1
<1> HIDE DEF f
<1> QED BY <1>2, <1>3 DEF f, U

IsPart(s, m, a, b, F) ==
    /\ F \in Seq(Unit) /\ Len(F) = b - a /\ \A i \in 1..(b-a) : F[i] = <<m, a + i>>
LEMMA PartOf ==
  ASSUME NEW s \in Seq(ScriptEntry), NEW m \in 0..Len(s),
         NEW a \in Nat, NEW b \in Nat, a <= b, b <= LenOf(s, m)
  PROVE  IsPart(s, m, a, b, SubSeq(UnitsOf(s, m), a + 1, b))
BY PartIs DEF IsPart

LEMMA JoinIs ==
  ASSUME NEW S \in Seq(Unit), NEW f \in Seq(Unit), NEW m \in Nat, NEW a \in Nat, NEW b \in Nat,
         a <= b, Len(f) = b - a, \A i \in 1..(b-a) : f[i] = <<m, a + i>>
  PROVE  Joined(S \o f, S, m, a, b)
<1> DEFINE z == S \o f
<1>4. /\ z \in Seq(Unit) /\ Len(z) = Len(S) + (b - a) /\ Len(S) \in Nat
      /\ \A i \in 1..Len(S) : z[i] = S[i]
      /\ \A i \in (Len(S)+1)..Len(z) : z[i] = f[i - Len(S)]
  <2>1. /\ z \in Seq(Unit) /\ Len(z) = Len(S) + Len(f)
        /\ \A i \in 1..(Len(S) + Len(f)) : z[i] = IF i <= Len(S) THEN S[i] ELSE f[i - Len(S)]
    BY ConcatProperties
  <2> DEFINE k == Len(S)
             l == Len(f)
  <2>2. k \in Nat /\ l = b - a
    OBVIOUS
  <2>3. /\ Len(z) = k + l
        /\ \A i \in 1..(k + l) : z[i] = IF i <= k THEN S[i] ELSE f[i - k]
    BY <2>1
  <2> HIDE DEF z, k, l
  <2>4. /\ Len(z) = k + (b - a) /\ \A i \in 1..k : z[i] = S[i]
        /\ \A i \in (k+1)..Len(z) : z[i] = f[i - k]
    BY <2>2, <2>3
  <2> QED BY <2>1, <2>2, <2>4 DEF k
<1> HIDE DEF z
<1>5. \A i \in (Len(S)+1)..Len(z) : z[i] = <<m, a + (i - Len(S))>>
  <2> SUFFICES ASSUME NEW i \in (Len(S)+1)..Len(z) PROVE z[i] = <<m, a + (i - Len(S))>>
    OBVIOUS
  <2>1. i - Len(S) \in 1..(b-a)
    BY <1>4
  <2> QED BY <1>4, <2>1
<1>6. Joined(z, S, m, a, b)
  BY <1>4, <1>5 DEF Joined
<1> QED BY <1>6 DEF z

(* The units of a stream that is cut into messages. *)
LEMMA CutUnits ==
  ASSUME NEW s \in Seq(ScriptEntry), NEW S \in Seq(Unit), WellCut(s, S), NEW i \in 1..Len(S)
  PROVE  /\ S[i] \in Unit /\ S[i][1] \in Nat /\ S[i][2] \in Nat /\ S[i] = <<S[i][1], S[i][2]>>
         /\ S[i][1] \in 0..Len(s) /\ LenOf(s, S[i][1]) \in Nat
         /\ S[i][2] >= 1 /\ S[i][2] <= LenOf(s, S[i][1])
<1>1. S[i] \in Unit
  BY ElementOfSeq
<1>2. S[i][1] \in Nat /\ S[i][2] \in Nat /\ S[i] = <<S[i][1], S[i][2]>>
  BY <1>1 DEF Unit
<1>3. S[i][1] \in 0..Len(s) /\ S[i][2] \in 1..LenOf(s, S[i][1])
  BY DEF WellCut
<1> DEFINE m == S[i][1]
           l == LenOf(s, m)
<1>4. l \in Nat
  BY <1>3, LenOfType
<1>5. S[i][2] >= 1 /\ S[i][2] <= l
  <2>1. S[i][2] \in 1..l
    BY <1>3
  <2> HIDE DEF l
  <2> QED BY <1>2, <1>4, <2>1
<1> QED BY <1>1, <1>2, <1>3, <1>4, <1>5

(* Units of a message behind a stream that stops before them. *)
LEMMA CutAppend ==
  ASSUME NEW s \in Seq(ScriptEntry), NEW S \in Seq(Unit), NEW z,
         NEW m \in 0..Len(s), NEW a \in Nat, NEW b \in Nat, a < b, b <= LenOf(s, m),
         WellCut(s, S), Joined(z, S, m, a, b),
         a = 0 /\ Len(S) > 0 => S[Len(S)][2] = LenOf(s, S[Len(S)][1]),
         a > 0 => Len(S) > 0 /\ S[Len(S)] = <<m, a>>
  PROVE  WellCut(s, z)
<1> DEFINE n == Len(S)
<1>1. n \in Nat /\ \A i \in 1..n : S[i] \in Unit
  OBVIOUS
<1>2. /\ z \in Seq(Unit) /\ Len(z) = n + (b - a)
      /\ \A i \in 1..n : z[i] = S[i]
      /\ \A i \in (n+1)..Len(z) : z[i] = <<m, a + (i - n)>>
  BY DEF Joined
<1>3. LenOf(s, m) \in Nat
  BY LenOfType
<1>4. /\ \A i \in 1..n : S[i][1] \in 0..Len(s) /\ S[i][2] \in 1..LenOf(s, S[i][1])
      /\ n > 0 => S[1][2] = 1
      /\ \A i \in 1..(n - 1) : IF S[i][2] = LenOf(s, S[i][1]) THEN S[i+1][2] = 1
                               ELSE S[i+1] = <<S[i][1], S[i][2] + 1>>
  BY DEF WellCut
<1>5. /\ a = 0 /\ n > 0 => S[n][2] = LenOf(s, S[n][1])
      /\ a > 0 => n > 0 /\ S[n] = <<m, a>>
  OBVIOUS
<1> HIDE DEF n
<1>6. ASSUME NEW i \in 1..Len(z)
      PROVE  z[i][1] \in 0..Len(s) /\ z[i][2] \in 1..LenOf(s, z[i][1])
  <2>1. CASE i \in 1..n
    BY <1>2, <1>4, <2>1
  <2>2. CASE i \in (n+1)..Len(z)
    <3>1. z[i] = <<m, a + (i - n)>> /\ a + (i - n) \in 1..LenOf(s, m)
      BY <1>1, <1>2, <1>3, <2>2
    <3> QED BY <3>1
  <2> QED BY <1>1, <1>2, <2>1, <2>2
<1>7. z[1][2] = 1
  <2>1. CASE n > 0
    <3>1. 1 \in 1..n
      BY <1>1, <2>1
    <3> QED BY <1>2, <1>4, <2>1, <3>1
  <2>2. CASE n = 0
    <3>1. 1 \in (n+1)..Len(z) /\ a = 0 /\ a + (1 - n) = 1
      BY <1>2, <1>5, <2>2
    <3>2. z[1] = <<m, 1>>
      BY <1>2, <3>1
    <3> QED BY <3>2
  <2> QED BY <1>1, <2>1, <2>2
<1>8. ASSUME NEW i \in 1..(Len(z) - 1)
      PROVE  IF z[i][2] = LenOf(s, z[i][1]) THEN z[i+1][2] = 1
             ELSE z[i+1] = <<z[i][1], z[i][2] + 1>>
  <2>1. CASE i < n
    <3>1. i \in 1..(n-1) /\ i \in 1..n /\ i + 1 \in 1..n
      BY <1>1, <2>1
    <3> QED BY <1>2, <1>4, <3>1
  <2>2. CASE i = n
    <3>1. i \in 1..n /\ i + 1 \in (n+1)..Len(z) /\ a + ((i+1) - n) = a + 1 /\ n > 0
      BY <1>1, <1>2, <2>2
    <3>2. z[i] = S[n] /\ z[i+1] = <<m, a + 1>>
      BY <1>2, <2>2, <3>1
    <3>3. CASE a = 0
      BY <1>5, <3>1, <3>2, <3>3
    <3>4. CASE a > 0
      <4>1. z[i] = <<m, a>> /\ a # LenOf(s, m)
        BY <1>3, <1>5, <3>2, <3>4
      <4> QED BY <3>2, <4>1
    <3> QED BY <3>3, <3>4
  <2>3. CASE i > n
    <3>1. i \in (n+1)..Len(z) /\ i + 1 \in (n+1)..Len(z)
      BY <1>1, <1>2, <2>3
    <3>2. z[i] = <<m, a + (i - n)>> /\ z[i+1] = <<m, a + ((i+1) - n)>>
      BY <1>2, <3>1
    <3>3. a + (i - n) # LenOf(s, m) /\ a + ((i+1) - n) = (a + (i - n)) + 1
      BY <1>1, <1>2, <1>3, <3>1
    <3> QED BY <3>2, <3>3
  <2> QED BY <1>1, <2>1, <2>2, <2>3
<1> QED BY <1>6, <1>7, <1>8 DEF WellCut

(* The peer puts units r + 1 to b of its message P into the stream. *)
LEMMA SendKeeps ==
  ASSUME NEW s \in Seq(ScriptEntry), NEW S, NEW p, NEW n \in Nat, NEW P \in 1..Len(s),
         NEW r \in Nat, NEW w \in BOOLEAN, NEW b \in Nat, NEW z,
         Stream(s, S, p, n, P, r, w), s[P].from = p, n <= P,
         r < b, b <= LenOf(s, P), Joined(z, S, P, r, b)
  PROVE  Stream(s, z, p, n, P, b, w)
<1> DEFINE k == Len(S)
<1>0. S \in Seq(Unit) /\ k \in Nat /\ P \in Nat /\ LenOf(s, P) \in Nat
  BY LenOfType DEF Stream
<1>1. /\ WellCut(s, S) /\ Ordered(S) /\ Bounds(s, S, p, n, P, r)
      /\ Followed(S, w) /\ Ends(s, S, P, r)
  BY DEF Stream
<1>2. /\ z \in Seq(Unit) /\ Len(z) = k + (b - r) /\ Len(z) \in Nat
      /\ \A i \in 1..k : z[i] = S[i]
      /\ \A i \in (k+1)..Len(z) : z[i] = <<P, r + (i - k)>>
  BY DEF Joined
<1>3. \A i \in 1..k : S[i] \in Unit /\ S[i][2] >= 1
  BY <1>0, <1>1, CutUnits
<1>4. /\ k > 0 => S[k] = <<P, r>> \/ S[k][2] = LenOf(s, S[k][1])
      /\ r > 0 => k > 0 /\ S[k] = <<P, r>>
  BY <1>1, <1>0 DEF Ends
<1>5. r = 0 /\ k > 0 => S[k][2] = LenOf(s, S[k][1])
  <2> SUFFICES ASSUME r = 0, k > 0, S[k] = <<P, r>> PROVE FALSE
    BY <1>4
  <2>1. k \in 1..k
    BY <1>0
  <2> QED BY <1>3, <2>1
<1>6. WellCut(s, z)
  BY <1>0, <1>1, <1>4, <1>5, CutAppend
<1> HIDE DEF k
<1>7. Ordered(z)
  <2> SUFFICES ASSUME NEW i \in 1..Len(z), NEW j \in 1..Len(z), i < j, z[i][1] # 0, z[j][1] # 0
               PROVE  z[i][1] < z[j][1] \/ (z[i][1] = z[j][1] /\ z[i][2] < z[j][2])
    BY DEF Ordered
  <2>1. CASE j <= k
    <3>1. i \in 1..k /\ j \in 1..k /\ z[i] = S[i] /\ z[j] = S[j]
      BY <1>0, <1>2, <2>1
    <3> QED BY <1>1, <3>1 DEF Ordered, k
  <2>2. CASE i <= k /\ j > k
    <3>1. i \in 1..k /\ j \in (k+1)..Len(z)
      BY <1>0, <1>2, <2>2
    <3>2. z[i] = S[i] /\ z[j] = <<P, r + (j - k)>> /\ S[i] \in Unit
      BY <1>2, <1>3, <3>1
    <3>3. Sent(P, r, S[i])
      BY <1>1, <3>1, <3>2 DEF Bounds, k
    <3> QED BY <1>0, <3>1, <3>2, <3>3 DEF Sent, Unit
  <2>3. CASE i > k
    <3>1. i \in (k+1)..Len(z) /\ j \in (k+1)..Len(z)
      BY <1>0, <1>2, <2>3
    <3>2. z[i] = <<P, r + (i - k)>> /\ z[j] = <<P, r + (j - k)>>
      BY <1>2, <3>1
    <3> QED BY <1>0, <3>1, <3>2
  <2> QED BY <1>0, <2>1, <2>2, <2>3
<1>8. Bounds(s, z, p, n, P, b)
  <2> SUFFICES ASSUME NEW i \in 1..Len(z), z[i][1] # 0
               PROVE  s[z[i][1]].from = p /\ n <= z[i][1] /\ Sent(P, b, z[i])
    BY DEF Bounds
  <2>1. CASE i <= k
    <3>1. i \in 1..k /\ z[i] = S[i] /\ S[i] \in Unit
      BY <1>0, <1>2, <1>3, <2>1
    <3>2. s[S[i][1]].from = p /\ n <= S[i][1] /\ Sent(P, r, S[i])
      BY <1>1, <3>1 DEF Bounds, k
    <3> QED BY <1>0, <3>1, <3>2 DEF Sent, Unit
  <2>2. CASE i > k
    <3>1. z[i] = <<P, r + (i - k)>> /\ r + (i - k) <= b
      BY <1>0, <1>2, <2>2
    <3> QED BY <3>1 DEF Sent
  <2> QED BY <1>0, <2>1, <2>2
<1>9. Followed(z, w)
  <2> SUFFICES ASSUME NEW i \in 1..Len(z), z[i][1] = 0, ~w
               PROVE  \E j \in (i+1)..Len(z) : z[j][1] # 0
    BY DEF Followed
  <2>1. i <= k
    <3> SUFFICES ASSUME i > k PROVE FALSE
      BY <1>0
    <3>1. z[i] = <<P, r + (i - k)>>
      BY <1>0, <1>2
    <3> QED BY <3>1
  <2>2. i \in 1..k /\ z[i] = S[i]
    BY <1>0, <1>2, <2>1
  <2>3. PICK j \in (i+1)..k : S[j][1] # 0
    BY <1>1, <2>2 DEF Followed, k
  <2>4. j \in 1..k /\ j \in (i+1)..Len(z)
    BY <1>0, <1>2, <2>2
  <2>5. z[j][1] # 0
    BY <1>2, <2>3, <2>4
  <2> QED BY <2>4, <2>5
<1>10. Ends(s, z, P, b)
  <2>1. Len(z) > 0 /\ Len(z) \in (k+1)..Len(z) /\ r + (Len(z) - k) = b
    BY <1>0, <1>2
  <2>2. z[Len(z)] = <<P, b>>
    BY <1>2, <2>1
  <2> QED BY <2>1, <2>2 DEF Ends
<1> QED BY <1>2, <1>6, <1>7, <1>8, <1>9, <1>10 DEF Stream

(* A foreign peer puts a HelloRequest into the stream. *)
LEMMA RequestKeeps ==
  ASSUME NEW s \in Seq(ScriptEntry), NEW S, NEW p, NEW n \in Nat, NEW P \in 1..Len(s), NEW z,
         Stream(s, S, p, n, P, 0, TRUE), Joined(z, S, 0, 0, HeaderLength)
  PROVE  Stream(s, z, p, n, P, 0, TRUE)
<1> DEFINE k == Len(S)
<1>0. S \in Seq(Unit) /\ k \in Nat /\ P \in Nat /\ LenOf(s, 0) = HeaderLength
      /\ HeaderLength \in Nat /\ 0 < HeaderLength /\ 0 \in 0..Len(s)
  <2>1. 0 \in 0..Len(s) /\ S \in Seq(Unit) /\ k \in Nat
    BY DEF Stream
  <2> QED BY <2>1, LenOfType, BoundAssumption DEF Stream
<1>1. WellCut(s, S) /\ Ordered(S) /\ Bounds(s, S, p, n, P, 0) /\ Ends(s, S, P, 0)
  BY DEF Stream
<1>2. /\ z \in Seq(Unit) /\ Len(z) = k + (HeaderLength - 0) /\ Len(z) \in Nat
      /\ \A i \in 1..k : z[i] = S[i]
      /\ \A i \in (k+1)..Len(z) : z[i] = <<0, 0 + (i - k)>>
  BY <1>0 DEF Joined
<1>3. \A i \in 1..k : S[i] \in Unit /\ S[i][2] >= 1
  BY <1>0, <1>1, CutUnits
<1>4. k > 0 => S[k][2] = LenOf(s, S[k][1])
  <2> SUFFICES ASSUME k > 0, S[k] = <<P, 0>> PROVE FALSE
    BY <1>1 DEF Ends
  <2>1. k \in 1..k
    BY <1>0
  <2> QED BY <1>3, <2>1
<1>5. WellCut(s, z)
  <2>1. 0 \in Nat /\ HeaderLength <= LenOf(s, 0)
    BY <1>0
  <2> QED BY <1>0, <1>1, <1>4, <2>1, CutAppend
<1> HIDE DEF k
<1>6. ASSUME NEW i \in 1..Len(z), z[i][1] # 0 PROVE i \in 1..k /\ z[i] = S[i]
  <2>1. CASE i <= k
    BY <1>0, <1>2, <2>1
  <2>2. CASE i > k
    <3>1. z[i] = <<0, 0 + (i - k)>>
      BY <1>0, <1>2, <2>2
    <3> QED BY <1>6, <3>1
  <2> QED BY <1>0, <2>1, <2>2
<1>7. Ordered(z) /\ Bounds(s, z, p, n, P, 0)
  <2>1. Ordered(z)
    <3> SUFFICES ASSUME NEW i \in 1..Len(z), NEW j \in 1..Len(z), i < j, z[i][1] # 0, z[j][1] # 0
                 PROVE  z[i][1] < z[j][1] \/ (z[i][1] = z[j][1] /\ z[i][2] < z[j][2])
      BY DEF Ordered
    <3>1. i \in 1..Len(S) /\ z[i] = S[i] /\ j \in 1..Len(S) /\ z[j] = S[j]
      BY <1>6 DEF k
    <3> QED BY <1>1, <3>1 DEF Ordered
  <2>2. Bounds(s, z, p, n, P, 0)
    <3> SUFFICES ASSUME NEW i \in 1..Len(z), z[i][1] # 0
                 PROVE  s[z[i][1]].from = p /\ n <= z[i][1] /\ Sent(P, 0, z[i])
      BY DEF Bounds
    <3>1. i \in 1..Len(S) /\ z[i] = S[i]
      BY <1>6 DEF k
    <3> QED BY <1>1, <3>1 DEF Bounds
  <2> QED BY <2>1, <2>2
<1>8. Ends(s, z, P, 0)
  <2>1. Len(z) > 0 /\ Len(z) \in (k+1)..Len(z) /\ 0 + (Len(z) - k) = HeaderLength
    BY <1>0, <1>2
  <2>2. z[Len(z)] = <<0, HeaderLength>>
    BY <1>2, <2>1
  <2> QED BY <1>0, <2>1, <2>2 DEF Ends
<1> QED BY <1>2, <1>5, <1>7, <1>8 DEF Stream, Followed

(* The peer is done with its message, or had not begun it. *)
LEMMA Raise ==
  ASSUME NEW s \in Seq(ScriptEntry), NEW S, NEW p, NEW n \in Nat, NEW P \in Nat,
         NEW r \in Nat, NEW w, NEW x,
         Stream(s, S, p, n, P, r, w), r = 0 \/ r = LenOf(s, P), Followed(S, x)
  PROVE  Stream(s, S, p, n, P + 1, 0, x)
<1>0. /\ S \in Seq(Unit) /\ Len(S) \in Nat
      /\ WellCut(s, S) /\ Ordered(S) /\ Bounds(s, S, p, n, P, r) /\ Ends(s, S, P, r)
  BY DEF Stream
<1>1. Bounds(s, S, p, n, P + 1, 0)
  <2> SUFFICES ASSUME NEW i \in 1..Len(S), S[i][1] # 0
               PROVE  s[S[i][1]].from = p /\ n <= S[i][1] /\ Sent(P + 1, 0, S[i])
    BY DEF Bounds
  <2>1. s[S[i][1]].from = p /\ n <= S[i][1] /\ Sent(P, r, S[i])
    BY <1>0 DEF Bounds
  <2>2. S[i][1] \in Nat
    BY <1>0, CutUnits
  <2> QED BY <2>1, <2>2 DEF Sent
<1>2. Ends(s, S, P + 1, 0)
  <2> SUFFICES ASSUME Len(S) > 0 PROVE S[Len(S)][2] = LenOf(s, S[Len(S)][1])
    BY DEF Ends
  <2>1. S[Len(S)] = <<P, r>> \/ S[Len(S)][2] = LenOf(s, S[Len(S)][1])
    BY <1>0 DEF Ends
  <2>2. S[Len(S)][2] >= 1
    <3>1. Len(S) \in 1..Len(S)
      BY <1>0
    <3> QED BY <1>0, <3>1, CutUnits
  <2>3. CASE S[Len(S)] = <<P, r>>
    BY <2>2, <2>3
  <2> QED BY <2>1, <2>3
<1> QED BY <1>0, <1>1, <1>2 DEF Stream

(* The reader is done with a message of its own. *)
LEMMA OwnAdvance ==
  ASSUME NEW s \in Seq(ScriptEntry), NEW S, NEW p, NEW n \in Nat, NEW P, NEW r, NEW w,
         Stream(s, S, p, n, P, r, w), s[n].from # p
  PROVE  Stream(s, S, p, n + 1, P, r, w)
<1>0. S \in Seq(Unit) /\ WellCut(s, S) /\ Bounds(s, S, p, n, P, r)
  BY DEF Stream
<1>1. Bounds(s, S, p, n + 1, P, r)
  <2> SUFFICES ASSUME NEW i \in 1..Len(S), S[i][1] # 0
               PROVE  s[S[i][1]].from = p /\ n + 1 <= S[i][1] /\ Sent(P, r, S[i])
    BY DEF Bounds
  <2>1. s[S[i][1]].from = p /\ n <= S[i][1] /\ Sent(P, r, S[i])
    BY <1>0 DEF Bounds
  <2>2. S[i][1] \in Nat
    BY <1>0, CutUnits
  <2> DEFINE m == S[i][1]
  <2>3. m \in Nat /\ n <= m /\ m # n
    BY <2>1, <2>2
  <2>4. n + 1 <= m
    <3> HIDE DEF m
    <3> QED BY <2>3
  <2> QED BY <2>1, <2>4
<1> QED BY <1>1 DEF Stream

(* A stream begins with a whole message that the reader takes from it. *)
LEMMA ReceiveKeeps ==
  ASSUME NEW s \in Seq(ScriptEntry), NEW T \in Seq(Unit), NEW p, NEW n \in 1..Len(s),
         NEW P \in Nat, NEW r \in Nat, NEW w,
         Stream(s, UnitsOf(s, n) \o T, p, n, P, r, w)
  PROVE  Stream(s, T, p, n + 1, P, r, w) /\ s[n].from = p /\ Sent(P, r, <<n, LenOf(s, n)>>)
<1> DEFINE l == LenOf(s, n)
           U == UnitsOf(s, n)
           S == U \o T
<1>0. l \in Nat /\ l >= 1 /\ n \in Nat /\ n # 0
  BY LenOfType
<1>1. U \in Seq(Unit) /\ Len(U) = l /\ \A i \in 1..l : U[i] = <<n, i>>
  BY UnitsOfType
<1> HIDE DEF U, l
<1>2. /\ S \in Seq(Unit) /\ Len(S) = l + Len(T) /\ Len(T) \in Nat
      /\ \A i \in 1..(l + Len(T)) : S[i] = IF i <= l THEN U[i] ELSE T[i - l]
  <2>1. /\ S \in Seq(Unit) /\ Len(S) = Len(U) + Len(T)
        /\ \A i \in 1..(Len(U) + Len(T)) : S[i] = IF i <= Len(U) THEN U[i] ELSE T[i - Len(U)]
    BY <1>1, ConcatProperties
  <2>2. Len(T) \in Nat
    OBVIOUS
  <2> HIDE DEF S
  <2> QED BY <1>1, <2>1, <2>2
<1>3. Stream(s, S, p, n, P, r, w)
  BY DEF U
<1> HIDE DEF S
<1>4. \A i \in 1..Len(T) : l + i \in 1..Len(S) /\ S[l + i] = T[i]
  <2> SUFFICES ASSUME NEW i \in 1..Len(T) PROVE l + i \in 1..Len(S) /\ S[l + i] = T[i]
    OBVIOUS
  <2>1. l + i \in 1..(l + Len(T)) /\ ~(l + i <= l) /\ (l + i) - l = i
    BY <1>0, <1>2
  <2> QED BY <1>2, <2>1
<1>5. l \in 1..Len(S) /\ S[l] = <<n, l>>
  <2>1. l \in 1..l /\ l \in 1..(l + Len(T)) /\ l <= l
    BY <1>0, <1>2
  <2> QED BY <1>1, <1>2, <2>1
<1>6. /\ WellCut(s, S) /\ Ordered(S) /\ Bounds(s, S, p, n, P, r)
      /\ Followed(S, w) /\ Ends(s, S, P, r)
  BY <1>3 DEF Stream
<1>7. s[n].from = p /\ Sent(P, r, <<n, l>>)
  <2>1. S[l][1] = n
    BY <1>5
  <2>2. s[S[l][1]].from = p /\ Sent(P, r, S[l])
    BY <1>0, <1>5, <1>6, <2>1 DEF Bounds
  <2> QED BY <1>5, <2>1, <2>2
<1>8. WellCut(s, T)
  <2>1. \A i \in 1..Len(T) : T[i][1] \in 0..Len(s) /\ T[i][2] \in 1..LenOf(s, T[i][1])
    BY <1>4, <1>6 DEF WellCut
  <2>2. ASSUME Len(T) > 0 PROVE T[1][2] = 1
    <3>1. l \in 1..(Len(S) - 1) /\ 1 \in 1..Len(T)
      BY <1>0, <1>2, <2>2
    <3>2. S[l][2] = LenOf(s, S[l][1])
      BY <1>5 DEF l
    <3>3. S[l+1][2] = 1
      BY <1>6, <3>1, <3>2 DEF WellCut
    <3> QED BY <1>4, <3>1, <3>3
  <2>3. ASSUME NEW i \in 1..(Len(T) - 1)
        PROVE  IF T[i][2] = LenOf(s, T[i][1]) THEN T[i+1][2] = 1
               ELSE T[i+1] = <<T[i][1], T[i][2] + 1>>
    <3>1. l + i \in 1..(Len(S) - 1) /\ i \in 1..Len(T) /\ i + 1 \in 1..Len(T) /\ l + (i + 1) = (l + i) + 1
      BY <1>0, <1>2
    <3>2. S[l+i] = T[i] /\ S[(l+i)+1] = T[i+1]
      BY <1>4, <3>1
    <3>3. IF S[l+i][2] = LenOf(s, S[l+i][1]) THEN S[(l+i)+1][2] = 1
          ELSE S[(l+i)+1] = <<S[l+i][1], S[l+i][2] + 1>>
      BY <1>6, <3>1 DEF WellCut
    <3> QED BY <3>2, <3>3
  <2> QED BY <2>1, <2>2, <2>3 DEF WellCut
<1>9. Ordered(T)
  <2> SUFFICES ASSUME NEW i \in 1..Len(T), NEW j \in 1..Len(T), i < j, T[i][1] # 0, T[j][1] # 0
               PROVE  T[i][1] < T[j][1] \/ (T[i][1] = T[j][1] /\ T[i][2] < T[j][2])
    BY DEF Ordered
  <2>1. l + i < l + j
    BY <1>0
  <2> QED BY <1>4, <1>6, <2>1 DEF Ordered
<1>10. Bounds(s, T, p, n + 1, P, r)
  <2> SUFFICES ASSUME NEW i \in 1..Len(T), T[i][1] # 0
               PROVE  s[T[i][1]].from = p /\ n + 1 <= T[i][1] /\ Sent(P, r, T[i])
    BY DEF Bounds
  <2>1. s[T[i][1]].from = p /\ Sent(P, r, T[i])
    BY <1>4, <1>6 DEF Bounds
  <2>2. l < l + i /\ S[l][1] # 0
    BY <1>0, <1>5
  <2>3. n < T[i][1] \/ (n = T[i][1] /\ l < T[i][2])
    <3>1. l + i \in 1..Len(S) /\ S[l+i] = T[i] /\ S[l][1] = n /\ S[l][2] = l
      BY <1>4, <1>5
    <3>2. S[l][1] < S[l+i][1] \/ (S[l][1] = S[l+i][1] /\ S[l][2] < S[l+i][2])
      BY <1>5, <1>6, <2>2, <3>1 DEF Ordered
    <3> QED BY <3>1, <3>2
  <2>4. T[i][1] \in Nat /\ T[i][2] \in Nat /\ T[i][2] <= LenOf(s, T[i][1])
    BY <1>8, CutUnits
  <2>5. ~(n = T[i][1] /\ l < T[i][2])
    BY <1>0, <2>4 DEF l
  <2> QED BY <1>0, <2>1, <2>3, <2>4, <2>5
<1>11. Followed(T, w)
  <2> SUFFICES ASSUME NEW i \in 1..Len(T), T[i][1] = 0, ~w
               PROVE  \E j \in (i+1)..Len(T) : T[j][1] # 0
    BY DEF Followed
  <2>1. PICK j \in ((l+i)+1)..Len(S) : S[j][1] # 0
    BY <1>4, <1>6 DEF Followed
  <2>2. j - l \in (i+1)..Len(T) /\ j - l \in 1..Len(T) /\ l + (j - l) = j
    BY <1>0, <1>2
  <2>3. T[j-l][1] # 0
    BY <1>4, <2>1, <2>2
  <2> QED BY <2>2, <2>3
<1>12. Ends(s, T, P, r)
  <2>1. CASE Len(T) > 0
    <3>1. Len(T) \in 1..Len(T) /\ l + Len(T) = Len(S) /\ Len(S) > 0
      BY <1>0, <1>2, <2>1
    <3>2. S[Len(S)] = T[Len(T)]
      BY <1>4, <3>1
    <3> QED BY <1>6, <2>1, <3>1, <3>2 DEF Ends
  <2>2. CASE Len(T) = 0
    <3>1. Len(S) = l
      BY <1>0, <1>2, <2>2
    <3>2. ASSUME r > 0, r < LenOf(s, P) PROVE FALSE
      <4>1. <<n, l>> = <<P, r>>
        BY <1>5, <1>6, <3>1, <3>2 DEF Ends
      <4> QED BY <1>0, <3>2, <4>1 DEF l
    <3> QED BY <2>2, <3>2 DEF Ends
  <2> QED BY <1>2, <2>1, <2>2
<1> QED BY <1>7, <1>8, <1>9, <1>10, <1>11, <1>12 DEF Stream, l

(* A stream begins with the units of its first message. *)
LEMMA FirstMessage ==
  ASSUME NEW s \in Seq(ScriptEntry), NEW S \in Seq(Unit), WellCut(s, S),
         NEW n \in 1..Len(S), n <= LenOf(s, S[1][1])
  PROVE  \A i \in 1..n : S[i] = <<S[1][1], i>>
<1> DEFINE m == S[1][1]
           A == {i \in 1..n : S[i] = <<m, i>>}
<1>0. n \in Nat /\ Len(S) \in Nat /\ 1 \in 1..Len(S)
  OBVIOUS
<1>1. S[1] = <<m, 1>>
  <2>1. S[1] = <<m, S[1][2]>>
    BY <1>0, CutUnits
  <2>2. S[1][2] = 1
    BY <1>0 DEF WellCut
  <2> QED BY <2>1, <2>2
<1>2. LenOf(s, m) \in Nat /\ n <= LenOf(s, m)
  BY <1>0, CutUnits
<1>3. ASSUME NEW k \in 1..(n-1), S[k] = <<m, k>> PROVE S[k+1] = <<m, k+1>>
  <2>1. k \in 1..(Len(S)-1) /\ k # LenOf(s, m)
    BY <1>0, <1>2
  <2>2. S[k][1] = m /\ S[k][2] = k
    <3> HIDE DEF m
    <3> QED BY <1>3
  <2>3. IF S[k][2] = LenOf(s, S[k][1]) THEN S[k+1][2] = 1
        ELSE S[k+1] = <<S[k][1], S[k][2] + 1>>
    BY <2>1 DEF WellCut
  <2> HIDE DEF m
  <2> QED BY <2>1, <2>2, <2>3
<1> HIDE DEF m
<1>4. n # 0 => 1 \in A
  BY <1>0, <1>1
<1>5. \A k \in 1..(n-1) : k \in A => k + 1 \in A
  <2> SUFFICES ASSUME NEW k \in 1..(n-1), k \in A PROVE k + 1 \in A
    OBVIOUS
  <2>1. k + 1 \in 1..n
    BY <1>0
  <2> QED BY <1>3, <2>1
<1>6. 1..n \subseteq A
  <2> HIDE DEF A
  <2> QED BY <1>0, <1>4, <1>5, RangeInduction
<1> QED BY <1>6 DEF m

-----------------------------------------------------------------------------
(***************************************************************************)
(* The two endpoints as the stream between them sees them: S is on its way *)
(* to the endpoint, which is at message n and has sent r units of it if it *)
(* is the writer; w: it is a foreign writer, which may still ask for a     *)
(* hello; h is its transcript and f tells that it has failed.              *)
(***************************************************************************)
Side == [S : Seq(Unit), n : Nat, r : Nat, w : BOOLEAN, h : Seq(Unit), f : BOOLEAN]

Proper(s, e, x) ==
    /\ x \in Side /\ x.n \in 1..(Len(s) + 1)
    /\ x.r > 0 \/ x.w => x.n <= Len(s) /\ s[x.n].from = e
    /\ x.r > 0 => x.r <= LenOf(s, x.n) /\ ~x.w
Link(s, x, y, p) == ~x.f => Stream(s, x.S, p, x.n, y.n, y.r, y.w)

(* What the peer y has passed, e has sent. *)
Known(s, e, x, y) ==
    \A j \in 1..(y.n - 1) : s[j].from = e => Sent(x.n, x.r, <<j, LenOf(s, j)>>)

(* x has everything y has hashed, or it is on its way; y waits for nothing. *)
Ahead(x, y) ==
    /\ \E X \in Seq(Unit) : y.h = x.h \o X /\ (~x.f => X = WithoutRequests(x.S))
    /\ ~y.f => WithoutRequests(y.S) = <<>>

Pair(s, e, p, x, y) ==
    /\ Proper(s, e, x) /\ Proper(s, p, y)
    /\ Link(s, x, y, p) /\ Link(s, y, x, e)
    /\ Known(s, e, x, y) /\ Known(s, p, y, x)
    /\ Ahead(x, y) \/ Ahead(y, x)

LEMMA PairSwap ==
  ASSUME NEW s, NEW e, NEW p, NEW x, NEW y, Pair(s, e, p, x, y)
  PROVE  Pair(s, p, e, y, x)
BY DEF Pair

LEMMA SideType ==
  ASSUME NEW s, NEW e, NEW x, Proper(s, e, x)
  PROVE  /\ x.S \in Seq(Unit) /\ x.n \in Nat /\ x.n >= 1 /\ x.r \in Nat /\ x.w \in BOOLEAN
         /\ x.h \in Seq(Unit) /\ x.f \in BOOLEAN /\ x.n \in 1..(Len(s) + 1)
BY DEF Proper, Side

(* Nothing is on its way to an endpoint that has something to write, and   *)
(* its peer has not overtaken it.                                          *)
LEMMA WriterIsAlone ==
  ASSUME NEW s \in Seq(ScriptEntry), NEW e, NEW p, NEW x, NEW y, e # p,
         Pair(s, e, p, x, y), x.n \in 1..Len(s), s[x.n].from = e, x.r < LenOf(s, x.n)
  PROVE  y.n <= x.n /\ (~x.f => x.S = <<>>)
<1>0. /\ Proper(s, e, x) /\ Proper(s, p, y) /\ Link(s, x, y, p)
      /\ Known(s, e, x, y) /\ Known(s, p, y, x)
  BY DEF Pair
<1>1. /\ x.n \in Nat /\ x.n >= 1 /\ y.n \in Nat /\ y.n >= 1 /\ x.r \in Nat /\ y.r \in Nat
      /\ y.w \in BOOLEAN /\ Len(s) \in Nat /\ y.n \in 1..(Len(s) + 1)
  BY <1>0, SideType
<1>2. LenOf(s, x.n) \in Nat
  BY <1>1, LenOfType
<1>3. y.n <= x.n
  <2> SUFFICES ASSUME x.n < y.n PROVE FALSE
    BY <1>1
  <2>1. x.n \in 1..(y.n - 1)
    BY <1>1
  <2>2. Sent(x.n, x.r, <<x.n, LenOf(s, x.n)>>)
    BY <1>0, <2>1 DEF Known
  <2> QED BY <1>1, <1>2, <2>2 DEF Sent
<1>4. ASSUME ~x.f PROVE x.S = <<>>
  <2> DEFINE S == x.S
  <2>1. Stream(s, S, p, x.n, y.n, y.r, y.w)
    BY <1>0, <1>4 DEF Link
  <2>2. S \in Seq(Unit) /\ WellCut(s, S) /\ Bounds(s, S, p, x.n, y.n, y.r) /\ Followed(S, y.w)
    BY <2>1 DEF Stream
  <2>3. ASSUME NEW i \in 1..Len(S) PROVE S[i][1] = 0
    <3> SUFFICES ASSUME S[i][1] # 0 PROVE FALSE
      OBVIOUS
    <3>1. s[S[i][1]].from = p /\ x.n <= S[i][1] /\ Sent(y.n, y.r, S[i])
      BY <2>2 DEF Bounds
    <3>2. S[i][1] \in Nat
      BY <2>2, CutUnits
    <3>3. S[i][1] # x.n
      BY <3>1
    <3> QED BY <1>1, <1>3, <3>1, <3>2, <3>3 DEF Sent
  <2>4. ASSUME Len(S) > 0 PROVE FALSE
    <3>1. Len(S) \in 1..Len(S) /\ \A j \in (Len(S)+1)..Len(S) : FALSE
      BY <2>2, <2>4
    <3>2. y.w
      BY <2>2, <2>3, <3>1 DEF Followed
    <3>3. y.n <= Len(s) /\ s[y.n].from = p /\ y.r = 0
      BY <1>0, <1>1, <3>2 DEF Proper
    <3>4. y.n \in 1..(x.n - 1) /\ y.n \in 1..Len(s)
      BY <1>1, <1>3, <3>3
    <3>5. Sent(y.n, y.r, <<y.n, LenOf(s, y.n)>>)
      BY <1>0, <3>3, <3>4 DEF Known
    <3>6. LenOf(s, y.n) \in Nat /\ LenOf(s, y.n) >= 1
      BY <3>4, LenOfType
    <3> QED BY <1>1, <3>3, <3>5, <3>6 DEF Sent
  <2>5. Len(S) = 0
    BY <2>2, <2>4
  <2> QED BY <2>2, <2>5, EmptySeq
<1> QED BY <1>3, <1>4

(* Then its transcript is at least as long as the peer's. *)
LEMMA WriterIsAhead ==
  ASSUME NEW s \in Seq(ScriptEntry), NEW e, NEW p, NEW x, NEW y, e # p,
         Pair(s, e, p, x, y), x.n \in 1..Len(s), s[x.n].from = e, x.r < LenOf(s, x.n), ~x.f
  PROVE  Ahead(y, x)
<1>1. x.S = <<>>
  BY WriterIsAlone
<1>2. Ahead(x, y) \/ Ahead(y, x)
  BY DEF Pair
<1>3. ASSUME Ahead(x, y) PROVE Ahead(y, x)
  <2>1. x.h \in Seq(Unit) /\ y.h \in Seq(Unit)
    BY SideType DEF Pair
  <2>2. y.h = x.h \o <<>>
    BY <1>1, <1>3, WithoutEmpty DEF Ahead
  <2>3. x.h = y.h \o <<>> /\ <<>> \in Seq(Unit)
    BY <2>1, <2>2, UnitConcat
  <2>4. ~y.f => <<>> = WithoutRequests(y.S)
    BY <1>3 DEF Ahead
  <2> QED BY <1>1, <2>3, <2>4, WithoutEmpty DEF Ahead
<1> QED BY <1>2, <1>3

(* Parts of a message of the script are in the transcript. *)
LEMMA PartKept ==
  ASSUME NEW s \in Seq(ScriptEntry), NEW m \in 1..Len(s), NEW a \in Nat, NEW b \in Nat,
         a <= b, b <= LenOf(s, m)
  PROVE  /\ SubSeq(UnitsOf(s, m), a + 1, b) \in Seq(Unit)
         /\ WithoutRequests(SubSeq(UnitsOf(s, m), a + 1, b)) = SubSeq(UnitsOf(s, m), a + 1, b)
<1> DEFINE F == SubSeq(UnitsOf(s, m), a + 1, b)
<1>1. /\ F \in Seq(Unit) /\ Len(F) = b - a
      /\ \A i \in 1..(b-a) : F[i] = <<m, a + i>>
  <2>2. m \in 0..Len(s)
    OBVIOUS
  <2>3. /\ SubSeq(UnitsOf(s, m), a + 1, b) \in Seq(Unit)
        /\ Len(SubSeq(UnitsOf(s, m), a + 1, b)) = b - a
        /\ \A i \in 1..(b-a) : SubSeq(UnitsOf(s, m), a + 1, b)[i] = <<m, a + i>>
    BY <2>2, PartIs
  <2> QED BY <2>3
<1> HIDE DEF F
<1>2. \A i \in 1..Len(F) : F[i][1] # 0
  <2> SUFFICES ASSUME NEW i \in 1..Len(F) PROVE F[i][1] # 0
    OBVIOUS
  <2>1. F[i] = <<m, a + i>> /\ m # 0
    BY <1>1
  <2> QED BY <2>1
<1>3. WithoutRequests(F) = F
  BY <1>1, <1>2, WithoutAll
<1> QED BY <1>1, <1>3 DEF F

LEMMA WholeKept ==
  ASSUME NEW s \in Seq(ScriptEntry), NEW m \in 1..Len(s)
  PROVE  /\ UnitsOf(s, m) \in Seq(Unit) /\ WithoutRequests(UnitsOf(s, m)) = UnitsOf(s, m)
         /\ SubSeq(UnitsOf(s, m), 1, LenOf(s, m)) = UnitsOf(s, m)
         /\ UnitsOf(s, m) # <<>>
<1> DEFINE U == UnitsOf(s, m)
           l == LenOf(s, m)
<1>0. m \in 0..Len(s) /\ m \in Nat /\ m # 0
  OBVIOUS
<1>1. U \in Seq(Unit) /\ Len(U) = l /\ (\A i \in 1..l : U[i] = <<m, i>>) /\ l \in Nat /\ l >= 1
  BY <1>0, UnitsOfType, LenOfType
<1> HIDE DEF U, l
<1>2. \A i \in 1..Len(U) : U[i][1] # 0
  BY <1>0, <1>1
<1>3. WithoutRequests(U) = U
  BY <1>1, <1>2, WithoutAll
<1>4. SubSeq(U, 1, l) = U
  BY <1>1, SubSeqFull
<1>5. U # <<>>
  BY <1>1, EmptySeq
<1> QED BY <1>1, <1>3, <1>4, <1>5 DEF U, l

(* What the endpoint ahead adds to its transcript and to the stream. *)
LEMMA AheadGrows ==
  ASSUME NEW x, NEW y, NEW x2, NEW y2, NEW F \in Seq(Unit), WithoutRequests(F) = F,
         x.h \in Seq(Unit), y.h \in Seq(Unit), y.S \in Seq(Unit),
         Ahead(y, x), x2.h = x.h \o F, x2.S = x.S, x2.f = x.f,
         y2.h = y.h, y2.f = y.f, y2.S = y.S \o F
  PROVE  Ahead(y2, x2)
<1>1. PICK X \in Seq(Unit) : x.h = y.h \o X /\ (~y.f => X = WithoutRequests(y.S))
  BY DEF Ahead
<1>2. x2.h = y2.h \o (X \o F) /\ X \o F \in Seq(Unit)
  <2> DEFINE g == y.h
  <2>1. x2.h = (g \o X) \o F /\ y2.h = g /\ g \in Seq(Unit)
    BY <1>1
  <2> HIDE DEF g
  <2>3. \A a, b, c \in Seq(Unit) : (a \o b) \o c = a \o (b \o c)
    BY UnitConcat
  <2>2. (g \o X) \o F = g \o (X \o F) /\ X \o F \in Seq(Unit)
    <3>1. (g \o X) \o F = g \o (X \o F)
      BY <2>1, <2>3, Zenon
    <3> QED BY <3>1, ConcatProperties
  <2> QED BY <2>1, <2>2
<1>3. ~y2.f => X \o F = WithoutRequests(y2.S)
  <2>1. WithoutRequests(y.S \o F) = WithoutRequests(y.S) \o F
    BY WithoutConcat
  <2> QED BY <1>1, <2>1
<1>4. ~x2.f => WithoutRequests(x2.S) = <<>>
  BY DEF Ahead
<1> QED BY <1>2, <1>3, <1>4 DEF Ahead

(***************************************************************************)
(* The steps of the pair: e puts units of its message into the stream, is  *)
(* done with its message, takes a message, puts a whole message or a       *)
(* HelloRequest into the stream, or fails.                                 *)
(***************************************************************************)
Writes(s, e, x) == ~x.f /\ x.n \in 1..Len(s) /\ s[x.n].from = e
Gains(y, y2, F) ==
    /\ y2 \in Side /\ y2.S = y.S \o F
    /\ y2.n = y.n /\ y2.r = y.r /\ y2.w = y.w /\ y2.h = y.h /\ y2.f = y.f
Sends(s, e, x, y, x2, y2, b) ==
    /\ Writes(s, e, x) /\ ~x.w /\ x2 \in Side
    /\ b \in Nat /\ x.r < b /\ b <= LenOf(s, x.n)
    /\ x2.S = x.S /\ x2.n = x.n /\ x2.w = x.w /\ x2.f = x.f /\ x2.r = b
    /\ x2.h = x.h \o SubSeq(UnitsOf(s, x.n), x.r + 1, b)
    /\ Gains(y, y2, SubSeq(UnitsOf(s, x.n), x.r + 1, b))
Advances(s, e, x, x2) ==
    /\ Writes(s, e, x) /\ ~x.w /\ x2 \in Side
    /\ x.r = LenOf(s, x.n) /\ x2.r = 0 /\ x2.n = x.n + 1
    /\ x2.S = x.S /\ x2.w = x.w /\ x2.f = x.f /\ x2.h = x.h
Receives(s, e, x, x2) ==
    /\ ~x.f /\ x.n \in 1..Len(s) /\ x2 \in Side
    /\ x.r = 0 /\ ~x.w /\ x2.r = 0 /\ x2.n = x.n + 1
    /\ x2.w => x2.n <= Len(s) /\ s[x2.n].from = e
    /\ x.S = UnitsOf(s, x.n) \o x2.S /\ x2.f = x.f /\ x2.h = x.h \o UnitsOf(s, x.n)
SendsWhole(s, e, x, y, x2, y2) ==
    /\ Writes(s, e, x) /\ x.r = 0 /\ x.w /\ x2 \in Side
    /\ x2.r = 0 /\ x2.n = x.n + 1 /\ x2.S = x.S /\ x2.f = x.f
    /\ x2.w => x2.n <= Len(s) /\ s[x2.n].from = e
    /\ x2.h = x.h \o UnitsOf(s, x.n)
    /\ Gains(y, y2, UnitsOf(s, x.n))
Requests(s, x, y, y2) == x.w /\ Gains(y, y2, UnitsOf(s, 0))
Fails(x, x2) ==
    /\ x2 \in Side /\ x2.f
    /\ x2.n = x.n /\ x2.r = x.r /\ x2.w = x.w /\ x2.h = x.h

LEMMA PairSend ==
  ASSUME NEW s \in Seq(ScriptEntry), NEW e, NEW p, e # p, NEW x, NEW y, NEW x2, NEW y2,
         NEW b, Pair(s, e, p, x, y), Sends(s, e, x, y, x2, y2, b)
  PROVE  Pair(s, e, p, x2, y2)
<1> DEFINE F == SubSeq(UnitsOf(s, x.n), x.r + 1, b)
<1>0. /\ Writes(s, e, x) /\ ~x.w /\ x2 \in Side
      /\ b \in Nat /\ x.r < b /\ b <= LenOf(s, x.n)
      /\ x2.S = x.S /\ x2.n = x.n /\ x2.w = x.w /\ x2.f = x.f /\ x2.r = b
      /\ x2.h = x.h \o F
      /\ y2 \in Side /\ y2.S = y.S \o F
      /\ y2.n = y.n /\ y2.r = y.r /\ y2.w = y.w /\ y2.h = y.h /\ y2.f = y.f
  BY DEF Sends, Gains
<1>1. /\ Proper(s, e, x) /\ Proper(s, p, y) /\ Link(s, x, y, p) /\ Link(s, y, x, e)
      /\ Known(s, e, x, y) /\ Known(s, p, y, x)
  BY DEF Pair
<1>2. /\ x.n \in Nat /\ x.n >= 1 /\ y.n \in Nat /\ x.r \in Nat /\ x.w \in BOOLEAN
      /\ x.h \in Seq(Unit) /\ y.h \in Seq(Unit) /\ y.S \in Seq(Unit)
  BY <1>1, SideType
<1>3. ~x.f /\ x.n \in 1..Len(s) /\ x.n \in 0..Len(s) /\ s[x.n].from = e
  BY <1>0 DEF Writes
<1>4. LenOf(s, x.n) \in Nat
  BY <1>3, LenOfType
<1>5. x.r < LenOf(s, x.n) /\ x.r <= b
  BY <1>0, <1>2, <1>4
<1>6. y.n <= x.n /\ Ahead(y, x)
  BY <1>3, <1>5, WriterIsAlone, WriterIsAhead
<1>7. /\ F \in Seq(Unit) /\ Len(F) = b - x.r /\ \A i \in 1..(b - x.r) : F[i] = <<x.n, x.r + i>>
  BY <1>0, <1>2, <1>3, <1>5, PartIs
<1>8. WithoutRequests(F) = F
  BY <1>0, <1>2, <1>3, <1>5, PartKept
<1> HIDE DEF F
<1>9. Proper(s, e, x2) /\ Proper(s, p, y2)
  BY <1>0, <1>1, <1>3 DEF Proper
<1>10. Link(s, x2, y2, p)
  BY <1>0, <1>1 DEF Link
<1>11. Link(s, y2, x2, e)
  <2> SUFFICES ASSUME ~y.f PROVE Stream(s, y2.S, e, y.n, x.n, b, x.w)
    BY <1>0 DEF Link
  <2>1. Stream(s, y.S, e, y.n, x.n, x.r, x.w)
    BY <1>1 DEF Link
  <2>2. Joined(y2.S, y.S, x.n, x.r, b)
    BY <1>0, <1>2, <1>5, <1>7, JoinIs
  <2> QED BY <1>0, <1>2, <1>3, <1>6, <2>1, <2>2, SendKeeps
<1>12. Known(s, e, x2, y2) /\ Known(s, p, y2, x2)
  <2>1. Known(s, p, y2, x2)
    BY <1>0, <1>1 DEF Known
  <2>2. ASSUME NEW j \in 1..(y.n - 1), s[j].from = e PROVE Sent(x.n, b, <<j, LenOf(s, j)>>)
    <3>1. Sent(x.n, x.r, <<j, LenOf(s, j)>>)
      BY <1>1, <2>2 DEF Known
    <3>2. j \in Nat /\ j < x.n
      BY <1>2, <1>6
    <3> QED BY <3>2 DEF Sent
  <2> QED BY <1>0, <2>1, <2>2 DEF Known
<1>13. Ahead(y2, x2)
  BY <1>0, <1>2, <1>6, <1>7, <1>8, AheadGrows
<1> QED BY <1>9, <1>10, <1>11, <1>12, <1>13 DEF Pair

LEMMA PairAdvance ==
  ASSUME NEW s \in Seq(ScriptEntry), NEW e, NEW p, e # p, NEW x, NEW y, NEW x2,
         Pair(s, e, p, x, y), Advances(s, e, x, x2)
  PROVE  Pair(s, e, p, x2, y)
<1>0. /\ Writes(s, e, x) /\ ~x.w /\ x2 \in Side
      /\ x.r = LenOf(s, x.n) /\ x2.r = 0 /\ x2.n = x.n + 1
      /\ x2.S = x.S /\ x2.w = x.w /\ x2.f = x.f /\ x2.h = x.h
  BY DEF Advances
<1>1. /\ Proper(s, e, x) /\ Proper(s, p, y) /\ Link(s, x, y, p) /\ Link(s, y, x, e)
      /\ Known(s, e, x, y) /\ Known(s, p, y, x)
  BY DEF Pair
<1>2. /\ x.n \in Nat /\ x.n >= 1 /\ y.n \in Nat /\ x.r \in Nat /\ x.w \in BOOLEAN /\ y.r \in Nat
  BY <1>1, SideType
<1>3. ~x.f /\ x.n \in 1..Len(s) /\ s[x.n].from = e /\ Len(s) \in Nat
  BY <1>0 DEF Writes
<1>4. Proper(s, e, x2)
  BY <1>0, <1>2, <1>3 DEF Proper
<1>5. Link(s, x2, y, p)
  <2>1. Stream(s, x.S, p, x.n, y.n, y.r, y.w)
    BY <1>1, <1>3 DEF Link
  <2>2. s[x.n].from # p
    BY <1>3
  <2>3. Stream(s, x.S, p, x.n + 1, y.n, y.r, y.w)
    BY <1>2, <2>1, <2>2, OwnAdvance
  <2> QED BY <1>0, <2>3 DEF Link
<1>6. Link(s, y, x2, e)
  <2> SUFFICES ASSUME ~y.f PROVE Stream(s, y.S, e, y.n, x.n + 1, 0, x.w)
    BY <1>0 DEF Link
  <2>1. Stream(s, y.S, e, y.n, x.n, x.r, x.w)
    BY <1>1 DEF Link
  <2>2. Followed(y.S, x.w)
    BY <2>1 DEF Stream
  <2> QED BY <1>0, <1>2, <2>1, <2>2, Raise
<1>7. Known(s, e, x2, y)
  <2> SUFFICES ASSUME NEW j \in 1..(y.n - 1), s[j].from = e
               PROVE  Sent(x.n + 1, 0, <<j, LenOf(s, j)>>)
    BY <1>0 DEF Known
  <2>1. Sent(x.n, x.r, <<j, LenOf(s, j)>>) /\ j \in Nat
    BY <1>1, <1>2 DEF Known
  <2> QED BY <1>2, <2>1 DEF Sent
<1>8. Known(s, p, y, x2)
  <2> SUFFICES ASSUME NEW j \in 1..((x.n + 1) - 1), s[j].from = p
               PROVE  Sent(y.n, y.r, <<j, LenOf(s, j)>>)
    BY <1>0 DEF Known
  <2>1. j # x.n
    BY <1>3
  <2>2. j \in 1..(x.n - 1)
    BY <1>2, <2>1
  <2> QED BY <1>1, <2>2 DEF Known
<1>9. Ahead(x2, y) \/ Ahead(y, x2)
  BY <1>0 DEF Pair, Ahead
<1> QED BY <1>1, <1>4, <1>5, <1>6, <1>7, <1>8, <1>9 DEF Pair

LEMMA PairFail ==
  ASSUME NEW s, NEW e, NEW p, NEW x, NEW y, NEW x2, Pair(s, e, p, x, y), Fails(x, x2)
  PROVE  Pair(s, e, p, x2, y)
<1>0. x2 \in Side /\ x2.f /\ x2.n = x.n /\ x2.r = x.r /\ x2.w = x.w /\ x2.h = x.h
  BY DEF Fails
<1>1. /\ Proper(s, e, x) /\ Proper(s, p, y) /\ Link(s, y, x, e)
      /\ Known(s, e, x, y) /\ Known(s, p, y, x)
  BY DEF Pair
<1>2. Proper(s, e, x2)
  BY <1>0, <1>1 DEF Proper
<1>3. Link(s, x2, y, p) /\ Link(s, y, x2, e)
  BY <1>0, <1>1 DEF Link
<1>4. Known(s, e, x2, y) /\ Known(s, p, y, x2)
  BY <1>0, <1>1 DEF Known
<1>5. Ahead(x, y) => Ahead(x2, y)
  BY <1>0 DEF Ahead
<1>6. Ahead(y, x) => Ahead(y, x2)
  BY <1>0 DEF Ahead
<1>7. Ahead(x2, y) \/ Ahead(y, x2)
  BY <1>5, <1>6 DEF Pair
<1> QED BY <1>1, <1>2, <1>3, <1>4, <1>7 DEF Pair

LEMMA PairReceive ==
  ASSUME NEW s \in Seq(ScriptEntry), NEW e, NEW p, NEW x, NEW y, NEW x2,
         Pair(s, e, p, x, y), Receives(s, e, x, x2)
  PROVE  Pair(s, e, p, x2, y)
<1> DEFINE U == UnitsOf(s, x.n)
           T == x2.S
<1>0. /\ ~x.f /\ x.n \in 1..Len(s) /\ x2 \in Side
      /\ x.r = 0 /\ ~x.w /\ x2.r = 0 /\ x2.n = x.n + 1
      /\ x2.w => x2.n <= Len(s) /\ s[x2.n].from = e
      /\ x.S = U \o T /\ x2.f = x.f /\ x2.h = x.h \o U
  BY DEF Receives
<1>1. /\ Proper(s, e, x) /\ Proper(s, p, y) /\ Link(s, x, y, p) /\ Link(s, y, x, e)
      /\ Known(s, e, x, y) /\ Known(s, p, y, x)
  BY DEF Pair
<1>2. /\ x.n \in Nat /\ x.n >= 1 /\ y.n \in Nat /\ x.w \in BOOLEAN /\ y.r \in Nat
      /\ Len(s) \in Nat /\ x.h \in Seq(Unit) /\ T \in Seq(Unit)
  BY <1>0, <1>1, SideType DEF Side
<1>3. Stream(s, U \o T, p, x.n, y.n, y.r, y.w)
  BY <1>0, <1>1 DEF Link
<1>4. /\ Stream(s, T, p, x.n + 1, y.n, y.r, y.w)
      /\ Sent(y.n, y.r, <<x.n, LenOf(s, x.n)>>)
  BY <1>0, <1>2, <1>3, ReceiveKeeps
<1>5. Proper(s, e, x2)
  BY <1>0, <1>2 DEF Proper
<1>6. Link(s, x2, y, p)
  BY <1>0, <1>4 DEF Link
<1>7. Link(s, y, x2, e)
  <2> SUFFICES ASSUME ~y.f PROVE Stream(s, y.S, e, y.n, x.n + 1, 0, x2.w)
    BY <1>0 DEF Link
  <2>1. Stream(s, y.S, e, y.n, x.n, 0, x.w)
    BY <1>0, <1>1 DEF Link
  <2>2. Followed(y.S, x2.w)
    BY <1>0, <2>1 DEF Stream, Followed
  <2> QED BY <1>2, <2>1, <2>2, Raise
<1>8. Known(s, e, x2, y)
  <2> SUFFICES ASSUME NEW j \in 1..(y.n - 1), s[j].from = e
               PROVE  Sent(x.n + 1, 0, <<j, LenOf(s, j)>>)
    BY <1>0 DEF Known
  <2>1. Sent(x.n, x.r, <<j, LenOf(s, j)>>) /\ j \in Nat
    BY <1>1, <1>2 DEF Known
  <2> QED BY <1>2, <2>1 DEF Sent
<1>9. Known(s, p, y, x2)
  <2> SUFFICES ASSUME NEW j \in 1..((x.n + 1) - 1), s[j].from = p
               PROVE  Sent(y.n, y.r, <<j, LenOf(s, j)>>)
    BY <1>0 DEF Known
  <2>1. CASE j = x.n
    BY <1>4, <2>1
  <2>2. CASE j # x.n
    <3>1. j \in 1..(x.n - 1)
      BY <1>2, <2>2
    <3> QED BY <1>1, <3>1 DEF Known
  <2> QED BY <2>1, <2>2
<1>10. /\ U \in Seq(Unit) /\ U # <<>>
       /\ WithoutRequests(x.S) = U \o WithoutRequests(T)
       /\ WithoutRequests(T) \in Seq(Unit)
  <2>1. U \in Seq(Unit) /\ WithoutRequests(U) = U /\ U # <<>>
    BY <1>0, WholeKept
  <2> HIDE DEF U, T
  <2>2. WithoutRequests(U \o T) = WithoutRequests(U) \o WithoutRequests(T)
    BY <1>2, <2>1, WithoutConcat
  <2> QED BY <1>0, <1>2, <2>1, <2>2, WithoutType
<1>11. ASSUME Ahead(y, x) PROVE FALSE
  <2>1. WithoutRequests(x.S) = <<>>
    BY <1>0, <1>11 DEF Ahead
  <2> DEFINE W == WithoutRequests(T)
  <2>2. U \o W = <<>> /\ W \in Seq(Unit)
    BY <1>10, <2>1
  <2> HIDE DEF U, W
  <2> QED BY <1>10, <2>2, ConcatEqualIffEmpty
<1>12. ASSUME Ahead(x, y) PROVE Ahead(x2, y)
  <2> DEFINE W == WithoutRequests(T)
             h == x.h
  <2>1. y.h = h \o (U \o W) /\ x2.h = h \o U /\ h \in Seq(Unit) /\ W \in Seq(Unit)
    BY <1>0, <1>2, <1>10, <1>12 DEF Ahead
  <2>2. \A a, b, c \in Seq(Unit) : (a \o b) \o c = a \o (b \o c)
    BY UnitConcat
  <2>3. U \in Seq(Unit)
    BY <1>10
  <2>4. (h \o U) \o W = h \o (U \o W)
    <3> HIDE DEF U, W, h
    <3> QED BY <2>1, <2>2, <2>3, Zenon
  <2>5. y.h = x2.h \o W
    BY <2>1, <2>4
  <2> QED BY <1>12, <2>1, <2>5 DEF Ahead
<1>13. Ahead(x2, y)
  BY <1>11, <1>12 DEF Pair
<1> QED BY <1>1, <1>5, <1>6, <1>7, <1>8, <1>9, <1>13 DEF Pair

(* A message ends every run of HelloRequests before it. *)
LEMMA MessageFollows ==
  ASSUME NEW S \in Seq(Unit), NEW z, NEW m \in Nat \ {0}, NEW a \in Nat, NEW b \in Nat, a < b,
         Joined(z, S, m, a, b), NEW w
  PROVE  Followed(z, w)
<1>1. /\ Len(S) \in Nat /\ Len(z) = Len(S) + (b - a)
      /\ \A i \in (Len(S)+1)..Len(z) : z[i] = <<m, a + (i - Len(S))>>
  BY DEF Joined
<1>2. Len(z) \in (Len(S)+1)..Len(z)
  BY <1>1
<1>3. z[Len(z)] = <<m, a + (Len(z) - Len(S))>>
  BY <1>1, <1>2
<1>4. z[Len(z)][1] # 0
  BY <1>3
<1> SUFFICES ASSUME NEW i \in 1..Len(z), z[i][1] = 0
             PROVE  \E j \in (i+1)..Len(z) : z[j][1] # 0
  BY DEF Followed
<1>5. Len(z) \in (i+1)..Len(z)
  BY <1>1, <1>4
<1> QED BY <1>4, <1>5

LEMMA PairSendWhole ==
  ASSUME NEW s \in Seq(ScriptEntry), NEW e, NEW p, e # p, NEW x, NEW y, NEW x2, NEW y2,
         Pair(s, e, p, x, y), SendsWhole(s, e, x, y, x2, y2)
  PROVE  Pair(s, e, p, x2, y2)
<1> DEFINE U == UnitsOf(s, x.n)
           l == LenOf(s, x.n)
<1>0. /\ Writes(s, e, x) /\ x.r = 0 /\ x.w /\ x2 \in Side
      /\ x2.r = 0 /\ x2.n = x.n + 1 /\ x2.S = x.S /\ x2.f = x.f
      /\ x2.w => x2.n <= Len(s) /\ s[x2.n].from = e
      /\ x2.h = x.h \o U /\ y2 \in Side /\ y2.S = y.S \o U
      /\ y2.n = y.n /\ y2.r = y.r /\ y2.w = y.w /\ y2.h = y.h /\ y2.f = y.f
  BY DEF SendsWhole, Gains
<1>1. /\ Proper(s, e, x) /\ Proper(s, p, y) /\ Link(s, x, y, p) /\ Link(s, y, x, e)
      /\ Known(s, e, x, y) /\ Known(s, p, y, x)
  BY DEF Pair
<1>2. /\ x.n \in Nat /\ x.n >= 1 /\ y.n \in Nat /\ x.r \in Nat /\ x.w \in BOOLEAN /\ y.r \in Nat
      /\ x.h \in Seq(Unit) /\ y.h \in Seq(Unit) /\ y.S \in Seq(Unit) /\ Len(s) \in Nat
  BY <1>1, SideType
<1>3. ~x.f /\ x.n \in 1..Len(s) /\ x.n \in 0..Len(s) /\ s[x.n].from = e
  BY <1>0 DEF Writes
<1>4. l \in Nat /\ l >= 1 /\ x.r < l
  BY <1>0, <1>3, LenOfType
<1>6. y.n <= x.n /\ Ahead(y, x)
  BY <1>3, <1>4, WriterIsAlone, WriterIsAhead
<1>7. /\ U \in Seq(Unit) /\ Len(U) = l /\ \A i \in 1..l : U[i] = <<x.n, i>>
  BY <1>3, UnitsOfType
<1>8. WithoutRequests(U) = U
  BY <1>3, WholeKept
<1>9. Proper(s, e, x2) /\ Proper(s, p, y2)
  BY <1>0, <1>1, <1>2, <1>3 DEF Proper
<1>10. Link(s, x2, y2, p)
  <2>1. Stream(s, x.S, p, x.n, y.n, y.r, y.w)
    BY <1>1, <1>3 DEF Link
  <2>2. s[x.n].from # p
    BY <1>3
  <2>3. Stream(s, x.S, p, x.n + 1, y.n, y.r, y.w)
    BY <1>2, <2>1, <2>2, OwnAdvance
  <2> QED BY <1>0, <2>3 DEF Link
<1>11. Link(s, y2, x2, e)
  <2> SUFFICES ASSUME ~y.f PROVE Stream(s, y2.S, e, y.n, x.n + 1, 0, x2.w)
    BY <1>0 DEF Link
  <2>1. Stream(s, y.S, e, y.n, x.n, 0, x.w)
    BY <1>0, <1>1 DEF Link
  <2>2. Joined(y2.S, y.S, x.n, 0, l)
    <3>1. 0 \in Nat /\ 0 <= l /\ Len(U) = l - 0 /\ \A i \in 1..(l-0) : U[i] = <<x.n, 0 + i>>
      <4> HIDE DEF U, l
      <4> QED BY <1>4, <1>7
    <3>2. Joined(y.S \o U, y.S, x.n, 0, l)
      <4> HIDE DEF U, l
      <4> QED BY <1>2, <1>4, <1>7, <3>1, JoinIs
    <3> QED BY <1>0, <3>2
  <2>3. 0 \in Nat /\ 0 < l /\ l <= LenOf(s, x.n) /\ x.n # 0
    BY <1>2, <1>4
  <2>4. Stream(s, y2.S, e, y.n, x.n, l, x.w)
    <3> HIDE DEF l
    <3> QED BY <1>2, <1>3, <1>4, <1>6, <2>1, <2>2, <2>3, SendKeeps
  <2>5. Followed(y2.S, x2.w)
    <3> HIDE DEF l
    <3> QED BY <1>2, <1>4, <2>2, <2>3, MessageFollows
  <2> QED BY <1>2, <1>4, <2>4, <2>5, Raise
<1>12. Known(s, e, x2, y2)
  <2> SUFFICES ASSUME NEW j \in 1..(y.n - 1), s[j].from = e
               PROVE  Sent(x.n + 1, 0, <<j, LenOf(s, j)>>)
    BY <1>0 DEF Known
  <2>1. Sent(x.n, x.r, <<j, LenOf(s, j)>>) /\ j \in Nat
    BY <1>1, <1>2 DEF Known
  <2> QED BY <1>2, <2>1 DEF Sent
<1>13. Known(s, p, y2, x2)
  <2> SUFFICES ASSUME NEW j \in 1..((x.n + 1) - 1), s[j].from = p
               PROVE  Sent(y.n, y.r, <<j, LenOf(s, j)>>)
    BY <1>0 DEF Known
  <2>1. j # x.n
    BY <1>3
  <2>2. j \in 1..(x.n - 1)
    BY <1>2, <2>1
  <2> QED BY <1>1, <2>2 DEF Known
<1>14. Ahead(y2, x2)
  <2> HIDE DEF U
  <2> QED BY <1>0, <1>2, <1>6, <1>7, <1>8, AheadGrows
<1> QED BY <1>9, <1>10, <1>11, <1>12, <1>13, <1>14 DEF Pair

LEMMA PairRequest ==
  ASSUME NEW s \in Seq(ScriptEntry), NEW e, NEW p, NEW x, NEW y, NEW y2,
         Pair(s, e, p, x, y), Requests(s, x, y, y2)
  PROVE  Pair(s, e, p, x, y2)
<1> DEFINE U == UnitsOf(s, 0)
           l == HeaderLength
<1>0. /\ x.w /\ y2 \in Side /\ y2.S = y.S \o U
      /\ y2.n = y.n /\ y2.r = y.r /\ y2.w = y.w /\ y2.h = y.h /\ y2.f = y.f
  BY DEF Requests, Gains
<1>1. /\ Proper(s, e, x) /\ Proper(s, p, y) /\ Link(s, x, y, p) /\ Link(s, y, x, e)
      /\ Known(s, e, x, y) /\ Known(s, p, y, x) /\ (Ahead(x, y) \/ Ahead(y, x))
  BY DEF Pair
<1>2. /\ x.n \in Nat /\ x.n >= 1 /\ y.n \in Nat /\ x.r \in Nat /\ x.w \in BOOLEAN
      /\ y.S \in Seq(Unit) /\ Len(s) \in Nat
  BY <1>1, SideType
<1>3. x.n \in 1..Len(s) /\ x.r = 0 /\ x.w = TRUE
  BY <1>0, <1>1, <1>2 DEF Proper
<1>4. 0 \in 0..Len(s) /\ LenOf(s, 0) = l /\ l \in Nat
  <2>1. 0 \in 0..Len(s)
    BY <1>2
  <2> QED BY <2>1, LenOfType
<1>5. U \in Seq(Unit) /\ Len(U) = l /\ \A i \in 1..l : U[i] = <<0, i>>
  BY <1>4, UnitsOfType
<1> HIDE DEF U
<1>6. WithoutRequests(U) = <<>>
  <2>1. \A i \in 1..Len(U) : U[i][1] = 0
    BY <1>5
  <2> QED BY <1>5, <2>1, WithoutAll
<1>7. WithoutRequests(y2.S) = WithoutRequests(y.S)
  <2>1. WithoutRequests(y2.S) = WithoutRequests(y.S) \o WithoutRequests(U)
    BY <1>0, <1>2, <1>5, WithoutConcat
  <2>2. WithoutRequests(y.S) \in Seq(Unit)
    BY <1>2, WithoutType
  <2> DEFINE W == WithoutRequests(y.S)
  <2>3. W \o <<>> = W
    <3> HIDE DEF W
    <3> QED BY <2>2, UnitConcat DEF W
  <2> QED BY <1>6, <2>1, <2>3
<1>8. Proper(s, p, y2)
  BY <1>0, <1>1 DEF Proper
<1>9. Link(s, x, y2, p)
  BY <1>0, <1>1 DEF Link
<1>10. Link(s, y2, x, e)
  <2> SUFFICES ASSUME ~y.f PROVE Stream(s, y2.S, e, y.n, x.n, 0, TRUE)
    BY <1>0, <1>3 DEF Link
  <2>1. Stream(s, y.S, e, y.n, x.n, 0, TRUE)
    BY <1>1, <1>3 DEF Link
  <2>2. Joined(y2.S, y.S, 0, 0, l)
    <3>1. 0 \in Nat /\ 0 <= l /\ Len(U) = l - 0 /\ \A i \in 1..(l-0) : U[i] = <<0, 0 + i>>
      BY <1>4, <1>5
    <3>2. Joined(y.S \o U, y.S, 0, 0, l)
      BY <1>2, <1>4, <1>5, <3>1, JoinIs
    <3> QED BY <1>0, <3>2
  <2> QED BY <1>2, <1>3, <2>1, <2>2, RequestKeeps
<1>11. Known(s, e, x, y2) /\ Known(s, p, y2, x)
  BY <1>0, <1>1 DEF Known
<1>12. Ahead(x, y2) \/ Ahead(y2, x)
  BY <1>0, <1>1, <1>7 DEF Ahead
<1> QED BY <1>1, <1>8, <1>9, <1>10, <1>11, <1>12 DEF Pair

-----------------------------------------------------------------------------
(***************************************************************************)
(* The transcript up to a message.                                         *)
(***************************************************************************)
UpTo(s, k) == FlattenSeq([m \in 1..k |-> UnitsOf(s, m)])

LEMMA UpToIs ==
  ASSUME NEW s \in Seq(ScriptEntry), NEW k \in 0..Len(s)
  PROVE  UpTo(s, k) \in Seq(Unit) /\ [m \in 1..k |-> UnitsOf(s, m)] \in Seq(Seq(Unit))
<1> DEFINE f == [m \in 1..k |-> UnitsOf(s, m)]
<1>1. k \in Nat /\ Len(s) \in Nat
  OBVIOUS
<1>2. \A m \in 1..k : UnitsOf(s, m) \in Seq(Unit)
  <2> SUFFICES ASSUME NEW m \in 1..k PROVE UnitsOf(s, m) \in Seq(Unit)
    OBVIOUS
  <2>1. m \in 0..Len(s)
    BY <1>1
  <2> QED BY <2>1, UnitsOfType
<1>3. f \in Seq(Seq(Unit))
  <2>1. f \in [1..k -> Seq(Unit)]
    BY <1>2
  <2> HIDE DEF f
  <2> QED BY <1>1, <2>1
<1>4. FlattenSeq(f) \in Seq(Unit)
  <2> HIDE DEF f
  <2> QED BY <1>3, FlattenType
<1> QED BY <1>3, <1>4 DEF UpTo

LEMMA UpToNext ==
  ASSUME NEW s \in Seq(ScriptEntry), NEW k \in 1..Len(s)
  PROVE  UpTo(s, k) = UpTo(s, k - 1) \o UnitsOf(s, k)
<1> DEFINE f == [m \in 1..(k-1) |-> UnitsOf(s, m)]
           g == [m \in 1..k |-> UnitsOf(s, m)]
           u == UnitsOf(s, k)
<1>1. k \in Nat /\ Len(s) \in Nat /\ k - 1 \in 0..Len(s) /\ k \in 0..Len(s) /\ k - 1 \in Nat
  OBVIOUS
<1>2. f \in Seq(Seq(Unit)) /\ g \in Seq(Seq(Unit)) /\ u \in Seq(Unit)
  BY <1>1, UpToIs, UnitsOfType
<1>3. Len(f) = k - 1 /\ Len(g) = k
  BY <1>1
<1>4. g = Append(f, u)
  <2>1. Append(f, u) \in Seq(Seq(Unit)) /\ Len(Append(f, u)) = k
    BY <1>1, <1>2, <1>3, AppendProperties
  <2>2. ASSUME NEW i \in 1..k PROVE g[i] = Append(f, u)[i]
    <3>1. CASE i = k
      <4>1. Append(f, u)[k] = u
        <5> HIDE DEF f, u
        <5> QED BY <1>1, <1>2, <1>3
      <4> QED BY <3>1, <4>1
    <3>2. CASE i # k
      <4>1. i \in 1..(k-1)
        BY <1>1, <3>2
      <4>2. Append(f, u)[i] = f[i]
        <5> HIDE DEF f, u
        <5> QED BY <1>1, <1>2, <1>3, <4>1
      <4> QED BY <4>1, <4>2
    <3> QED BY <3>1, <3>2
  <2> HIDE DEF f, g, u
  <2> QED BY <1>2, <1>3, <2>1, <2>2, SeqEqual
<1>5. FlattenSeq(g) = FlattenSeq(f) \o u
  <2> HIDE DEF f, g, u
  <2> QED BY <1>2, <1>4, FlattenAppend
<1> QED BY <1>5 DEF UpTo

(* Behind the messages before k comes the part that was written of k. *)
LEMMA UpToPart ==
  ASSUME NEW s \in Seq(ScriptEntry), NEW k \in 1..Len(s)
  PROVE  /\ UpTo(s, k - 1) \in Seq(Unit) /\ UpTo(s, k) \in Seq(Unit)
         /\ UpTo(s, k - 1) \o SubSeq(UnitsOf(s, k), 1, 0) = UpTo(s, k - 1)
         /\ UpTo(s, k - 1) \o SubSeq(UnitsOf(s, k), 1, LenOf(s, k)) = UpTo(s, k)
<1>1. k - 1 \in 0..Len(s) /\ k \in 0..Len(s)
  OBVIOUS
<1>2. UpTo(s, k - 1) \in Seq(Unit) /\ UpTo(s, k) \in Seq(Unit)
  BY <1>1, UpToIs
<1>3. SubSeq(UnitsOf(s, k), 1, 0) = <<>> /\ SubSeq(UnitsOf(s, k), 1, LenOf(s, k)) = UnitsOf(s, k)
  BY WholeKept, SubSeqEmpty
<1>4. UpTo(s, k - 1) \o <<>> = UpTo(s, k - 1)
  <2> DEFINE t == UpTo(s, k - 1)
  <2>1. t \in Seq(Unit)
    BY <1>2
  <2>2. t \o <<>> = t
    <3> HIDE DEF t
    <3> QED BY <2>1, UnitConcat
  <2> QED BY <2>2
<1> QED BY <1>2, <1>3, <1>4, UpToNext

-----------------------------------------------------------------------------
(***************************************************************************)
(* What is on its way: R in handshake.io, I in conn->in, the records w on  *)
(* the wire and T that the peer has not put on it.                         *)
(***************************************************************************)
OnWay(R, I, w, T) == ((R \o I) \o FlattenSeq(w)) \o T
Rest(w, T) == FlattenSeq(w) \o T

LEMMA OnWayType ==
  ASSUME NEW R \in Seq(Unit), NEW I \in Seq(Unit), NEW w \in Seq(Seq(Unit)), NEW T \in Seq(Unit)
  PROVE  OnWay(R, I, w, T) \in Seq(Unit)
<1> DEFINE W == FlattenSeq(w)
<1>1. W \in Seq(Unit)
  BY FlattenType
<1> HIDE DEF W
<1>2. R \o I \in Seq(Unit)
  BY ConcatProperties
<1>3. (R \o I) \o W \in Seq(Unit)
  BY <1>1, <1>2, ConcatProperties
<1>4. ((R \o I) \o W) \o T \in Seq(Unit)
  BY <1>3, ConcatProperties
<1> QED BY <1>4 DEF OnWay, W

(* The peer puts f, the first part of what it has, on the wire. *)
LEMMA WayOut ==
  ASSUME NEW R \in Seq(Unit), NEW I \in Seq(Unit), NEW w \in Seq(Seq(Unit)),
         NEW f \in Seq(Unit), NEW T \in Seq(Unit)
  PROVE  OnWay(R, I, Append(w, f), T) = OnWay(R, I, w, f \o T)
<1> DEFINE W == FlattenSeq(w)
           H == R \o I
<1>1. W \in Seq(Unit) /\ H \in Seq(Unit)
  BY FlattenType, ConcatProperties
<1>2. FlattenSeq(Append(w, f)) = W \o f
  BY FlattenAppend
<1> HIDE DEF W, H
<1>3. \A a, b, c \in Seq(Unit) : (a \o b) \o c = a \o (b \o c)
  BY UnitConcat
<1>4. H \o W \in Seq(Unit)
  BY <1>1, ConcatProperties
<1>5. H \o (W \o f) = (H \o W) \o f
  BY <1>1, <1>3, Zenon
<1>6. ((H \o W) \o f) \o T = (H \o W) \o (f \o T)
  <2> DEFINE V == H \o W
  <2>1. V \in Seq(Unit)
    BY <1>4
  <2>2. (V \o f) \o T = V \o (f \o T)
    <3> HIDE DEF V
    <3> QED BY <1>3, <2>1, Zenon
  <2> QED BY <2>2
<1> QED BY <1>2, <1>5, <1>6 DEF OnWay, W, H

(* The peer adds to what it has. *)
Grows(R, I, w, T, f) == OnWay(R, I, w, T \o f) = OnWay(R, I, w, T) \o f
LEMMA WayGrows ==
  ASSUME NEW R \in Seq(Unit), NEW I \in Seq(Unit), NEW w \in Seq(Seq(Unit)),
         NEW f \in Seq(Unit), NEW T \in Seq(Unit)
  PROVE  Grows(R, I, w, T, f)
<1> DEFINE V == (R \o I) \o FlattenSeq(w)
<1>1. V \in Seq(Unit)
  <2>1. R \o I \in Seq(Unit) /\ FlattenSeq(w) \in Seq(Unit)
    BY FlattenType, ConcatProperties
  <2> QED BY <2>1, ConcatProperties
<1> HIDE DEF V
<1>2. \A a, b, c \in Seq(Unit) : (a \o b) \o c = a \o (b \o c)
  BY UnitConcat
<1>3. (V \o T) \o f = V \o (T \o f)
  BY <1>1, <1>2, Zenon
<1> QED BY <1>3 DEF OnWay, V, Grows

(* A record leaves the wire. *)
LEMMA WayIn ==
  ASSUME NEW R \in Seq(Unit), NEW I \in Seq(Unit), NEW w \in Seq(Seq(Unit)),
         NEW T \in Seq(Unit), w # <<>>
  PROVE  OnWay(R, I, w, T) = OnWay(R, I \o Head(w), Tail(w), T)
<1> DEFINE W == FlattenSeq(Tail(w))
           f == Head(w)
<1>1. f \in Seq(Unit) /\ Tail(w) \in Seq(Seq(Unit))
  BY HeadTailProperties
<1>2. FlattenSeq(w) = f \o W
  BY FlattenTail
<1>3. W \in Seq(Unit)
  BY <1>1, FlattenType
<1> HIDE DEF W, f
<1>4. \A a, b, c \in Seq(Unit) : (a \o b) \o c = a \o (b \o c)
  BY UnitConcat
<1>5. R \o (I \o f) = (R \o I) \o f
  BY <1>1, <1>4, Zenon
<1>6. ((R \o I) \o f) \o W = (R \o I) \o (f \o W)
  <2> DEFINE V == R \o I
  <2>1. V \in Seq(Unit)
    BY ConcatProperties
  <2>2. (V \o f) \o W = V \o (f \o W)
    <3> HIDE DEF V
    <3> QED BY <1>1, <1>3, <1>4, <2>1, Zenon
  <2> QED BY <2>2
<1> QED BY <1>2, <1>5, <1>6 DEF OnWay, W, f

(* The same when nothing is left or was there. *)
LEMMA WayEmpty ==
  ASSUME NEW R \in Seq(Unit), NEW I \in Seq(Unit), NEW w \in Seq(Seq(Unit)),
         NEW f \in Seq(Unit)
  PROVE  /\ OnWay(R, I, Append(w, f), <<>>) = OnWay(R, I, w, f)
         /\ OnWay(R, I, w, f) = OnWay(R, I, w, <<>>) \o f
<1> DEFINE E == <<>>
<1>1. E \in Seq(Unit) /\ f \o E = f /\ E \o f = f
  BY EmptySeq, ConcatEmptySeq
<1> HIDE DEF E
<1>6. E \in Seq(Unit)
  BY <1>1
<1> DEFINE W == FlattenSeq(w)
           H == R \o I
           V == H \o W
<1>7. W \in Seq(Unit) /\ H \in Seq(Unit)
  BY FlattenType, ConcatProperties
<1>8. V \in Seq(Unit)
  <2> HIDE DEF W, H
  <2> QED BY <1>7, ConcatProperties
<1>9. V \o f \in Seq(Unit)
  <2> HIDE DEF V
  <2> QED BY <1>8, ConcatProperties
<1>10. H \o (W \o f) = V \o f
  <2>1. \A a, b, c \in Seq(Unit) : (a \o b) \o c = a \o (b \o c)
    BY UnitConcat
  <2> HIDE DEF H, W
  <2> QED BY <1>7, <2>1, Zenon
<1>3. OnWay(R, I, Append(w, f), E) = OnWay(R, I, w, f)
  <2>1. FlattenSeq(Append(w, f)) = W \o f
    BY FlattenAppend
  <2>2. (V \o f) \o E = V \o f
    <3> DEFINE g == V \o f
    <3>1. g \in Seq(Unit)
      BY <1>9
    <3>2. g \o <<>> = g
      <4> HIDE DEF g
      <4> QED BY <3>1, ConcatEmptySeq
    <3> QED BY <3>2 DEF E
  <2> QED BY <1>10, <2>1, <2>2 DEF OnWay
<1>4. OnWay(R, I, w, f) = OnWay(R, I, w, E) \o f
  <2>1. V \o <<>> = V
    <3> HIDE DEF V
    <3> QED BY <1>8, ConcatEmptySeq
  <2> QED BY <2>1 DEF OnWay, E
<1> QED BY <1>3, <1>4 DEF E

(* The same when nothing had arrived. *)
LEMMA WayInEmpty ==
  ASSUME NEW R \in Seq(Unit), NEW w \in Seq(Seq(Unit)), NEW T \in Seq(Unit), w # <<>>
  PROVE  OnWay(R, <<>>, w, T) = OnWay(R, Head(w), Tail(w), T)
<1> DEFINE E == <<>>
<1>1. E \in Seq(Unit)
  BY EmptySeq
<1>2. Head(w) \in Seq(Unit) /\ E \o Head(w) = Head(w)
  <2>1. Head(w) \in Seq(Unit)
    BY HeadTailProperties
  <2> DEFINE h == Head(w)
  <2>2. E \o h = h
    <3> HIDE DEF h
    <3> QED BY <2>1, ConcatEmptySeq DEF h
  <2> QED BY <2>1, <2>2
<1> HIDE DEF E
<1>3. OnWay(R, E, w, T) = OnWay(R, E \o Head(w), Tail(w), T)
  BY <1>1, WayIn, Zenon
<1> QED BY <1>2, <1>3 DEF E

(* What has arrived comes first. *)
LEMMA RestType ==
  \A w \in Seq(Seq(Unit)), T \in Seq(Unit) : Rest(w, T) \in Seq(Unit)
<1> SUFFICES ASSUME NEW w \in Seq(Seq(Unit)), NEW T \in Seq(Unit)
             PROVE  Rest(w, T) \in Seq(Unit)
  OBVIOUS
<1> DEFINE W == FlattenSeq(w)
<1>1. W \in Seq(Unit)
  BY FlattenType
<1>2. W \o T \in Seq(Unit)
  <2> HIDE DEF W
  <2> QED BY <1>1, ConcatProperties
<1> QED BY <1>2 DEF Rest

LEMMA WayRest ==
  \A R, I \in Seq(Unit), w \in Seq(Seq(Unit)), T \in Seq(Unit) :
     OnWay(R, I, w, T) = (R \o I) \o Rest(w, T)
<1> SUFFICES ASSUME NEW R \in Seq(Unit), NEW I \in Seq(Unit), NEW w \in Seq(Seq(Unit)),
                    NEW T \in Seq(Unit)
             PROVE  OnWay(R, I, w, T) = (R \o I) \o Rest(w, T)
  OBVIOUS
<1> DEFINE W == FlattenSeq(w)
           H == R \o I
<1>1. W \in Seq(Unit) /\ H \in Seq(Unit)
  BY FlattenType, ConcatProperties
<1>3. \A a, b, c \in Seq(Unit) : (a \o b) \o c = a \o (b \o c)
  BY UnitConcat
<1>4. (H \o W) \o T = H \o (W \o T)
  <2> HIDE DEF H, W
  <2> QED BY <1>1, <1>3, Zenon
<1> QED BY <1>4 DEF OnWay, Rest

Splits(R, I, w, T) == OnWay(R, I, w, T) = (R \o I) \o Rest(w, T)
LEMMA WaySplits ==
  \A R, I \in Seq(Unit), w \in Seq(Seq(Unit)), T \in Seq(Unit) : Splits(R, I, w, T)
BY WayRest DEF Splits

(* The first message comes first. *)
LEMMA WayFirst ==
  ASSUME NEW R \in Seq(Unit), NEW I \in Seq(Unit), NEW w \in Seq(Seq(Unit)), NEW T \in Seq(Unit)
  PROVE  OnWay(R, I, w, T) = R \o OnWay(<<>>, I, w, T)
<1> DEFINE V == Rest(w, T)
           E == <<>>
<1>1. E \in Seq(Unit) /\ E \o I = I
  BY EmptySeq, ConcatEmptySeq
<1> HIDE DEF E
<1>2. V \in Seq(Unit)
  BY RestType, Zenon
<1>6. OnWay(R, I, w, T) = (R \o I) \o V
  BY WayRest, Zenon
<1>3. OnWay(E, I, w, T) = (E \o I) \o V
  BY <1>1, WayRest, Zenon
<1>4. \A a, b, c \in Seq(Unit) : (a \o b) \o c = a \o (b \o c)
  BY UnitConcat
<1>5. (R \o I) \o V = R \o (I \o V)
  <2> HIDE DEF V
  <2> QED BY <1>2, <1>4, Zenon
<1> QED BY <1>1, <1>6, <1>3, <1>5 DEF E

Begins(R, I, w, T) == OnWay(R, I, w, T) = R \o OnWay(<<>>, I, w, T)
LEMMA WayBegins ==
  \A R, I \in Seq(Unit), w \in Seq(Seq(Unit)), T \in Seq(Unit) : Begins(R, I, w, T)
BY WayFirst DEF Begins

Leaves(R, I, w, T, f) == OnWay(R, I, Append(w, f), T) = OnWay(R, I, w, f \o T)
LEMMA WayLeaves ==
  \A R, I \in Seq(Unit), w \in Seq(Seq(Unit)), T, f \in Seq(Unit) : Leaves(R, I, w, T, f)
BY WayOut DEF Leaves

Arrives(R, I, w, T) == OnWay(R, I, w, T) = OnWay(R, I \o Head(w), Tail(w), T)
LEMMA WayArrives ==
  \A R, I \in Seq(Unit), w \in Seq(Seq(Unit)), T \in Seq(Unit) : w # <<>> => Arrives(R, I, w, T)
BY WayIn DEF Arrives

-----------------------------------------------------------------------------
(***************************************************************************)
(* The inductive invariant, of scenario k, the connection c of e and d of  *)
(* its peer p, and the records we and wp that e and p have written.        *)
(***************************************************************************)
WriterOf(k, e, c) == ~(c.msg > Len(k.script)) /\ k.script[c.msg].from = e
RdOf(k, e, c) == IF WriterOf(k, e, c) \/ e \in k.foreign THEN <<>> ELSE c.io
TlOf(k, e, c) == IF e \in k.foreign THEN c.io ELSE c.out
PutOf(k, e, c) == IF WriterOf(k, e, c) /\ e \notin k.foreign THEN c.read ELSE 0
AsksOf(k, e, c) == e \in k.foreign /\ WriterOf(k, e, c)
SideOf(k, e, p, c, d, w) ==
    [S |-> OnWay(RdOf(k, e, c), c.in, w, TlOf(k, p, d)), n |-> c.msg,
     r |-> PutOf(k, e, c), w |-> AsksOf(k, e, c), h |-> c.hash, f |-> c.failed]

OneMessage(r) == \A i, j \in 1..Len(r) : r[i][1] = r[j][1]

(* A writer has not begun, waits in its handler, or has the whole message. *)
Own(s, c) ==
    /\ c.in = <<>>
    /\ \/ c.wiped /\ c.io = <<>> /\ c.read = 0 /\ ~c.paused
       \/ c.paused /\ c.io = SubSeq(UnitsOf(s, c.msg), 1, HeaderLength) /\ c.read = 0 /\ ~c.wiped
       \/ ~c.paused /\ c.io = UnitsOf(s, c.msg) /\ c.read \in 0..Len(c.io) /\ ~c.wiped

(* A reader never has more than one message in handshake.io; while it has  *)
(* a whole one it waits in its handler or has turned to a HelloRequest.    *)
Reads(k, p, c) ==
    /\ c.io # <<>> => LET l == LenOf(k.script, c.io[1][1]) IN
                      /\ Len(c.io) <= l
                      /\ Len(c.io) = l => ~c.looping /\ (c.paused \/ c.status = "PLAINTEXT")
    /\ c.paused => /\ ~(c.msg > Len(k.script)) /\ c.io = UnitsOf(k.script, c.msg)
                   /\ c.in = <<>> /\ ~c.looping
    /\ p \notin k.foreign => OneMessage(c.io \o c.in)

Sound(k, e, p, c) ==
    /\ c.status = "ENCRYPTED" => c.in = <<>>
    /\ WriterOf(k, e, c) =>
          /\ Own(k.script, c)
          /\ c.hash = UpTo(k.script, c.msg - 1) \o SubSeq(UnitsOf(k.script, c.msg), 1, c.read)
    /\ ~WriterOf(k, e, c) => Reads(k, p, c) /\ c.hash = UpTo(k.script, c.msg - 1)

Local(k, e, p, c, we) ==
    /\ e \notin k.foreign => OneMessage(c.out) /\ \A i \in 1..Len(we) : OneMessage(we[i])
    /\ e \in k.foreign => ~c.looping /\ ~c.failed /\ c.async = "NOT_INVOKED"
    /\ e \notin k.foreign /\ ~c.failed => Sound(k, e, p, c)

Good(k, e, p, c, d, we, wp) ==
    /\ k \in Scenarios
    /\ c \in Connection /\ c.msg \in 1..(Len(k.script) + 1)
    /\ d \in Connection /\ d.msg \in 1..(Len(k.script) + 1)
    /\ we \in Seq(Seq(Unit)) /\ wp \in Seq(Seq(Unit))
    /\ Pair(k.script, e, p, SideOf(k, e, p, c, d, wp), SideOf(k, p, e, d, c, we))
    /\ Local(k, e, p, c, we) /\ Local(k, p, e, d, wp)

LEMMA GoodSwap ==
  ASSUME NEW k, NEW e, NEW p, NEW c, NEW d, NEW we, NEW wp, Good(k, e, p, c, d, we, wp)
  PROVE  Good(k, p, e, d, c, wp, we)
BY PairSwap DEF Good

LEMMA ConnType ==
  ASSUME NEW c \in Connection
  PROVE  /\ c.msg \in Nat /\ c.io \in Seq(Unit) /\ c.read \in Nat /\ c.wiped \in BOOLEAN
         /\ c.out \in Seq(Unit) /\ c.in \in Seq(Unit) /\ c.status \in {"ENCRYPTED", "PLAINTEXT"}
         /\ c.looping \in BOOLEAN /\ c.paused \in BOOLEAN
         /\ c.async \in {"NOT_INVOKED", "INVOKED_WAITING", "INVOKED_COMPLETE"}
         /\ c.hash \in Seq(Unit) /\ c.failed \in BOOLEAN
BY DEF Connection, Unit

LEMMA ScenarioType ==
  ASSUME NEW k \in Scenarios
  PROVE  k.script \in Seq(ScriptEntry) /\ Len(k.script) \in Nat
BY ScenarioAssumption

LEMMA SideOfType ==
  ASSUME NEW k, NEW e, NEW p, NEW c \in Connection, NEW d \in Connection, NEW w \in Seq(Seq(Unit))
  PROVE  /\ SideOf(k, e, p, c, d, w) \in Side
         /\ RdOf(k, e, c) \in Seq(Unit) /\ TlOf(k, p, d) \in Seq(Unit)
<1>1. c.io \in Seq(Unit) /\ c.in \in Seq(Unit) /\ c.msg \in Nat /\ c.read \in Nat
      /\ c.hash \in Seq(Unit) /\ c.failed \in BOOLEAN
  BY ConnType
<1>2. d.io \in Seq(Unit) /\ d.out \in Seq(Unit)
  BY ConnType
<1>3. RdOf(k, e, c) \in Seq(Unit) /\ TlOf(k, p, d) \in Seq(Unit)
  BY <1>1, <1>2, EmptySeq DEF RdOf, TlOf
<1>4. OnWay(RdOf(k, e, c), c.in, w, TlOf(k, p, d)) \in Seq(Unit)
  BY <1>1, <1>3, OnWayType
<1>5. PutOf(k, e, c) \in Nat /\ AsksOf(k, e, c) \in BOOLEAN
  BY <1>1 DEF PutOf, AsksOf, WriterOf
<1> QED BY <1>1, <1>3, <1>4, <1>5 DEF SideOf, Side

(* A step that the stream does not see. *)
Unseen(k, e, p, c, d, we, wp, c2, we2, wp2) ==
    /\ SideOf(k, e, p, c2, d, wp2) = SideOf(k, e, p, c, d, wp)
    /\ SideOf(k, p, e, d, c2, we2) = SideOf(k, p, e, d, c, we)

LEMMA GoodUnseen ==
  ASSUME NEW k, NEW e, NEW p, NEW c, NEW d, NEW we, NEW wp, Good(k, e, p, c, d, we, wp),
         NEW c2 \in Connection, c2.msg = c.msg,
         NEW we2 \in Seq(Seq(Unit)), NEW wp2 \in Seq(Seq(Unit)),
         Unseen(k, e, p, c, d, we, wp, c2, we2, wp2),
         Local(k, e, p, c2, we2), Local(k, p, e, d, wp2)
  PROVE  Good(k, e, p, c2, d, we2, wp2)
BY DEF Good, Unseen

(* conn->out and the state of a callback are not part of it. *)
LEMMA SoundSame ==
  ASSUME NEW k, NEW e, NEW p, NEW c, NEW c2, Sound(k, e, p, c),
         c2.msg = c.msg, c2.io = c.io, c2.read = c.read, c2.wiped = c.wiped, c2.in = c.in,
         c2.status = c.status, c2.looping = c.looping, c2.paused = c.paused, c2.hash = c.hash
  PROVE  Sound(k, e, p, c2)
<1>1. WriterOf(k, e, c2) = WriterOf(k, e, c)
  BY DEF WriterOf
<1>2. Own(k.script, c2) = Own(k.script, c)
  BY Zenon DEF Own
<1>3. Reads(k, p, c2) = Reads(k, p, c)
  BY Zenon DEF Reads
<1> QED BY <1>1, <1>2, <1>3 DEF Sound

LEMMA GoodFlush ==
  ASSUME NEW k, NEW e, NEW p, NEW c, NEW d, NEW we, NEW wp, Good(k, e, p, c, d, we, wp),
         e \notin k.foreign
  PROVE  Good(k, e, p, [c EXCEPT !.out = <<>>], d, Append(we, c.out), wp)
<1> DEFINE c2 == [c EXCEPT !.out = <<>>]
           we2 == Append(we, c.out)
<1>0. /\ c \in Connection /\ d \in Connection /\ we \in Seq(Seq(Unit)) /\ wp \in Seq(Seq(Unit))
      /\ Local(k, e, p, c, we) /\ Local(k, p, e, d, wp)
  BY DEF Good
<1>1. c.out \in Seq(Unit) /\ <<>> \in Seq(Unit) /\ d.in \in Seq(Unit)
  BY <1>0, ConnType, EmptySeq
<1>2. /\ c2 \in Connection /\ c2.msg = c.msg /\ c2.io = c.io /\ c2.read = c.read
      /\ c2.wiped = c.wiped /\ c2.out = <<>> /\ c2.in = c.in /\ c2.status = c.status
      /\ c2.looping = c.looping /\ c2.paused = c.paused /\ c2.async = c.async
      /\ c2.hash = c.hash /\ c2.failed = c.failed
  BY <1>0, <1>1 DEF Connection, Unit
<1> HIDE DEF c2
<1>3. we2 \in Seq(Seq(Unit))
  BY <1>0, <1>1, AppendProperties
<1>4. SideOf(k, e, p, c2, d, wp) = SideOf(k, e, p, c, d, wp)
  BY <1>2 DEF SideOf, RdOf, PutOf, AsksOf, WriterOf
<1>5. SideOf(k, p, e, d, c2, we2) = SideOf(k, p, e, d, c, we)
  <2>1. TlOf(k, e, c) = c.out /\ TlOf(k, e, c2) = <<>> /\ RdOf(k, p, d) \in Seq(Unit)
    BY <1>0, <1>2, SideOfType DEF TlOf
  <2>2. c.out \o <<>> = c.out
    BY <1>1, ConcatEmptySeq
  <2>3. OnWay(RdOf(k, p, d), d.in, we2, <<>>) = OnWay(RdOf(k, p, d), d.in, we, c.out)
    <3> DEFINE R == RdOf(k, p, d)
               I == d.in
               f == c.out
    <3>1. R \in Seq(Unit) /\ I \in Seq(Unit) /\ f \in Seq(Unit) /\ f \o <<>> = f
      BY <1>1, <2>1, <2>2
    <3>2. OnWay(R, I, Append(we, f), <<>>) = OnWay(R, I, we, f)
      <4> HIDE DEF R, I, f
      <4> QED BY <1>0, <1>1, <3>1, WayEmpty
    <3> QED BY <3>1, <3>2
  <2> QED BY <2>1, <2>3 DEF SideOf
<1>6. Local(k, e, p, c2, we2)
  <2>1. Sound(k, e, p, c) => Sound(k, e, p, c2)
    BY <1>2, SoundSame, Zenon
  <2>2. OneMessage(c2.out)
    BY <1>2 DEF OneMessage
  <2>3. \A i \in 1..Len(we2) : OneMessage(we2[i])
    <3>1. OneMessage(c.out) /\ \A i \in 1..Len(we) : OneMessage(we[i])
      BY <1>0 DEF Local
    <3>2. Len(we2) = Len(we) + 1 /\ Len(we) \in Nat
          /\ \A i \in 1..Len(we2) : we2[i] = IF i <= Len(we) THEN we[i] ELSE c.out
      BY <1>0, <1>1
    <3> HIDE DEF we2
    <3> QED BY <3>1, <3>2
  <2> QED BY <1>0, <1>2, <2>1, <2>2, <2>3 DEF Local
<1>7. Good(k, e, p, c2, d, we2, wp)
  BY <1>0, <1>2, <1>3, <1>4, <1>5, <1>6, GoodUnseen DEF Unseen
<1> QED BY <1>7 DEF c2

(* A writer prepares its message. *)
LEMMA GoodOwn ==
  ASSUME NEW k, NEW e, NEW p, NEW c, NEW d, NEW we, NEW wp, Good(k, e, p, c, d, we, wp),
         e \notin k.foreign, ~c.failed, WriterOf(k, e, c),
         NEW c2 \in Connection, Own(k.script, c2),
         c2.msg = c.msg, c2.read = c.read, c2.out = c.out, c2.in = c.in, c2.status = c.status,
         c2.hash = c.hash, c2.failed = c.failed
  PROVE  Good(k, e, p, c2, d, we, wp)
<1>0. /\ we \in Seq(Seq(Unit)) /\ wp \in Seq(Seq(Unit))
      /\ Local(k, e, p, c, we) /\ Local(k, p, e, d, wp)
  BY DEF Good
<1>1. WriterOf(k, e, c2)
  BY DEF WriterOf
<1>2. SideOf(k, e, p, c2, d, wp) = SideOf(k, e, p, c, d, wp)
  BY <1>1 DEF SideOf, RdOf, PutOf, AsksOf
<1>3. SideOf(k, p, e, d, c2, we) = SideOf(k, p, e, d, c, we)
  BY DEF SideOf, TlOf
<1>4. Sound(k, e, p, c)
  BY <1>0 DEF Local
<1>5. Sound(k, e, p, c2)
  BY <1>1, <1>4 DEF Sound
<1>6. Local(k, e, p, c2, we)
  BY <1>0, <1>5 DEF Local
<1> QED BY <1>0, <1>2, <1>3, <1>6, GoodUnseen DEF Unseen

(* The message of a writer and its header. *)
LEMMA OwnUnits ==
  ASSUME NEW k \in Scenarios, NEW e, NEW c \in Connection,
         c.msg \in 1..(Len(k.script) + 1), WriterOf(k, e, c)
  PROVE  /\ c.msg \in 1..Len(k.script) /\ UnitsOf(k.script, c.msg) \in Seq(Unit)
         /\ Len(UnitsOf(k.script, c.msg)) = LenOf(k.script, c.msg)
         /\ LenOf(k.script, c.msg) \in Nat /\ LenOf(k.script, c.msg) >= 1
         /\ SubSeq(UnitsOf(k.script, c.msg), 1, HeaderLength) \in Seq(Unit)
<1>1. k.script \in Seq(ScriptEntry) /\ Len(k.script) \in Nat /\ c.msg \in Nat
  BY ScenarioType, ConnType
<1>2. c.msg \in 1..Len(k.script) /\ c.msg \in 0..Len(k.script)
  BY <1>1 DEF WriterOf
<1> DEFINE U == UnitsOf(k.script, c.msg)
           l == LenOf(k.script, c.msg)
<1>3. /\ l \in Nat /\ l >= 1 /\ l >= HeaderLength /\ HeaderLength \in Nat
      /\ U \in Seq(Unit) /\ Len(U) = l
  BY <1>1, <1>2, LenOfType, UnitsOfType, BoundAssumption
<1>4. SubSeq(U, 1, HeaderLength) \in Seq(Unit)
  <2> HIDE DEF U, l
  <2>1. \A i \in 1..HeaderLength : U[i] \in Unit
    BY <1>3
  <2> QED BY <1>3, <2>1
<1> QED BY <1>2, <1>3, <1>4

LEMMA GoodPopulate ==
  ASSUME NEW k, NEW e, NEW p, NEW c, NEW d, NEW we, NEW wp, Good(k, e, p, c, d, we, wp),
         e \notin k.foreign, ~c.failed, WriterOf(k, e, c), ~c.paused, c.wiped
  PROVE  /\ Good(k, e, p, [c EXCEPT !.io = UnitsOf(k.script, c.msg), !.wiped = FALSE], d, we, wp)
         /\ Good(k, e, p, [c EXCEPT !.io = SubSeq(UnitsOf(k.script, c.msg), 1, HeaderLength),
                                    !.wiped = FALSE, !.async = "INVOKED_WAITING",
                                    !.paused = TRUE], d, we, wp)
<1>0. /\ k \in Scenarios /\ c \in Connection /\ c.msg \in 1..(Len(k.script) + 1)
      /\ Local(k, e, p, c, we)
  BY DEF Good
<1>1. Own(k.script, c)
  BY <1>0 DEF Local, Sound
<1>2. c.in = <<>> /\ c.read = 0
  BY <1>1 DEF Own
<1> DEFINE U == UnitsOf(k.script, c.msg)
           H == SubSeq(U, 1, HeaderLength)
<1>3. U \in Seq(Unit) /\ H \in Seq(Unit) /\ Len(U) \in Nat
  BY <1>0, OwnUnits
<1> HIDE DEF H
<1>4. Good(k, e, p, [c EXCEPT !.io = U, !.wiped = FALSE], d, we, wp)
  <2> DEFINE c2 == [c EXCEPT !.io = U, !.wiped = FALSE]
  <2> HIDE DEF U
  <2>1. /\ c2 \in Connection /\ c2.msg = c.msg /\ c2.io = U /\ c2.read = c.read
        /\ ~c2.wiped /\ c2.out = c.out /\ c2.in = c.in /\ c2.status = c.status
        /\ c2.paused = c.paused /\ c2.hash = c.hash /\ c2.failed = c.failed
    BY <1>0, <1>3 DEF Connection, Unit
  <2> HIDE DEF c2
  <2>2. Own(k.script, c2)
    BY <1>2, <1>3, <2>1 DEF Own, U
  <2>3. Good(k, e, p, c2, d, we, wp)
    BY <2>1, <2>2, GoodOwn
  <2> QED BY <2>3 DEF c2
<1>5. Good(k, e, p, [c EXCEPT !.io = H, !.wiped = FALSE, !.async = "INVOKED_WAITING",
                              !.paused = TRUE], d, we, wp)
  <2> DEFINE c2 == [c EXCEPT !.io = H, !.wiped = FALSE, !.async = "INVOKED_WAITING",
                             !.paused = TRUE]
  <2>1. /\ c2 \in Connection /\ c2.msg = c.msg /\ c2.io = H /\ c2.read = c.read
        /\ ~c2.wiped /\ c2.out = c.out /\ c2.in = c.in /\ c2.status = c.status
        /\ c2.paused /\ c2.hash = c.hash /\ c2.failed = c.failed
    BY <1>0, <1>3 DEF Connection, Unit
  <2> HIDE DEF c2
  <2>2. Own(k.script, c2)
    BY <1>2, <1>3, <2>1 DEF Own, H
  <2>3. Good(k, e, p, c2, d, we, wp)
    BY <2>1, <2>2, GoodOwn
  <2> QED BY <2>3 DEF c2
<1> QED BY <1>4, <1>5 DEF H

LEMMA GoodRetryWriter ==
  ASSUME NEW k, NEW e, NEW p, NEW c, NEW d, NEW we, NEW wp, Good(k, e, p, c, d, we, wp),
         e \notin k.foreign, ~c.failed, WriterOf(k, e, c), c.paused
  PROVE  Good(k, e, p, [c EXCEPT !.io = UnitsOf(k.script, c.msg), !.wiped = FALSE,
                                 !.async = "NOT_INVOKED", !.paused = FALSE], d, we, wp)
<1>0. /\ k \in Scenarios /\ c \in Connection /\ c.msg \in 1..(Len(k.script) + 1)
      /\ Local(k, e, p, c, we)
  BY DEF Good
<1>1. Own(k.script, c)
  BY <1>0 DEF Local, Sound
<1>2. c.in = <<>> /\ c.read = 0
  BY <1>1 DEF Own
<1> DEFINE U == UnitsOf(k.script, c.msg)
           c2 == [c EXCEPT !.io = U, !.wiped = FALSE, !.async = "NOT_INVOKED", !.paused = FALSE]
<1>3. U \in Seq(Unit) /\ Len(U) \in Nat
  BY <1>0, OwnUnits
<1>4. /\ c2 \in Connection /\ c2.msg = c.msg /\ c2.io = U /\ c2.read = c.read
      /\ ~c2.wiped /\ c2.out = c.out /\ c2.in = c.in /\ c2.status = c.status
      /\ ~c2.paused /\ c2.hash = c.hash /\ c2.failed = c.failed
  <2> HIDE DEF U
  <2> QED BY <1>0, <1>3 DEF Connection, Unit
<1> HIDE DEF c2
<1>5. Own(k.script, c2)
  BY <1>2, <1>3, <1>4 DEF Own
<1>6. Good(k, e, p, c2, d, we, wp)
  BY <1>4, <1>5, GoodOwn
<1> QED BY <1>6 DEF c2

LEMMA GoodAsync ==
  ASSUME NEW k, NEW e, NEW p, NEW c, NEW d, NEW we, NEW wp, Good(k, e, p, c, d, we, wp),
         c.async = "INVOKED_WAITING"
  PROVE  Good(k, e, p, [c EXCEPT !.async = "INVOKED_COMPLETE"], d, we, wp)
<1> DEFINE c2 == [c EXCEPT !.async = "INVOKED_COMPLETE"]
<1>0. /\ c \in Connection /\ we \in Seq(Seq(Unit)) /\ wp \in Seq(Seq(Unit))
      /\ Local(k, e, p, c, we) /\ Local(k, p, e, d, wp)
  BY DEF Good
<1>1. e \notin k.foreign
  BY <1>0 DEF Local
<1>2. /\ c2 \in Connection /\ c2.msg = c.msg /\ c2.io = c.io /\ c2.read = c.read
      /\ c2.wiped = c.wiped /\ c2.out = c.out /\ c2.in = c.in /\ c2.status = c.status
      /\ c2.looping = c.looping /\ c2.paused = c.paused
      /\ c2.hash = c.hash /\ c2.failed = c.failed
  BY <1>0 DEF Connection
<1> HIDE DEF c2
<1>3. SideOf(k, e, p, c2, d, wp) = SideOf(k, e, p, c, d, wp)
  BY <1>2 DEF SideOf, RdOf, PutOf, AsksOf, WriterOf
<1>4. SideOf(k, p, e, d, c2, we) = SideOf(k, p, e, d, c, we)
  BY <1>2 DEF SideOf, TlOf
<1>5. Sound(k, e, p, c) => Sound(k, e, p, c2)
  BY <1>2, SoundSame, Zenon
<1>6. Local(k, e, p, c2, we)
  BY <1>0, <1>1, <1>2, <1>5 DEF Local
<1>7. Good(k, e, p, c2, d, we, wp)
  BY <1>0, <1>2, <1>3, <1>4, <1>6, GoodUnseen DEF Unseen
<1> QED BY <1>7 DEF c2

LEMMA GoodBy ==
  ASSUME NEW k, NEW e, NEW p, NEW c, NEW d, NEW we, NEW wp, Good(k, e, p, c, d, we, wp),
         NEW c2 \in Connection, c2.msg \in 1..(Len(k.script) + 1),
         NEW we2 \in Seq(Seq(Unit)), NEW wp2 \in Seq(Seq(Unit)),
         Pair(k.script, e, p, SideOf(k, e, p, c2, d, wp2), SideOf(k, p, e, d, c2, we2)),
         Local(k, e, p, c2, we2), Local(k, p, e, d, wp2)
  PROVE  Good(k, e, p, c2, d, we2, wp2)
BY DEF Good

(* The fields of a side. *)
LEMMA SideFields ==
  ASSUME NEW k, NEW e, NEW p, NEW c, NEW d, NEW w
  PROVE  LET x == SideOf(k, e, p, c, d, w) IN
         /\ x.S = OnWay(RdOf(k, e, c), c.in, w, TlOf(k, p, d)) /\ x.n = c.msg
         /\ x.r = PutOf(k, e, c) /\ x.w = AsksOf(k, e, c) /\ x.h = c.hash /\ x.f = c.failed
BY DEF SideOf

LEMMA GoodWrite ==
  ASSUME NEW k, NEW e, NEW p, e # p, NEW c, NEW d, NEW we, NEW wp, Good(k, e, p, c, d, we, wp),
         e \notin k.foreign, ~c.failed, WriterOf(k, e, c), ~c.paused,
         c.read < Len(c.io), c.out = <<>>
  PROVE  Good(k, e, p, [c EXCEPT !.out = Fragment(c), !.read = c.read + Len(Fragment(c)),
                                 !.hash = c.hash \o Fragment(c)], d, we, wp)
<1> DEFINE s == k.script
           U == UnitsOf(s, c.msg)
           l == LenOf(s, c.msg)
           f == Fragment(c)
           b == IF Len(c.io) - c.read > MaxFragment THEN c.read + MaxFragment ELSE Len(c.io)
           c2 == [c EXCEPT !.out = f, !.read = c.read + Len(f), !.hash = c.hash \o f]
<1>0. /\ k \in Scenarios /\ c \in Connection /\ d \in Connection /\ c.msg \in 1..(Len(s) + 1)
      /\ we \in Seq(Seq(Unit)) /\ wp \in Seq(Seq(Unit))
      /\ Local(k, e, p, c, we) /\ Local(k, p, e, d, wp)
      /\ Pair(s, e, p, SideOf(k, e, p, c, d, wp), SideOf(k, p, e, d, c, we))
  BY DEF Good
<1>1. /\ s \in Seq(ScriptEntry) /\ c.read \in Nat /\ c.hash \in Seq(Unit) /\ d.in \in Seq(Unit)
      /\ RdOf(k, p, d) \in Seq(Unit) /\ c.msg \in Nat
  BY <1>0, ScenarioType, ConnType, SideOfType
<1>2. /\ c.msg \in 1..Len(s) /\ U \in Seq(Unit) /\ Len(U) = l /\ l \in Nat /\ c.msg \in 0..Len(s)
  BY <1>0, OwnUnits
<1>3. Sound(k, e, p, c)
  BY <1>0 DEF Local
<1>4. c.in = <<>> /\ c.io = U /\ ~c.wiped
  <2>1. Own(s, c)
    BY <1>3 DEF Sound
  <2>2. ASSUME c.io = <<>> PROVE FALSE
    BY <1>1, <2>2
  <2> QED BY <2>1, <2>2 DEF Own
<1>5. b \in Nat /\ c.read < b /\ b <= l /\ c.read <= b
  <2>1. MaxFragment \in Nat /\ MaxFragment >= 1
    BY BoundAssumption
  <2>2. Len(c.io) = l
    BY <1>2, <1>4
  <2> HIDE DEF l
  <2> QED BY <1>1, <1>2, <2>1, <2>2
<1>6. f = SubSeq(U, c.read + 1, b)
  BY <1>4 DEF Fragment
<1>7. /\ f \in Seq(Unit) /\ Len(f) = b - c.read /\ \A i \in 1..(b - c.read) : f[i] = <<c.msg, c.read + i>>
  <2> DEFINE m == c.msg
             a == c.read
             F == SubSeq(UnitsOf(s, m), a + 1, b)
  <2>1. /\ s \in Seq(ScriptEntry) /\ m \in 0..Len(s) /\ a \in Nat /\ b \in Nat
        /\ a <= b /\ b <= LenOf(s, m)
    BY <1>1, <1>2, <1>5
  <2>2. F \in Seq(Unit) /\ Len(F) = b - a /\ \A i \in 1..(b-a) : F[i] = <<m, a + i>>
    <3> HIDE DEF b, m, a, s
    <3>1. IsPart(s, m, a, b, F)
      BY <2>1, PartOf
    <3> QED BY <3>1 DEF IsPart
  <2>3. f = F
    BY <1>6
  <2> HIDE DEF F
  <2> QED BY <2>2, <2>3
<1> HIDE DEF b, f
<1>8. c.read + Len(f) = b
  BY <1>1, <1>5, <1>7
<1>9. c.hash \o f \in Seq(Unit)
  BY <1>1, <1>7, ConcatProperties
<1>10. /\ c2 \in Connection /\ c2.msg = c.msg /\ c2.io = c.io /\ c2.read = b
       /\ c2.wiped = c.wiped /\ c2.out = f /\ c2.in = c.in /\ c2.status = c.status
       /\ c2.looping = c.looping /\ c2.paused = c.paused /\ c2.async = c.async
       /\ c2.hash = c.hash \o f /\ c2.failed = c.failed
  BY <1>0, <1>5, <1>7, <1>8, <1>9 DEF Connection, Unit
<1> HIDE DEF c2
<1>11. WriterOf(k, e, c2)
  BY <1>10 DEF WriterOf
<1> DEFINE x == SideOf(k, e, p, c, d, wp)
           y == SideOf(k, p, e, d, c, we)
           x2 == SideOf(k, e, p, c2, d, wp)
           y2 == SideOf(k, p, e, d, c2, we)
<1>12. x2 \in Side /\ y2 \in Side
  BY <1>0, <1>10, SideOfType
<1>13. /\ x.r = c.read /\ x.n = c.msg /\ ~x.w /\ ~x.f /\ x2.r = b /\ x2.n = c.msg /\ ~x2.w
       /\ x2.f = x.f /\ x2.h = x.h \o f /\ x2.S = x.S /\ x2.w = x.w
  BY <1>10, <1>11 DEF SideOf, RdOf, PutOf, AsksOf
<1>14. y2.S = y.S \o f
  <2> DEFINE R == RdOf(k, p, d)
             I == d.in
  <2>1. R \in Seq(Unit) /\ I \in Seq(Unit)
    BY <1>1
  <2>2. OnWay(R, I, we, f) = OnWay(R, I, we, <<>>) \o f
    <3> HIDE DEF R, I
    <3> QED BY <1>0, <1>7, <2>1, WayEmpty
  <2>3. y.S = OnWay(R, I, we, <<>>) /\ y2.S = OnWay(R, I, we, f)
    BY <1>10 DEF SideOf, TlOf
  <2> QED BY <2>2, <2>3
<1>15. y2.n = y.n /\ y2.r = y.r /\ y2.w = y.w /\ y2.h = y.h /\ y2.f = y.f
  BY DEF SideOf
<1> HIDE DEF x, y, x2, y2
<1>16. Sends(s, e, x, y, x2, y2, b)
  <2>1. Writes(s, e, x)
    BY <1>2, <1>13 DEF Writes, WriterOf
  <2>2. Gains(y, y2, SubSeq(UnitsOf(s, x.n), x.r + 1, b))
    BY <1>6, <1>12, <1>13, <1>14, <1>15 DEF Gains
  <2> QED BY <1>5, <1>6, <1>12, <1>13, <2>1, <2>2 DEF Sends
<1>17. Pair(s, e, p, x2, y2)
  <2>1. Pair(s, e, p, x, y)
    BY <1>0 DEF x, y
  <2> QED BY <1>1, <1>16, <2>1, PairSend
<1>18. OneMessage(f)
  <2>1. \A i \in 1..Len(f) : f[i][1] = c.msg
    BY <1>7
  <2> QED BY <2>1 DEF OneMessage
<1>19. c2.hash = UpTo(s, c.msg - 1) \o SubSeq(U, 1, b)
  <2> DEFINE t == UpTo(s, c.msg - 1)
             a == SubSeq(U, 1, c.read)
  <2>1. c.hash = t \o a
    BY <1>3 DEF Sound
  <2>2. t \in Seq(Unit)
    BY <1>1, <1>2, UpToPart
  <2>3. a \in Seq(Unit)
    <3> HIDE DEF U, l
    <3> QED BY <1>1, <1>2, <1>5
  <2>4. a \o f = SubSeq(U, 1, b)
    <3> DEFINE r == c.read
    <3>1. 1 \in 1..(Len(U) + 1) /\ r \in (1-1)..Len(U) /\ b \in r..Len(U)
      <4> HIDE DEF U, l
      <4> QED BY <1>1, <1>2, <1>5
    <3>2. SubSeq(U, 1, r) \o SubSeq(U, r + 1, b) = SubSeq(U, 1, b)
      <4> HIDE DEF U, r
      <4> QED BY <1>2, <3>1, ConcatAdjacentSubSeq
    <3> QED BY <1>6, <3>2
  <2>5. \A i, j, h \in Seq(Unit) : (i \o j) \o h = i \o (j \o h)
    BY UnitConcat
  <2>6. (t \o a) \o f = t \o (a \o f)
    <3> HIDE DEF t, a
    <3> QED BY <1>7, <2>2, <2>3, <2>5, Zenon
  <2> QED BY <1>10, <2>1, <2>4, <2>6
<1>20. Sound(k, e, p, c2)
  <2>1. Own(s, c2)
    <3>1. b \in 0..Len(c2.io)
      BY <1>2, <1>4, <1>5, <1>10
    <3> QED BY <1>4, <1>10, <3>1 DEF Own
  <2> QED BY <1>3, <1>4, <1>10, <1>11, <1>19, <2>1 DEF Sound
<1>21. Local(k, e, p, c2, we)
  BY <1>0, <1>10, <1>18, <1>20 DEF Local
<1>22. Good(k, e, p, c2, d, we, wp)
  BY <1>0, <1>10, <1>17, <1>21, GoodBy DEF x2, y2
<1> QED BY <1>22 DEF c2, f

LEMMA GoodFinish ==
  ASSUME NEW k, NEW e, NEW p, e # p, NEW c, NEW d, NEW we, NEW wp, Good(k, e, p, c, d, we, wp),
         e \notin k.foreign, ~c.failed, WriterOf(k, e, c), ~c.paused, ~c.wiped,
         c.read = Len(c.io)
  PROVE  Good(k, e, p, [c EXCEPT !.io = <<>>, !.read = 0, !.wiped = TRUE, !.msg = c.msg + 1],
              d, we, wp)
<1> DEFINE s == k.script
           U == UnitsOf(s, c.msg)
           l == LenOf(s, c.msg)
           c2 == [c EXCEPT !.io = <<>>, !.read = 0, !.wiped = TRUE, !.msg = c.msg + 1]
<1>0. /\ k \in Scenarios /\ c \in Connection /\ d \in Connection /\ c.msg \in 1..(Len(s) + 1)
      /\ we \in Seq(Seq(Unit)) /\ wp \in Seq(Seq(Unit))
      /\ Local(k, e, p, c, we) /\ Local(k, p, e, d, wp)
      /\ Pair(s, e, p, SideOf(k, e, p, c, d, wp), SideOf(k, p, e, d, c, we))
  BY DEF Good
<1>1. /\ s \in Seq(ScriptEntry) /\ c.msg \in Nat /\ <<>> \in Seq(Unit) /\ Len(s) \in Nat
  BY <1>0, ScenarioType, ConnType, EmptySeq
<1>2. /\ c.msg \in 1..Len(s) /\ U \in Seq(Unit) /\ Len(U) = l /\ l \in Nat
  BY <1>0, OwnUnits
<1>3. Sound(k, e, p, c)
  BY <1>0 DEF Local
<1>4. c.in = <<>> /\ c.io = U /\ c.read = l
  <2>1. Own(s, c)
    BY <1>3 DEF Sound
  <2> QED BY <1>2, <2>1 DEF Own
<1>5. /\ c2 \in Connection /\ c2.msg = c.msg + 1 /\ c2.io = <<>> /\ c2.read = 0
      /\ c2.wiped /\ c2.out = c.out /\ c2.in = <<>> /\ c2.status = c.status
      /\ c2.looping = c.looping /\ ~c2.paused /\ c2.async = c.async
      /\ c2.hash = c.hash /\ c2.failed = c.failed
  <2>1. c.msg + 1 \in Nat /\ 0 \in Nat /\ <<>> \in Seq(Nat \X Nat) /\ c.in = <<>>
    BY <1>1, <1>4 DEF Unit
  <2>2. c2 \in Connection
    BY <1>0, <2>1 DEF Connection
  <2> QED BY <1>0, <2>1, <2>2 DEF Connection
<1> HIDE DEF c2
<1>6. c2.msg \in 1..(Len(s) + 1) /\ c2.msg - 1 = c.msg
  BY <1>1, <1>2, <1>5
<1> DEFINE x == SideOf(k, e, p, c, d, wp)
           y == SideOf(k, p, e, d, c, we)
           x2 == SideOf(k, e, p, c2, d, wp)
           y2 == SideOf(k, p, e, d, c2, we)
<1>7. x2 \in Side
  BY <1>0, <1>5, SideOfType
<1>8. y2 = y
  BY <1>5 DEF SideOf, TlOf
<1>9. /\ x.r = l /\ x.n = c.msg /\ ~x.w /\ ~x.f /\ x2.r = 0 /\ x2.n = c.msg + 1 /\ ~x2.w
      /\ x2.f = x.f /\ x2.h = x.h /\ x2.S = x.S /\ x2.w = x.w
  <2>1. RdOf(k, e, c) = <<>> /\ RdOf(k, e, c2) = <<>>
    BY <1>5 DEF RdOf
  <2>2. PutOf(k, e, c) = l /\ PutOf(k, e, c2) = 0
    BY <1>4, <1>5 DEF PutOf
  <2>3. AsksOf(k, e, c) = FALSE /\ AsksOf(k, e, c2) = FALSE
    BY DEF AsksOf
  <2> HIDE DEF l
  <2> QED BY <1>4, <1>5, <2>1, <2>2, <2>3 DEF SideOf
<1> HIDE DEF x, y, x2, y2
<1>10. Advances(s, e, x, x2)
  <2>1. Writes(s, e, x)
    BY <1>2, <1>9 DEF Writes, WriterOf
  <2> QED BY <1>7, <1>9, <2>1 DEF Advances
<1>11. Pair(s, e, p, x2, y2)
  <2>1. Pair(s, e, p, x, y)
    BY <1>0 DEF x, y
  <2> QED BY <1>1, <1>8, <1>10, <2>1, PairAdvance
<1>12. c2.hash = UpTo(s, c2.msg - 1)
  BY <1>1, <1>2, <1>3, <1>4, <1>5, <1>6, UpToPart DEF Sound
<1>13. Sound(k, e, p, c2)
  <2>1. WriterOf(k, e, c2) => Own(s, c2) /\ c2.hash = UpTo(s, c2.msg - 1) \o SubSeq(UnitsOf(s, c2.msg), 1, c2.read)
    <3> SUFFICES ASSUME WriterOf(k, e, c2)
                 PROVE  Own(s, c2) /\ c2.hash = UpTo(s, c2.msg - 1) \o SubSeq(UnitsOf(s, c2.msg), 1, 0)
      BY <1>5
    <3>1. c2.msg \in 1..Len(s)
      BY <1>0, <1>5, <1>6, OwnUnits
    <3>2. UpTo(s, c2.msg - 1) \o SubSeq(UnitsOf(s, c2.msg), 1, 0) = UpTo(s, c2.msg - 1)
      BY <1>1, <3>1, UpToPart
    <3> QED BY <1>5, <1>12, <3>2 DEF Own
  <2>2. Reads(k, p, c2)
    <3>1. c2.io \o c2.in = <<>>
      BY <1>1, <1>5, ConcatEmptySeq
    <3> QED BY <1>5, <3>1 DEF Reads, OneMessage
  <2> QED BY <1>5, <1>12, <2>1, <2>2 DEF Sound
<1>14. Local(k, e, p, c2, we)
  BY <1>0, <1>5, <1>13 DEF Local
<1>15. Good(k, e, p, c2, d, we, wp)
  BY <1>0, <1>5, <1>6, <1>11, <1>14, GoodBy DEF x2, y2
<1> QED BY <1>15 DEF c2

(* The parts of a record that holds units of one message do so too. *)
LEMMA OnePart ==
  ASSUME NEW A \in Seq(Unit), NEW B \in Seq(Unit), OneMessage(A \o B)
  PROVE  OneMessage(A) /\ OneMessage(B)
<1> DEFINE Z == A \o B
           a == Len(A)
           b == Len(B)
<1>1. /\ Len(Z) = a + b /\ a \in Nat /\ b \in Nat
      /\ \A i \in 1..(a + b) : Z[i] = IF i <= a THEN A[i] ELSE B[i - a]
  BY ConcatProperties
<1>2. OneMessage(Z)
  OBVIOUS
<1> HIDE DEF Z, a, b
<1>3. ASSUME NEW i \in 1..a, NEW j \in 1..a PROVE A[i][1] = A[j][1]
  <2>1. i \in 1..(a+b) /\ j \in 1..(a+b) /\ i <= a /\ j <= a
    BY <1>1
  <2>2. Z[i] = A[i] /\ Z[j] = A[j]
    BY <1>1, <2>1
  <2> QED BY <1>1, <1>2, <2>1, <2>2 DEF OneMessage
<1>4. ASSUME NEW i \in 1..b, NEW j \in 1..b PROVE B[i][1] = B[j][1]
  <2>1. /\ a + i \in 1..(a+b) /\ a + j \in 1..(a+b) /\ ~(a + i <= a) /\ ~(a + j <= a)
        /\ (a + i) - a = i /\ (a + j) - a = j
    BY <1>1
  <2>2. Z[a + i] = B[i] /\ Z[a + j] = B[j]
    BY <1>1, <2>1
  <2> QED BY <1>1, <1>2, <2>1, <2>2 DEF OneMessage
<1> QED BY <1>3, <1>4 DEF OneMessage, a, b

(* A record of one message continues the message that has begun. *)
LEMMA OneJoin ==
  ASSUME NEW s \in Seq(ScriptEntry), NEW A \in Seq(Unit), NEW B \in Seq(Unit), NEW Y \in Seq(Unit),
         WellCut(s, (A \o B) \o Y), OneMessage(B),
         A # <<>> => Len(A) < LenOf(s, A[1][1])
  PROVE  OneMessage(A \o B)
<1> DEFINE Z == A \o B
           S == Z \o Y
           a == Len(A)
           b == Len(B)
           m == A[1][1]
<1>0. Z \in Seq(Unit)
  BY ConcatProperties
<1>1. /\ Len(Z) = a + b /\ a \in Nat /\ b \in Nat
      /\ \A i \in 1..(a + b) : Z[i] = IF i <= a THEN A[i] ELSE B[i - a]
  BY ConcatProperties
<1>2. /\ S \in Seq(Unit) /\ Len(S) = Len(Z) + Len(Y) /\ Len(Y) \in Nat
      /\ \A i \in 1..(Len(Z) + Len(Y)) : S[i] = IF i <= Len(Z) THEN Z[i] ELSE Y[i - Len(Z)]
  <2> HIDE DEF Z
  <2> QED BY <1>0, ConcatProperties
<1>3. WellCut(s, S)
  OBVIOUS
<1>4. a = 0 \/ a < LenOf(s, m)
  BY EmptySeq
<1> HIDE DEF Z, S
<1>5. \A i \in 1..(a+b) : i \in 1..Len(S) /\ S[i] = Z[i]
  BY <1>1, <1>2
<1>6. CASE a = 0
  <2>1. \A i \in 1..b : Z[i] = B[i]
    <3> HIDE DEF a, b
    <3> QED BY <1>1, <1>6
  <2>2. Len(Z) = b
    BY <1>1, <1>6
  <2> QED BY <2>1, <2>2 DEF OneMessage, Z
<1>7. CASE a # 0 /\ b = 0
  <2>1. A = Z
    <3>1. \A i \in 1..a : Z[i] = A[i]
      <4> HIDE DEF a, b
      <4> QED BY <1>1, <1>7
    <3>2. Len(Z) = Len(A)
      BY <1>1, <1>7
    <3> QED BY <1>0, <3>1, <3>2, SeqEqual
  <2>2. S[1] = Z[1] /\ Z[1] = A[1] /\ a \in 1..Len(S)
    <3> HIDE DEF a, b
    <3> QED BY <1>1, <1>5, <1>7
  <2>3. a <= LenOf(s, S[1][1])
    <3>1. m \in Nat /\ S[1][1] = m
      <4>1. 1 \in 1..Len(S)
        BY <1>2, <2>2
      <4>2. S[1][1] \in Nat
        BY <1>2, <1>3, <4>1, CutUnits
      <4> QED BY <2>2, <4>2
    <3>2. LenOf(s, S[1][1]) \in Nat
      <4>1. 1 \in 1..Len(S)
        BY <1>2, <2>2
      <4> QED BY <1>2, <1>3, <4>1, CutUnits
    <3> QED BY <1>1, <1>4, <1>7, <3>1, <3>2
  <2>4. \A i \in 1..a : S[i] = <<S[1][1], i>>
    BY <1>2, <1>3, <2>2, <2>3, FirstMessage
  <2>5. \A i \in 1..a : Z[i][1] = S[1][1]
    <3> HIDE DEF a, b
    <3> QED BY <1>1, <1>5, <1>7, <2>4
  <2>6. Len(Z) = a
    BY <1>1, <1>7
  <2>7. OneMessage(Z)
    BY <2>5, <2>6 DEF OneMessage
  <2> QED BY <2>7 DEF Z
<1>8. CASE a # 0 /\ b # 0
  <2> DEFINE n == a + 1
  <2>2. S[1] = Z[1] /\ Z[1] = A[1] /\ n \in 1..Len(S) /\ n \in 1..(a+b) /\ 1 \in 1..Len(S)
    <3> HIDE DEF a, b
    <3> QED BY <1>1, <1>5, <1>8
  <2>1. LenOf(s, S[1][1]) \in Nat /\ S[1][1] = m
    BY <1>2, <1>3, <2>2, CutUnits
  <2>3. n <= LenOf(s, S[1][1])
    <3> DEFINE l == LenOf(s, m)
    <3>1. a \in Nat /\ l \in Nat /\ a < l
      BY <1>1, <1>4, <1>8, <2>1
    <3>2. a + 1 <= l
      <4> HIDE DEF a, l
      <4> QED BY <3>1
    <3> QED BY <2>1, <3>2
  <2>4. \A i \in 1..n : S[i] = <<S[1][1], i>>
    <3> HIDE DEF n
    <3> QED BY <1>2, <1>3, <2>2, <2>3, FirstMessage
  <2>5. \A i \in 1..n : Z[i][1] = m
    <3>1. \A i \in 1..n : i \in 1..(a+b)
      <4> HIDE DEF a, b
      <4> QED BY <1>1, <1>8
    <3> QED BY <1>5, <2>1, <2>4, <3>1
  <2>6. B[1][1] = m /\ 1 \in 1..b
    <3>1. n \in 1..n /\ ~(n <= a) /\ n - a = 1 /\ n \in 1..(a+b) /\ 1 \in 1..b
      <4> HIDE DEF a, b
      <4> QED BY <1>1, <1>8
    <3>2. Z[n] = B[1]
      <4> HIDE DEF n
      <4> QED BY <1>1, <3>1
    <3> QED BY <2>5, <3>1, <3>2
  <2>7. ASSUME NEW i \in 1..(a+b) PROVE Z[i][1] = m
    <3>1. CASE i <= a
      <4>1. i \in 1..n
        <5> HIDE DEF a, b
        <5> QED BY <1>1, <3>1
      <4> QED BY <2>5, <4>1
    <3>2. CASE ~(i <= a)
      <4>1. i - a \in 1..b
        <5> HIDE DEF a, b
        <5> QED BY <1>1, <3>2
      <4>2. Z[i] = B[i - a]
        BY <1>1, <3>2
      <4>3. B[i - a][1] = B[1][1]
        BY <2>6, <4>1 DEF OneMessage
      <4> QED BY <2>6, <4>2, <4>3
    <3> QED BY <3>1, <3>2
  <2>8. OneMessage(Z)
    BY <1>1, <2>7 DEF OneMessage
  <2> QED BY <2>8 DEF Z
<1> QED BY <1>6, <1>7, <1>8

(* A whole message with nothing else of a record of one message. *)
LEMMA OneWhole ==
  ASSUME NEW s \in Seq(ScriptEntry), NEW m \in 1..Len(s), NEW B \in Seq(Unit), NEW Y \in Seq(Unit),
         WellCut(s, (UnitsOf(s, m) \o B) \o Y), Ordered((UnitsOf(s, m) \o B) \o Y),
         OneMessage(UnitsOf(s, m) \o B)
  PROVE  B = <<>>
<1> DEFINE U == UnitsOf(s, m)
           l == LenOf(s, m)
           Z == U \o B
           S == Z \o Y
           b == Len(B)
<1>1. m \in 0..Len(s) /\ m \in Nat /\ m # 0
  OBVIOUS
<1>2. l \in Nat /\ l >= 1 /\ U \in Seq(Unit) /\ Len(U) = l /\ \A i \in 1..l : U[i] = <<m, i>>
  BY <1>1, LenOfType, UnitsOfType
<1> HIDE DEF U, l
<1>0. U \in Seq(Unit)
  BY <1>2
<1>3. /\ Z \in Seq(Unit) /\ Len(Z) = l + b /\ b \in Nat
      /\ \A i \in 1..(l + b) : Z[i] = IF i <= l THEN U[i] ELSE B[i - l]
  <2>1. /\ Z \in Seq(Unit) /\ Len(Z) = Len(U) + Len(B) /\ b \in Nat
        /\ \A i \in 1..(Len(U) + Len(B)) : Z[i] = IF i <= Len(U) THEN U[i] ELSE B[i - Len(U)]
    BY <1>0, ConcatProperties
  <2> HIDE DEF Z
  <2> QED BY <1>2, <2>1
<1>13. Z \in Seq(Unit)
  BY <1>3
<1>4. /\ S \in Seq(Unit) /\ Len(S) = Len(Z) + Len(Y) /\ Len(Y) \in Nat
      /\ \A i \in 1..(Len(Z) + Len(Y)) : S[i] = IF i <= Len(Z) THEN Z[i] ELSE Y[i - Len(Z)]
  <2> HIDE DEF Z
  <2> QED BY <1>13, ConcatProperties
<1>5. WellCut(s, S) /\ Ordered(S) /\ OneMessage(Z)
  BY DEF U
<1> HIDE DEF Z, S
<1> SUFFICES ASSUME b # 0 PROVE FALSE
  BY EmptySeq
<1> HIDE DEF b
<1>6. /\ l \in 1..(l+b) /\ l + 1 \in 1..(l+b) /\ 1 \in 1..(l+b) /\ l \in 1..(Len(S)-1) /\ 1 < l + 1
      /\ 1 \in 1..Len(S) /\ l + 1 \in 1..Len(S) /\ l <= l /\ l \in 1..l /\ 1 \in 1..l
  BY <1>2, <1>3, <1>4
<1>7. Z[1] = <<m, 1>> /\ Z[l] = <<m, l>>
  BY <1>2, <1>3, <1>6
<1>8. S[1] = Z[1] /\ S[l] = Z[l] /\ S[l+1] = Z[l+1]
  BY <1>3, <1>4, <1>6
<1>9. S[l+1][2] = 1
  <2>1. S[l][2] = LenOf(s, S[l][1])
    BY <1>7, <1>8 DEF l
  <2> QED BY <1>5, <1>6, <2>1 DEF WellCut
<1>10. S[l+1][1] = m
  <2>1. Z[l+1][1] = Z[1][1]
    BY <1>3, <1>5, <1>6 DEF OneMessage
  <2> QED BY <1>7, <1>8, <2>1
<1>11. S[1][1] = m /\ S[1][2] = 1
  BY <1>7, <1>8
<1>12. S[1][1] < S[l+1][1] \/ (S[1][1] = S[l+1][1] /\ S[1][2] < S[l+1][2])
  BY <1>1, <1>5, <1>6, <1>10, <1>11 DEF Ordered
<1> QED BY <1>1, <1>9, <1>10, <1>11, <1>12

-----------------------------------------------------------------------------
(* The reader.                                                             *)

LEMMA GoodFail ==
  ASSUME NEW k, NEW e, NEW p, NEW c, NEW d, NEW we, NEW wp, Good(k, e, p, c, d, we, wp),
         e \notin k.foreign, NEW c2 \in Connection, c2.failed,
         c2.msg = c.msg, c2.read = c.read, c2.out = c.out, c2.hash = c.hash
  PROVE  Good(k, e, p, c2, d, we, wp)
<1>0. /\ we \in Seq(Seq(Unit)) /\ wp \in Seq(Seq(Unit)) /\ d \in Connection
      /\ c2.msg \in 1..(Len(k.script) + 1)
      /\ Local(k, e, p, c, we) /\ Local(k, p, e, d, wp)
      /\ Pair(k.script, e, p, SideOf(k, e, p, c, d, wp), SideOf(k, p, e, d, c, we))
  BY DEF Good
<1> DEFINE x == SideOf(k, e, p, c, d, wp)
           x2 == SideOf(k, e, p, c2, d, wp)
           y == SideOf(k, p, e, d, c, we)
           y2 == SideOf(k, p, e, d, c2, we)
<1>1. y2 = y
  BY DEF SideOf, TlOf
<1>2. x2 \in Side
  BY <1>0, SideOfType
<1>3. Fails(x, x2)
  <2>1. PutOf(k, e, c2) = PutOf(k, e, c) /\ AsksOf(k, e, c2) = AsksOf(k, e, c)
    BY DEF PutOf, AsksOf, WriterOf
  <2>2. x2.f /\ x2.n = x.n /\ x2.r = x.r /\ x2.w = x.w /\ x2.h = x.h
    BY <2>1 DEF SideOf
  <2> HIDE DEF x, x2
  <2> QED BY <1>2, <2>2 DEF Fails
<1> HIDE DEF x, x2, y, y2
<1>4. Pair(k.script, e, p, x2, y2)
  <2>1. Pair(k.script, e, p, x, y)
    BY <1>0 DEF x, y
  <2> QED BY <1>1, <1>3, <2>1, PairFail
<1>5. Local(k, e, p, c2, we)
  BY <1>0 DEF Local
<1> QED BY <1>0, <1>4, <1>5, GoodBy DEF x2, y2

(* What a reader that has not failed reads is cut into messages. *)
Arriving(s, p, z, Y, S) ==
    /\ S = z \o Y /\ z \in Seq(Unit) /\ S \in Seq(Unit)
    /\ WellCut(s, S) /\ Ordered(S)
    /\ \A i \in 1..Len(S) : S[i][1] # 0 => s[S[i][1]].from = p

LEMMA ReaderStream ==
  ASSUME NEW k, NEW e, NEW p, NEW c, NEW d, NEW we, NEW wp, Good(k, e, p, c, d, we, wp),
         e \notin k.foreign, ~c.failed, ~WriterOf(k, e, c)
  PROVE  \E Y \in Seq(Unit) :
            Arriving(k.script, p, c.io \o c.in, Y, OnWay(c.io, c.in, wp, TlOf(k, p, d)))
<1> DEFINE x == SideOf(k, e, p, c, d, wp)
           y == SideOf(k, p, e, d, c, we)
           T == TlOf(k, p, d)
           Y == Rest(wp, T)
           S == (c.io \o c.in) \o Y
<1>0. /\ wp \in Seq(Seq(Unit)) /\ c \in Connection /\ d \in Connection
      /\ Pair(k.script, e, p, x, y)
  BY DEF Good
<1>1. c.io \in Seq(Unit) /\ c.in \in Seq(Unit) /\ T \in Seq(Unit) /\ <<>> \in Seq(Unit)
  BY <1>0, ConnType, SideOfType, EmptySeq
<1>2. x.S = OnWay(c.io, c.in, wp, T) /\ ~x.f
  BY DEF SideOf, RdOf
<1>3. Y \in Seq(Unit)
  <2> HIDE DEF T
  <2> QED BY <1>0, <1>1, RestType, Zenon
<1>4. OnWay(c.io, c.in, wp, T) = S
  <2> DEFINE R == c.io
             I == c.in
  <2>1. R \in Seq(Unit) /\ I \in Seq(Unit)
    BY <1>1
  <2>2. Splits(R, I, wp, T)
    <3> HIDE DEF R, I, T
    <3> QED BY <1>0, <1>1, <2>1, WaySplits
  <2> QED BY <2>2 DEF Splits
<1>5. c.io \o c.in \in Seq(Unit)
  BY <1>1, ConcatProperties
<1>6. S \in Seq(Unit)
  <2> DEFINE Z == c.io \o c.in
  <2>1. Z \in Seq(Unit)
    BY <1>5
  <2>2. Z \o Y \in Seq(Unit)
    <3> HIDE DEF Z, Y
    <3> QED BY <1>3, <2>1, ConcatProperties
  <2> QED BY <2>2
<1> HIDE DEF Y, S, x, y
<1>7. Stream(k.script, S, p, x.n, y.n, y.r, y.w)
  BY <1>0, <1>2, <1>4 DEF Pair, Link
<1>8. WellCut(k.script, S) /\ Ordered(S) /\ \A i \in 1..Len(S) : S[i][1] # 0 => k.script[S[i][1]].from = p
  BY <1>7 DEF Stream, Bounds
<1>9. Arriving(k.script, p, c.io \o c.in, Y, S)
  BY <1>5, <1>6, <1>8 DEF Arriving, S
<1> QED BY <1>3, <1>4, <1>9

LEMMA GoodReadRecord ==
  ASSUME NEW k, NEW e, NEW p, NEW c, NEW d, NEW we, NEW wp, Good(k, e, p, c, d, we, wp),
         e \notin k.foreign, ~c.failed, ~WriterOf(k, e, c), ~c.paused,
         c.status = "ENCRYPTED", wp # <<>>
  PROVE  Good(k, e, p, [c EXCEPT !.in = Head(wp), !.status = "PLAINTEXT", !.looping = TRUE],
              d, we, Tail(wp))
<1> DEFINE c2 == [c EXCEPT !.in = Head(wp), !.status = "PLAINTEXT", !.looping = TRUE]
           T == TlOf(k, p, d)
<1>0. /\ we \in Seq(Seq(Unit)) /\ wp \in Seq(Seq(Unit)) /\ c \in Connection /\ d \in Connection
      /\ k \in Scenarios /\ Local(k, e, p, c, we) /\ Local(k, p, e, d, wp)
  BY DEF Good
<1>1. /\ c.io \in Seq(Unit) /\ c.in = <<>> /\ T \in Seq(Unit) /\ k.script \in Seq(ScriptEntry)
      /\ Sound(k, e, p, c)
  <2>1. Sound(k, e, p, c)
    BY <1>0 DEF Local
  <2> QED BY <1>0, <2>1, ConnType, SideOfType, ScenarioType DEF Sound
<1>2. Head(wp) \in Seq(Unit) /\ Tail(wp) \in Seq(Seq(Unit))
  BY <1>0, HeadTailProperties
<1>3. /\ c2 \in Connection /\ c2.msg = c.msg /\ c2.io = c.io /\ c2.read = c.read
      /\ c2.wiped = c.wiped /\ c2.out = c.out /\ c2.in = Head(wp) /\ c2.status = "PLAINTEXT"
      /\ c2.looping /\ c2.paused = c.paused /\ c2.async = c.async
      /\ c2.hash = c.hash /\ c2.failed = c.failed
  BY <1>0, <1>2 DEF Connection, Unit
<1> HIDE DEF c2
<1>4. ~WriterOf(k, e, c2)
  BY <1>3 DEF WriterOf
<1>5. OnWay(c2.io, c2.in, Tail(wp), T) = OnWay(c.io, c.in, wp, T)
  <2> DEFINE R == c.io
  <2>1. OnWay(R, <<>>, wp, T) = OnWay(R, Head(wp), Tail(wp), T)
    <3> HIDE DEF T, R
    <3> QED BY <1>0, <1>1, WayInEmpty DEF R
  <2> QED BY <1>1, <1>3, <2>1
<1>6. SideOf(k, e, p, c2, d, Tail(wp)) = SideOf(k, e, p, c, d, wp)
  BY <1>3, <1>4, <1>5 DEF SideOf, RdOf, PutOf, AsksOf
<1>7. SideOf(k, p, e, d, c2, we) = SideOf(k, p, e, d, c, we)
  BY <1>3 DEF SideOf, TlOf
<1>8. Local(k, p, e, d, Tail(wp))
  <2>1. \A i \in 1..Len(Tail(wp)) : i + 1 \in 1..Len(wp) /\ Tail(wp)[i] = wp[i+1]
    BY <1>0
  <2> QED BY <1>0, <2>1 DEF Local
<1>9. c.io # <<>> => Len(c.io) < LenOf(k.script, c.io[1][1])
  <2> SUFFICES ASSUME c.io # <<>> PROVE Len(c.io) < LenOf(k.script, c.io[1][1])
    OBVIOUS
  <2> DEFINE l == LenOf(k.script, c.io[1][1])
  <2>1. Len(c.io) <= l /\ ~(Len(c.io) = l)
    BY <1>1, ConnType, <1>0 DEF Sound, Reads
  <2>2. Len(c.io) \in Nat /\ l \in Nat
    <3>1. c.io[1][1] \in 0..Len(k.script)
      <4>0. PICK Y \in Seq(Unit) :
               Arriving(k.script, p, c.io \o c.in, Y, OnWay(c.io, c.in, wp, TlOf(k, p, d)))
        BY ReaderStream
      <4>1. (c.io \o c.in) \o Y \in Seq(Unit) /\ WellCut(k.script, (c.io \o c.in) \o Y)
        BY <4>0 DEF Arriving
      <4> DEFINE A == c.io
                 S == A \o Y
      <4>2. (c.io \o c.in) \o Y = S
        BY <1>1, ConcatEmptySeq
      <4>3. A \in Seq(Unit) /\ Len(A) >= 1
        BY <1>1, EmptySeq
      <4>4. Len(S) >= 1 /\ S[1] = A[1] /\ S \in Seq(Unit)
        <5> HIDE DEF A
        <5> QED BY <4>3
      <4>5. 1 \in 1..Len(S)
        <5> HIDE DEF S
        <5> QED BY <4>4
      <4>6. S[1][1] \in 0..Len(k.script)
        <5> HIDE DEF S
        <5> QED BY <1>1, <4>1, <4>2, <4>4, <4>5, CutUnits
      <4> QED BY <4>4, <4>6
    <3> QED BY <1>1, <3>1, LenOfType
  <2> HIDE DEF l
  <2> QED BY <2>1, <2>2 DEF l
<1>10. ASSUME p \notin k.foreign PROVE OneMessage(c2.io \o c2.in)
  <2>0. PICK Y \in Seq(Unit) : Arriving(k.script, p, c.io \o c.in, Y, OnWay(c.io, c.in, wp, T))
    BY ReaderStream
  <2>1. WellCut(k.script, OnWay(c.io, c.in, wp, T))
    BY <2>0 DEF Arriving
  <2> DEFINE A == c.io
             B == Head(wp)
             X == Rest(Tail(wp), T)
  <2>2. OneMessage(B)
    <3>1. 1 \in 1..Len(wp) /\ B = wp[1]
      BY <1>0
    <3> QED BY <1>0, <1>10, <3>1 DEF Local
  <2>3. X \in Seq(Unit)
    <3> HIDE DEF T
    <3> QED BY <1>1, <1>2, RestType, Zenon
  <2>4. OnWay(A, B, Tail(wp), T) = (A \o B) \o X
    <3> DEFINE w == Tail(wp)
    <3>1. A \in Seq(Unit) /\ B \in Seq(Unit) /\ w \in Seq(Seq(Unit)) /\ T \in Seq(Unit)
      BY <1>1, <1>2
    <3>2. Splits(A, B, w, T)
      <4> HIDE DEF A, B, w, T
      <4> QED BY <3>1, WaySplits
    <3> QED BY <3>2 DEF Splits
  <2>5. WellCut(k.script, (A \o B) \o X)
    BY <1>3, <1>5, <2>1, <2>4
  <2>6. OneMessage(A \o B)
    <3>1. A \in Seq(Unit) /\ B \in Seq(Unit) /\ (A # <<>> => Len(A) < LenOf(k.script, A[1][1]))
      BY <1>1, <1>2, <1>9
    <3> HIDE DEF A, B, X
    <3> QED BY <1>1, <2>2, <2>3, <2>5, <3>1, OneJoin
  <2> QED BY <1>3, <2>6
<1>11. Sound(k, e, p, c2)
  <2>1. Reads(k, p, c) /\ c.hash = UpTo(k.script, c.msg - 1)
    BY <1>1 DEF Sound
  <2>2. Reads(k, p, c2)
    <3>1. c2.io # <<>> => /\ Len(c2.io) <= LenOf(k.script, c2.io[1][1])
                          /\ ~(Len(c2.io) = LenOf(k.script, c2.io[1][1]))
      BY <1>3, <1>9, <2>1, <1>1, ConnType, <1>0 DEF Reads
    <3> QED BY <1>3, <1>10, <3>1 DEF Reads
  <2> QED BY <1>3, <1>4, <2>1, <2>2 DEF Sound
<1>12. Local(k, e, p, c2, we)
  BY <1>0, <1>3, <1>11 DEF Local
<1>13. Good(k, e, p, c2, d, we, Tail(wp))
  BY <1>0, <1>2, <1>3, <1>6, <1>7, <1>8, <1>12, GoodUnseen DEF Unseen
<1> QED BY <1>13 DEF c2

LEMMA GoodReadEmpty ==
  ASSUME NEW k, NEW e, NEW p, NEW c, NEW d, NEW we, NEW wp, Good(k, e, p, c, d, we, wp),
         e \notin k.foreign, ~c.failed, c.looping, c.in = <<>>
  PROVE  Good(k, e, p, [c EXCEPT !.looping = FALSE, !.in = <<>>, !.status = "ENCRYPTED"],
              d, we, wp)
<1> DEFINE c2 == [c EXCEPT !.looping = FALSE, !.in = <<>>, !.status = "ENCRYPTED"]
<1>0. /\ we \in Seq(Seq(Unit)) /\ wp \in Seq(Seq(Unit)) /\ c \in Connection
      /\ Local(k, e, p, c, we) /\ Local(k, p, e, d, wp)
  BY DEF Good
<1>1. Sound(k, e, p, c)
  BY <1>0 DEF Local
<1>2. /\ c2 \in Connection /\ c2.msg = c.msg /\ c2.io = c.io /\ c2.read = c.read
      /\ c2.wiped = c.wiped /\ c2.out = c.out /\ c2.in = c.in /\ c2.in = <<>> /\ c2.status = "ENCRYPTED"
      /\ ~c2.looping /\ c2.paused = c.paused /\ c2.async = c.async
      /\ c2.hash = c.hash /\ c2.failed = c.failed
  BY <1>0 DEF Connection
<1> HIDE DEF c2
<1>3. SideOf(k, e, p, c2, d, wp) = SideOf(k, e, p, c, d, wp)
  BY <1>2 DEF SideOf, RdOf, PutOf, AsksOf, WriterOf
<1>4. SideOf(k, p, e, d, c2, we) = SideOf(k, p, e, d, c, we)
  BY <1>2 DEF SideOf, TlOf
<1>5. WriterOf(k, e, c2) = WriterOf(k, e, c)
  BY <1>2 DEF WriterOf
<1>6. Own(k.script, c) => Own(k.script, c2)
  BY <1>2, Zenon DEF Own
<1>7. ASSUME Reads(k, p, c) PROVE Reads(k, p, c2)
  <2>1. c.io # <<>> => /\ Len(c.io) <= LenOf(k.script, c.io[1][1])
                       /\ ~(Len(c.io) = LenOf(k.script, c.io[1][1]))
    BY <1>7 DEF Reads
  <2>2. ~c.paused
    BY <1>7 DEF Reads
  <2>3. p \notin k.foreign => OneMessage(c.io \o c.in)
    BY <1>7 DEF Reads
  <2> QED BY <1>2, <2>1, <2>2, <2>3 DEF Reads
<1>8. Sound(k, e, p, c2)
  BY <1>1, <1>2, <1>5, <1>6, <1>7 DEF Sound
<1>9. Local(k, e, p, c2, we)
  BY <1>0, <1>2, <1>8 DEF Local
<1>10. Good(k, e, p, c2, d, we, wp)
  BY <1>0, <1>2, <1>3, <1>4, <1>9, GoodUnseen DEF Unseen
<1> QED BY <1>10 DEF c2

(* When nothing is on its way nothing has arrived. *)
LEMMA WayNone ==
  ASSUME NEW I \in Seq(Unit), NEW w \in Seq(Seq(Unit)), NEW T \in Seq(Unit),
         OnWay(<<>>, I, w, T) = <<>>
  PROVE  I = <<>>
<1> DEFINE V == Rest(w, T)
           E == <<>>
<1>1. E \in Seq(Unit) /\ E \o I = I
  BY EmptySeq, ConcatEmptySeq
<1>2. V \in Seq(Unit)
  BY RestType, Zenon
<1>3. Splits(E, I, w, T)
  <2> HIDE DEF E
  <2> QED BY <1>1, WaySplits
<1>4. I \o V = <<>>
  BY <1>1, <1>3 DEF Splits
<1>5. Len(I) = 0
  <2> HIDE DEF V
  <2>1. Len(I \o V) = Len(I) + Len(V) /\ Len(I) \in Nat /\ Len(V) \in Nat
    BY <1>2, ConcatProperties
  <2>2. Len(I \o V) = 0
    BY <1>4
  <2> QED BY <2>1, <2>2
<1> QED BY <1>5

(* A message is read, hashed and taken off what has arrived. *)
LEMMA GoodReceive ==
  ASSUME NEW k, NEW e, NEW p, e # p, NEW c, NEW d, NEW we, NEW wp, Good(k, e, p, c, d, we, wp),
         e \notin k.foreign, ~c.failed, ~WriterOf(k, e, c), c.msg \in 1..Len(k.script),
         NEW c2 \in Connection, UnitsOf(k.script, c.msg) \o c2.in = c.io \o c.in,
         c2.msg = c.msg + 1, c2.io = <<>>, c2.read = 0, c2.wiped, ~c2.paused,
         c2.out = c.out, c2.hash = c.hash \o UnitsOf(k.script, c.msg), c2.failed = c.failed,
         c2.status = "ENCRYPTED" => c2.in = <<>>
  PROVE  Good(k, e, p, c2, d, we, wp)
<1> DEFINE s == k.script
           U == UnitsOf(s, c.msg)
           I == c2.in
           T == TlOf(k, p, d)
           x == SideOf(k, e, p, c, d, wp)
           y == SideOf(k, p, e, d, c, we)
           x2 == SideOf(k, e, p, c2, d, wp)
           y2 == SideOf(k, p, e, d, c2, we)
<1>0. /\ k \in Scenarios /\ c \in Connection /\ d \in Connection
      /\ we \in Seq(Seq(Unit)) /\ wp \in Seq(Seq(Unit))
      /\ Local(k, e, p, c, we) /\ Local(k, p, e, d, wp) /\ Pair(s, e, p, x, y)
  BY DEF Good
<1>1. /\ s \in Seq(ScriptEntry) /\ Len(s) \in Nat /\ c.msg \in Nat /\ c.msg \in 0..Len(s)
      /\ c.io \in Seq(Unit) /\ c.in \in Seq(Unit) /\ I \in Seq(Unit) /\ T \in Seq(Unit)
  <2>1. s \in Seq(ScriptEntry) /\ Len(s) \in Nat
    BY <1>0, ScenarioType
  <2>2. c.io \in Seq(Unit) /\ c.in \in Seq(Unit) /\ I \in Seq(Unit)
    BY <1>0, ConnType
  <2>3. T \in Seq(Unit)
    BY <1>0, SideOfType
  <2> QED BY <2>1, <2>2, <2>3
<1>2. U \in Seq(Unit)
  BY <1>1, UnitsOfType
<1>3. Sound(k, e, p, c)
  BY <1>0 DEF Local
<1>4. c2.msg \in 1..(Len(s) + 1) /\ c2.msg - 1 = c.msg
  BY <1>1
<1>5. x2 \in Side /\ y2 = y
  <2>1. x2 \in Side
    BY <1>0, SideOfType
  <2> QED BY <2>1 DEF SideOf, TlOf
<1>6. x.S = U \o x2.S
  <2> DEFINE R == c.io
             J == c.in
             V == Rest(wp, T)
  <2>1. R \in Seq(Unit) /\ J \in Seq(Unit)
    BY <1>1
  <2>2. x.S = OnWay(R, J, wp, T) /\ x2.S = OnWay(<<>>, I, wp, T)
    BY DEF SideOf, RdOf
  <2>3. U \o I = R \o J
    OBVIOUS
  <2> HIDE DEF R, J, I, T, U
  <2>4. Splits(R, J, wp, T) /\ Splits(U, I, wp, T)
    BY <1>0, <1>1, <1>2, <2>1, WaySplits
  <2>5. Begins(U, I, wp, T)
    BY <1>0, <1>1, <1>2, WayBegins
  <2> QED BY <2>2, <2>3, <2>4, <2>5 DEF Splits, Begins
<1>7. /\ x.n = c.msg /\ x.r = 0 /\ ~x.w /\ ~x.f /\ x2.n = c.msg + 1 /\ x2.r = 0 /\ ~x2.w /\ ~x2.f
      /\ x2.f = x.f /\ x.h = c.hash /\ x2.h = c.hash \o U
  <2>1. PutOf(k, e, c) = 0 /\ PutOf(k, e, c2) = 0
    BY DEF PutOf
  <2>2. AsksOf(k, e, c) = FALSE /\ AsksOf(k, e, c2) = FALSE
    BY DEF AsksOf
  <2> HIDE DEF U
  <2> QED BY <2>1, <2>2 DEF SideOf, U
<1>8. Receives(s, e, x, x2)
  <2> HIDE DEF x, x2
  <2> QED BY <1>5, <1>6, <1>7 DEF Receives
<1>9. Pair(s, e, p, x2, y2)
  <2> HIDE DEF x, x2, y, y2
  <2> QED BY <1>0, <1>1, <1>5, <1>8, PairReceive
<1>10. c2.hash = UpTo(s, c2.msg - 1)
  <2>1. c.hash = UpTo(s, c.msg - 1)
    BY <1>3 DEF Sound
  <2>2. UpTo(s, c.msg) = UpTo(s, c.msg - 1) \o U
    BY <1>1, UpToNext
  <2> QED BY <1>4, <2>1, <2>2
<1>11. WriterOf(k, e, c2) => I = <<>>
  <2> SUFFICES ASSUME WriterOf(k, e, c2) PROVE I = <<>>
    OBVIOUS
  <2>1. /\ c2.msg \in 1..Len(s) /\ s[c2.msg].from = e /\ LenOf(s, c2.msg) \in Nat
        /\ LenOf(s, c2.msg) >= 1
    BY <1>0, <1>4, OwnUnits DEF WriterOf
  <2>2. x2.n = c2.msg /\ x2.r < LenOf(s, x2.n)
    BY <1>7, <2>1
  <2>3. x2.S = <<>>
    <3> HIDE DEF x2, y2
    <3> QED BY <1>1, <1>7, <1>9, <2>1, <2>2, WriterIsAlone
  <2>4. OnWay(<<>>, I, wp, T) = <<>>
    BY <2>3 DEF SideOf, RdOf
  <2> HIDE DEF I, T
  <2> QED BY <1>0, <1>1, <2>4, WayNone
<1>12. Sound(k, e, p, c2)
  <2>1. WriterOf(k, e, c2) => Own(s, c2) /\ c2.hash = UpTo(s, c2.msg - 1) \o SubSeq(UnitsOf(s, c2.msg), 1, c2.read)
    <3> SUFFICES ASSUME WriterOf(k, e, c2)
                 PROVE  Own(s, c2) /\ c2.hash = UpTo(s, c2.msg - 1) \o SubSeq(UnitsOf(s, c2.msg), 1, 0)
      OBVIOUS
    <3>1. c2.msg \in 1..Len(s)
      BY <1>0, <1>4, OwnUnits
    <3>2. UpTo(s, c2.msg - 1) \o SubSeq(UnitsOf(s, c2.msg), 1, 0) = UpTo(s, c2.msg - 1)
      BY <1>1, <3>1, UpToPart
    <3> QED BY <1>10, <1>11, <3>2 DEF Own
  <2>2. Reads(k, p, c2)
    <3>1. ASSUME p \notin k.foreign PROVE OneMessage(I)
      <4>1. OneMessage(U \o I)
        BY <1>3, <3>1 DEF Sound, Reads
      <4> HIDE DEF U, I
      <4> QED BY <1>1, <1>2, <4>1, OnePart
    <3>2. c2.io \o c2.in = I
      BY <1>1, ConcatEmptySeq
    <3> QED BY <3>1, <3>2 DEF Reads
  <2> QED BY <1>10, <2>1, <2>2 DEF Sound
<1>13. Local(k, e, p, c2, we)
  BY <1>0, <1>12 DEF Local
<1> QED BY <1>0, <1>4, <1>9, <1>13, GoodBy

(***************************************************************************)
(* s2n_read_full_handshake_message moves units from conn->in to the end of *)
(* handshake.io, and none behind the end of the message.                   *)
(***************************************************************************)
Taken(c, t) ==
    /\ t \in Connection /\ t.msg = c.msg /\ t.read = c.read /\ t.out = c.out
    /\ t.status = c.status /\ t.looping = c.looping /\ t.paused = c.paused /\ t.async = c.async
    /\ t.hash = c.hash /\ t.failed = c.failed
    /\ t.io \o t.in = c.io \o c.in

LEMMA CutInTwo ==
  ASSUME NEW B \in Seq(Unit), NEW n \in Nat, n <= Len(B)
  PROVE  SubSeq(B, 1, n) \o SubSeq(B, n + 1, Len(B)) = B
<1> DEFINE X == SubSeq(B, 1, n)
           Y == SubSeq(B, n + 1, Len(B))
           Z == X \o Y
<1>1. X \in Seq(Unit) /\ Y \in Seq(Unit) /\ Len(X) = n /\ Len(B) \in Nat
  OBVIOUS
<1>2. Len(Y) = Len(B) - n /\ \A i \in 1..(Len(B) - n) : Y[i] = B[n + i]
  OBVIOUS
<1>3. \A i \in 1..n : X[i] = B[i]
  OBVIOUS
<1>4. /\ Z \in Seq(Unit) /\ Len(Z) = n + (Len(B) - n)
      /\ \A i \in 1..(n + (Len(B) - n)) : Z[i] = IF i <= n THEN X[i] ELSE Y[i - n]
  <2> HIDE DEF X, Y
  <2> QED BY <1>1, <1>2, ConcatProperties
<1> HIDE DEF Z, X, Y
<1>5. Len(Z) = Len(B)
  BY <1>1, <1>4
<1>6. \A i \in 1..Len(Z) : Z[i] = B[i]
  <2> SUFFICES ASSUME NEW i \in 1..Len(Z) PROVE Z[i] = B[i]
    OBVIOUS
  <2>1. CASE i <= n
    BY <1>1, <1>3, <1>4, <1>5, <2>1
  <2>2. CASE ~(i <= n)
    <3>1. i - n \in 1..(Len(B) - n) /\ n + (i - n) = i /\ i \in 1..(n + (Len(B) - n))
      BY <1>1, <1>5, <2>2
    <3>2. Z[i] = Y[i - n]
      BY <1>4, <2>2, <3>1
    <3>3. Y[i - n] = B[n + (i - n)]
      BY <1>2, <3>1
    <3> QED BY <3>1, <3>2, <3>3
  <2> QED BY <2>1, <2>2
<1>7. Z = B
  BY <1>4, <1>5, <1>6, SeqEqual
<1> QED BY <1>7 DEF Z, X, Y

LEMMA TakeIs ==
  ASSUME NEW c \in Connection, NEW n \in 0..Len(c.in)
  PROVE  /\ Taken(c, Take(c, n)) /\ Len(Take(c, n).io) = Len(c.io) + n
         /\ n = Len(c.in) => Take(c, n).in = <<>>
<1> DEFINE A == c.io
           B == c.in
           X == SubSeq(B, 1, n)
           Y == SubSeq(B, n + 1, Len(B))
           t == Take(c, n)
<1>1. A \in Seq(Unit) /\ B \in Seq(Unit) /\ c.wiped \in BOOLEAN
  BY ConnType
<1>2. n \in Nat /\ Len(B) \in Nat /\ n <= Len(B)
  BY <1>1
<1>3. X \in Seq(Unit) /\ Y \in Seq(Unit) /\ Len(X) = n /\ X \o Y = B /\ (n = Len(B) => Y = <<>>)
  <2> HIDE DEF B
  <2>1. X \in Seq(Unit) /\ Y \in Seq(Unit) /\ Len(X) = n
    BY <1>1, <1>2
  <2>2. n = Len(B) => Y = <<>>
    BY <1>1, <1>2, SubSeqEmpty
  <2>5. X \o Y = B
    BY <1>1, <1>2, CutInTwo
  <2> QED BY <2>1, <2>2, <2>5
<1>4. A \o X \in Seq(Unit) /\ Len(A \o X) = Len(A) + n
  <2> HIDE DEF A, X
  <2> QED BY <1>1, <1>3, ConcatProperties
<1>5. (A \o X) \o Y = A \o B
  <2>1. \A a, b, z \in Seq(Unit) : (a \o b) \o z = a \o (b \o z)
    BY UnitConcat
  <2> HIDE DEF A, B, X, Y
  <2>2. (A \o X) \o Y = A \o (X \o Y)
    BY <1>1, <1>3, <2>1, Zenon
  <2> QED BY <1>3, <2>2
<1>6. /\ t.io = A \o X /\ t.in = Y /\ t \in Connection
      /\ t.msg = c.msg /\ t.read = c.read /\ t.out = c.out
      /\ t.status = c.status /\ t.looping = c.looping /\ t.paused = c.paused /\ t.async = c.async
      /\ t.hash = c.hash /\ t.failed = c.failed
  <2> DEFINE W == c.wiped /\ n = 0
             AX == A \o X
  <2>1. W \in BOOLEAN /\ AX \in Seq(Unit) /\ Y \in Seq(Unit)
    BY <1>3, <1>4
  <2>2. t = [c EXCEPT !.io = AX, !.in = Y, !.wiped = W]
    BY DEF Take
  <2> HIDE DEF W, AX, X, Y, A, B, t
  <2>3. t \in Connection
    BY <2>1, <2>2 DEF Connection, Unit
  <2> QED BY <2>1, <2>2, <2>3 DEF Connection, AX
<1>7. Taken(c, t)
  BY <1>5, <1>6 DEF Taken
<1> QED BY <1>3, <1>4, <1>6, <1>7

(* The length of the first message in handshake.io and conn->in. *)
FirstLength(k, c, l) == l = LenOf(k.script, (c.io \o c.in)[1][1])

LEMMA ReadFull ==
  ASSUME NEW c \in Connection, c.in # <<>>, NEW l \in Nat, l >= HeaderLength,
         FirstLength(sc, c, l), Len(c.io) < l
  PROVE  LET r == s2n_read_full_handshake_message(c) IN
         /\ Taken(c, r.c) /\ r.complete \in BOOLEAN
         /\ r.complete => Len(r.c.io) = l
         /\ ~r.complete => r.c.in = <<>> /\ Len(r.c.io) < l
<1> DEFINE r == s2n_read_full_handshake_message(c)
           h == TakeHeader(c)
           H == HeaderLength
<1>0. H \in Nat /\ H >= 1 /\ l >= H
  BY BoundAssumption
<1>1. c.io \in Seq(Unit) /\ c.in \in Seq(Unit) /\ Len(c.io) \in Nat /\ Len(c.in) \in Nat
  <2>1. c.io \in Seq(Unit) /\ c.in \in Seq(Unit)
    BY ConnType
  <2> QED BY <2>1
<1>2. Taken(c, h) /\ Len(h.io) <= l /\ (Len(h.io) < H => h.in = <<>>)
  <2>1. CASE Len(c.io) >= H
    <3>1. h = c
      BY <2>1 DEF TakeHeader
    <3> QED BY <1>0, <1>1, <2>1, <3>1 DEF Taken
  <2>2. CASE ~(Len(c.io) >= H)
    <3> DEFINE n == Smaller(H - Len(c.io), Len(c.in))
    <3>1. h = Take(c, n)
      BY <2>2 DEF TakeHeader
    <3>2. n \in 0..Len(c.in) /\ n <= H - Len(c.io) /\ (n = H - Len(c.io) \/ n = Len(c.in))
      BY <1>0, <1>1, <2>2 DEF Smaller
    <3>3. Taken(c, h) /\ Len(h.io) = Len(c.io) + n /\ (n = Len(c.in) => h.in = <<>>)
      <4> HIDE DEF n
      <4> QED BY <3>1, <3>2, TakeIs
    <3> HIDE DEF n, h
    <3> QED BY <1>0, <1>1, <3>2, <3>3
  <2> QED BY <2>1, <2>2
<1>3. h \in Connection /\ h.io \in Seq(Unit) /\ h.in \in Seq(Unit)
      /\ Len(h.io) \in Nat /\ Len(h.in) \in Nat
  <2>1. h \in Connection
    BY <1>2 DEF Taken
  <2> HIDE DEF h
  <2>2. h.io \in Seq(Unit) /\ h.in \in Seq(Unit)
    BY <2>1, ConnType
  <2> QED BY <2>1, <2>2
<1>4. CASE Len(h.io) < H
  <2>1. r = [c |-> h, complete |-> FALSE]
    BY <1>4 DEF s2n_read_full_handshake_message
  <2> HIDE DEF h, r
  <2>2. Taken(c, r.c) /\ r.complete = FALSE /\ r.c.in = <<>> /\ Len(r.c.io) < l
    BY <1>0, <1>2, <1>3, <1>4, <2>1
  <2> QED BY <2>2 DEF r
<1>5. CASE ~(Len(h.io) < H)
  <2> DEFINE n == Smaller(l - Len(h.io), Len(h.in))
             b == Take(h, n)
  <2>1. Length(h.io[1][1]) = l
    <3> DEFINE A == h.io
               B == h.in
               C == c.io
               D == c.in
    <3>1. A \o B = C \o D
      BY <1>2 DEF Taken
    <3>2. A \in Seq(Unit) /\ B \in Seq(Unit) /\ Len(A) >= 1
      BY <1>0, <1>3, <1>5
    <3>3. (A \o B)[1] = A[1]
      <4> HIDE DEF A, B
      <4> QED BY <3>2
    <3> QED BY <3>1, <3>3 DEF Length, LenOf, Script, FirstLength
  <2>2. r = [c |-> b, complete |-> Len(b.io) = l]
    BY <1>5, <2>1 DEF s2n_read_full_handshake_message
  <2>3. /\ n \in 0..Len(h.in) /\ n <= l - Len(h.io) /\ (n = l - Len(h.io) \/ n = Len(h.in))
    <3> DEFINE u == l - Len(h.io)
               v == Len(h.in)
    <3>1. u \in Nat /\ v \in Nat
      <4> HIDE DEF h
      <4> QED BY <1>2, <1>3
    <3>2. Smaller(u, v) \in 0..v /\ Smaller(u, v) <= u /\ (Smaller(u, v) = u \/ Smaller(u, v) = v)
      <4> HIDE DEF u, v
      <4> QED BY <3>1 DEF Smaller
    <3> QED BY <3>2
  <2>4. Taken(h, b) /\ Len(b.io) = Len(h.io) + n /\ (n = Len(h.in) => b.in = <<>>)
    <3> HIDE DEF n, h
    <3> QED BY <1>3, <2>3, TakeIs
  <2>5. Taken(c, b)
    <3> HIDE DEF b, h
    <3> QED BY <1>2, <2>4 DEF Taken
  <2> HIDE DEF h, n, b, r
  <2>6. Taken(c, r.c) /\ r.complete = (Len(b.io) = l) /\ r.c = b
    BY <2>2, <2>5
  <2>7. ~(Len(b.io) = l) => b.in = <<>> /\ Len(b.io) < l
    BY <1>2, <1>3, <2>3, <2>4
  <2> QED BY <2>6, <2>7 DEF r
<1> QED BY <1>4, <1>5

(* A reader that stays at its message and keeps what has arrived. *)
LEMMA GoodKeep ==
  ASSUME NEW k, NEW e, NEW p, NEW c, NEW d, NEW we, NEW wp, Good(k, e, p, c, d, we, wp),
         e \notin k.foreign, ~c.failed, ~WriterOf(k, e, c),
         NEW c2 \in Connection, c2.io \o c2.in = c.io \o c.in,
         c2.msg = c.msg, c2.out = c.out, c2.hash = c.hash, c2.failed = c.failed,
         c2.status = "ENCRYPTED" => c2.in = <<>>, Reads(k, p, c2)
  PROVE  Good(k, e, p, c2, d, we, wp)
<1> DEFINE T == TlOf(k, p, d)
           A == c.io
           B == c.in
           C == c2.io
           D == c2.in
<1>0. /\ we \in Seq(Seq(Unit)) /\ wp \in Seq(Seq(Unit)) /\ c \in Connection /\ d \in Connection
      /\ Local(k, e, p, c, we) /\ Local(k, p, e, d, wp)
  BY DEF Good
<1>1. A \in Seq(Unit) /\ B \in Seq(Unit) /\ C \in Seq(Unit) /\ D \in Seq(Unit) /\ T \in Seq(Unit)
  <2>1. A \in Seq(Unit) /\ B \in Seq(Unit) /\ C \in Seq(Unit) /\ D \in Seq(Unit)
    BY <1>0, ConnType
  <2> QED BY <1>0, <2>1, SideOfType
<1>2. WriterOf(k, e, c2) = WriterOf(k, e, c)
  BY DEF WriterOf
<1>3. OnWay(C, D, wp, T) = OnWay(A, B, wp, T)
  <2>1. C \o D = A \o B
    OBVIOUS
  <2> HIDE DEF A, B, C, D, T
  <2>2. Splits(A, B, wp, T) /\ Splits(C, D, wp, T)
    BY <1>0, <1>1, WaySplits
  <2> QED BY <2>1, <2>2 DEF Splits
<1>4. SideOf(k, e, p, c2, d, wp) = SideOf(k, e, p, c, d, wp)
  BY <1>2, <1>3 DEF SideOf, RdOf, PutOf, AsksOf
<1>5. SideOf(k, p, e, d, c2, we) = SideOf(k, p, e, d, c, we)
  BY DEF SideOf, TlOf
<1>6. Sound(k, e, p, c2)
  BY <1>0, <1>2 DEF Local, Sound
<1>7. Local(k, e, p, c2, we)
  BY <1>0, <1>6 DEF Local
<1> QED BY <1>0, <1>4, <1>5, <1>7, GoodUnseen DEF Unseen

(***************************************************************************)
(* What the loop over a record finds: an incomplete message in handshake.io*)
(* and conn->in, of length l; S is what is on its way.                     *)
(***************************************************************************)
Turn(k, p, c, Y, S, l) ==
    /\ c.status = "PLAINTEXT" /\ ~c.paused
    /\ Arriving(k.script, p, c.io \o c.in, Y, S)
    /\ FirstLength(k, c, l) /\ Len(c.io) < l
    /\ S[1] = (c.io \o c.in)[1] /\ Len(S) >= 1
    /\ p \notin k.foreign => OneMessage(c.io \o c.in)

LEMMA TurnIs ==
  ASSUME NEW k, NEW e, NEW p, NEW c, NEW d, NEW we, NEW wp, Good(k, e, p, c, d, we, wp),
         e \notin k.foreign, ~c.failed, c.looping, c.in # <<>>
  PROVE  /\ ~WriterOf(k, e, c)
         /\ \E Y \in Seq(Unit), S \in Seq(Unit), l \in Nat :
               l >= HeaderLength /\ Turn(k, p, c, Y, S, l)
<1> DEFINE A == c.io
           B == c.in
           Z == A \o B
           S == OnWay(c.io, c.in, wp, TlOf(k, p, d))
           l == LenOf(k.script, Z[1][1])
<1>0. k \in Scenarios /\ c \in Connection /\ Local(k, e, p, c, we)
  BY DEF Good
<1>1. A \in Seq(Unit) /\ B \in Seq(Unit) /\ c.status \in {"ENCRYPTED", "PLAINTEXT"}
      /\ k.script \in Seq(ScriptEntry)
  BY <1>0, ConnType, ScenarioType
<1>2. Sound(k, e, p, c)
  BY <1>0 DEF Local
<1>3. ~WriterOf(k, e, c)
  BY <1>2 DEF Sound, Own
<1>4. c.status = "PLAINTEXT"
  BY <1>1, <1>2 DEF Sound
<1>5. Reads(k, p, c)
  BY <1>2, <1>3 DEF Sound
<1>6. ~c.paused
  BY <1>5 DEF Reads
<1>7. PICK Y \in Seq(Unit) : Arriving(k.script, p, Z, Y, S)
  BY <1>3, ReaderStream
<1>8. Z \in Seq(Unit) /\ Len(Z) >= 1 /\ (A # <<>> => Z[1] = A[1])
  <2>1. Len(B) \in Nat /\ Len(B) >= 1
    BY <1>1, EmptySeq
  <2> HIDE DEF A, B
  <2>2. Z \in Seq(Unit) /\ Len(Z) >= 1
    BY <1>1, <2>1, ConcatProperties
  <2>3. A # <<>> => Z[1] = A[1]
    <3>1. A # <<>> => Len(A) >= 1
      BY <1>1, EmptySeq
    <3> QED BY <1>1, <2>1, <3>1
  <2> QED BY <2>2, <2>3
<1>9. S \in Seq(Unit) /\ WellCut(k.script, S) /\ S = Z \o Y
  BY <1>7 DEF Arriving
<1>10. S[1] = Z[1] /\ Len(S) >= 1
  <2> HIDE DEF Z, S
  <2>1. (Z \o Y)[1] = Z[1] /\ Len(Z \o Y) >= 1
    BY <1>8
  <2> QED BY <1>9, <2>1
<1>11. l \in Nat /\ l >= HeaderLength /\ l >= 1
  <2> DEFINE m == S[1][1]
  <2>1. 1 \in 1..Len(S)
    <3>1. S \in Seq(Unit)
      BY <1>9
    <3>2. Len(S) >= 1
      BY <1>10
    <3> HIDE DEF S
    <3> QED BY <3>1, <3>2
  <2>2. m \in 0..Len(k.script)
    <3> HIDE DEF S
    <3> QED BY <1>1, <1>9, <2>1, CutUnits
  <2>3. LenOf(k.script, m) \in Nat /\ LenOf(k.script, m) >= HeaderLength /\ LenOf(k.script, m) >= 1
    <3> HIDE DEF m
    <3> QED BY <1>1, <2>2, LenOfType
  <2> HIDE DEF S, Z
  <2> QED BY <1>10, <2>3
<1>12. Len(A) < l
  <2>1. Len(A) \in Nat
    BY <1>1
  <2>2. CASE A = <<>>
    <3>1. Len(A) = 0
      BY <2>2
    <3> HIDE DEF l, A
    <3> QED BY <1>11, <3>1
  <2>3. CASE A # <<>>
    <3>1. Len(A) <= LenOf(k.script, A[1][1]) /\ ~(Len(A) = LenOf(k.script, A[1][1]))
      BY <1>5, <2>3 DEF Reads
    <3>2. LenOf(k.script, A[1][1]) = l
      BY <1>8, <2>3
    <3>3. Len(A) <= l /\ ~(Len(A) = l)
      BY <3>1, <3>2
    <3> HIDE DEF l, A
    <3> QED BY <1>11, <2>1, <3>3
  <2> QED BY <2>2, <2>3
<1>13. Turn(k, p, c, Y, S, l)
  <2>1. FirstLength(k, c, l)
    BY DEF FirstLength
  <2>2. p \notin k.foreign => OneMessage(Z)
    BY <1>5 DEF Reads
  <2> HIDE DEF l, S
  <2> QED BY <1>4, <1>6, <1>7, <1>10, <1>12, <2>1, <2>2 DEF Turn
<1> HIDE DEF l, S
<1> QED BY <1>3, <1>9, <1>11, <1>13, Zenon

(* A complete message is a message of the script, or a HelloRequest. *)
LEMMA WholeMessage ==
  ASSUME NEW k \in Scenarios, NEW p, NEW c, NEW Y \in Seq(Unit), NEW S \in Seq(Unit),
         NEW l \in Nat, l >= 1, Turn(k, p, c, Y, S, l), NEW t, Taken(c, t), Len(t.io) = l
  PROVE  LET m == t.io[1][1] IN
         /\ m \in 0..Len(k.script) /\ t.io = UnitsOf(k.script, m)
         /\ m # 0 => k.script[m].from = p
<1> DEFINE s == k.script
           A == t.io
           B == t.in
           Z == A \o B
           m == A[1][1]
<1>1. A \in Seq(Unit) /\ B \in Seq(Unit) /\ s \in Seq(ScriptEntry) /\ Len(A) = l
  <2>1. t \in Connection
    BY DEF Taken
  <2> QED BY <2>1, ConnType, ScenarioType
<1>2. Z = c.io \o c.in
  BY DEF Taken
<1>3. /\ S = Z \o Y /\ WellCut(s, S) /\ S[1] = Z[1] /\ Len(S) >= 1
      /\ l = LenOf(s, Z[1][1])
      /\ \A i \in 1..Len(S) : S[i][1] # 0 => s[S[i][1]].from = p
  BY <1>2 DEF Turn, Arriving, FirstLength
<1>4. Z \in Seq(Unit) /\ Len(Z) >= l /\ \A i \in 1..l : Z[i] = A[i]
  <2> HIDE DEF A, B
  <2> QED BY <1>1, ConcatProperties
<1>5. Len(S) >= l /\ \A i \in 1..l : S[i] = A[i]
  <2>1. S = Z \o Y
    BY <1>3
  <2> HIDE DEF Z, A
  <2>2. Len(Z \o Y) >= l /\ \A i \in 1..l : (Z \o Y)[i] = Z[i]
    BY <1>4, ConcatProperties
  <2> QED BY <1>4, <2>1, <2>2
<1>6. m = S[1][1] /\ l = LenOf(s, m) /\ l \in 1..Len(S) /\ 1 \in 1..l
  <2>1. l \in 1..Len(S) /\ 1 \in 1..l
    <3>1. Len(S) >= l
      BY <1>5
    <3> QED BY <3>1
  <2>2. S[1] = A[1]
    BY <1>5, <2>1
  <2> HIDE DEF A, Z
  <2> QED BY <1>3, <2>1, <2>2
<1> HIDE DEF A, B, Z, m
<1>7. WellCut(s, S)
  BY <1>3
<1>8. m \in 0..Len(s)
  BY <1>1, <1>6, <1>7, CutUnits
<1>9. \A i \in 1..l : S[i] = <<m, i>>
  <2>1. l <= LenOf(s, S[1][1])
    BY <1>6
  <2> QED BY <1>1, <1>6, <1>7, <2>1, FirstMessage
<1>10. A = UnitsOf(s, m)
  <2>1. /\ UnitsOf(s, m) \in Seq(Unit) /\ Len(UnitsOf(s, m)) = l
        /\ \A i \in 1..l : UnitsOf(s, m)[i] = <<m, i>>
    BY <1>1, <1>6, <1>8, UnitsOfType
  <2> DEFINE U == UnitsOf(s, m)
  <2>2. U \in Seq(Unit) /\ Len(U) = Len(A) /\ \A i \in 1..Len(A) : A[i] = U[i]
    BY <1>1, <1>5, <1>9, <2>1
  <2> HIDE DEF U
  <2>3. A = U
    BY <1>1, <2>2, SeqEqual
  <2> QED BY <2>3 DEF U
<1>11. m # 0 => s[m].from = p
  <2>1. 1 \in 1..Len(S)
    BY <1>6
  <2> QED BY <1>3, <1>6, <2>1
<1> QED BY <1>8, <1>10, <1>11 DEF A, m

LEMMA GoodReadMessage ==
  ASSUME Tame, sc \in Scenarios, NEW e, NEW p, e # p, NEW d, NEW we, NEW wp,
         Good(sc, e, p, conn[e], d, we, wp), e \notin sc.foreign,
         ~conn[e].failed, conn[e].looping, conn[e].in # <<>>
  PROVE  Good(sc, e, p, ReadMessage(conn[e], e), d, we, wp)
<1> DEFINE c == conn[e]
           s == sc.script
           r == s2n_read_full_handshake_message(c)
           t == r.c
           m == t.io[1][1]
           back == [t EXCEPT !.looping = FALSE]
           z == ReadMessage(c, e)
<1>0. c \in Connection /\ c.msg \in 1..(Len(s) + 1) /\ d \in Connection /\ Good(sc, e, p, c, d, we, wp)
  BY DEF Good
<1>1. s \in Seq(ScriptEntry) /\ Len(s) \in Nat /\ c.msg \in Nat
  BY <1>0, ScenarioType, ConnType
<1>2. ~WriterOf(sc, e, c)
  BY TurnIs
<1>3. PICK Y \in Seq(Unit), S \in Seq(Unit), l \in Nat :
         l >= HeaderLength /\ Turn(sc, p, c, Y, S, l)
  BY TurnIs
<1>4. l >= 1
  BY <1>3, BoundAssumption
<1>5. /\ c.status = "PLAINTEXT" /\ ~c.paused /\ FirstLength(sc, c, l) /\ Len(c.io) < l
      /\ (p \notin sc.foreign => OneMessage(c.io \o c.in))
  BY <1>3 DEF Turn
<1>6. /\ Taken(c, t) /\ r.complete \in BOOLEAN
      /\ r.complete => Len(t.io) = l
      /\ ~r.complete => t.in = <<>> /\ Len(t.io) < l
  <2> HIDE DEF c
  <2> QED BY <1>0, <1>3, <1>5, ReadFull DEF c
<1>7. /\ t \in Connection /\ t.msg = c.msg /\ t.read = c.read /\ t.out = c.out
      /\ t.status = c.status /\ t.looping = c.looping /\ t.paused = c.paused /\ t.async = c.async
      /\ t.hash = c.hash /\ t.failed = c.failed
      /\ t.io \o t.in = c.io \o c.in
  BY <1>6 DEF Taken
<1>8. t.io \in Seq(Unit) /\ t.in \in Seq(Unit)
  BY <1>7, ConnType
<1>9. ASSUME r.complete PROVE m \in 0..Len(s) /\ t.io = UnitsOf(s, m) /\ (m # 0 => s[m].from = p)
  <2> HIDE DEF c, t
  <2> QED BY <1>3, <1>4, <1>6, <1>9, WholeMessage
<1>10. /\ back \in Connection /\ back.msg = c.msg /\ back.io = t.io /\ back.in = t.in
       /\ back.read = c.read /\ back.out = c.out /\ back.status = c.status /\ ~back.looping
       /\ back.paused = c.paused /\ back.hash = c.hash /\ back.failed = c.failed
  <2> HIDE DEF t, c
  <2> QED BY <1>7 DEF Connection
<1>11. CASE Done(e)
  <2>1. z = Failed(c)
    BY <1>11 DEF ReadMessage
  <2>2. /\ Failed(c) \in Connection /\ Failed(c).failed /\ Failed(c).msg = c.msg
        /\ Failed(c).read = c.read /\ Failed(c).out = c.out /\ Failed(c).hash = c.hash
    <3> HIDE DEF c
    <3> QED BY <1>0 DEF Failed, Connection
  <2>3. Good(sc, e, p, Failed(c), d, we, wp)
    BY <1>0, <2>2, GoodFail
  <2> QED BY <2>1, <2>3
<1>12. ASSUME ~Done(e), r.complete, (m = 0 /\ e # "client") \/ (m # 0 /\ (m # c.msg \/ IsWriter(e)))
       PROVE  Good(sc, e, p, z, d, we, wp)
  <2>1. z = Failed(back)
    BY <1>12 DEF ReadMessage
  <2>2. /\ Failed(back) \in Connection /\ Failed(back).failed /\ Failed(back).msg = c.msg
        /\ Failed(back).read = c.read /\ Failed(back).out = c.out /\ Failed(back).hash = c.hash
    <3> HIDE DEF back, c
    <3> QED BY <1>10 DEF Failed, Connection
  <2>3. Good(sc, e, p, Failed(back), d, we, wp)
    <3> HIDE DEF back
    <3> QED BY <1>0, <2>2, GoodFail
  <2> QED BY <2>1, <2>3
<1>13. ASSUME ~Done(e), ~r.complete PROVE Good(sc, e, p, z, d, we, wp)
  <2> DEFINE c2 == s2n_wipe_record(back)
  <2>1. z = c2
    BY <1>13 DEF ReadMessage
  <2>2. /\ c2 \in Connection /\ c2.msg = c.msg /\ c2.io = t.io /\ c2.in = <<>> /\ c2.out = c.out
        /\ c2.status = "ENCRYPTED" /\ ~c2.looping /\ ~c2.paused /\ c2.hash = c.hash
        /\ c2.failed = c.failed
    <3>1. <<>> \in Seq(Nat \X Nat)
      BY EmptySeq
    <3> HIDE DEF back, c, t
    <3> QED BY <1>5, <1>10, <3>1 DEF s2n_wipe_record, Connection
  <2>3. c2.io \o c2.in = c.io \o c.in
    BY <1>6, <1>7, <1>13, <2>2
  <2>4. c2.io # <<>> => Len(c2.io) < LenOf(s, c2.io[1][1])
    <3> SUFFICES ASSUME t.io # <<>> PROVE Len(t.io) < LenOf(s, t.io[1][1])
      BY <2>2
    <3> DEFINE A == t.io
    <3>1. t.io \o t.in = A
      BY <1>6, <1>8, <1>13, ConcatEmptySeq
    <3>2. l = LenOf(s, A[1][1])
      BY <1>5, <1>7, <3>1 DEF FirstLength
    <3> QED BY <1>6, <1>13, <3>2
  <2> HIDE DEF c2
  <2>5. Reads(sc, p, c2)
    <3>1. c2.io # <<>> => /\ Len(c2.io) <= LenOf(s, c2.io[1][1])
                          /\ ~(Len(c2.io) = LenOf(s, c2.io[1][1]))
      <4> SUFFICES ASSUME c2.io # <<>>
                   PROVE  Len(c2.io) <= LenOf(s, c2.io[1][1]) /\ ~(Len(c2.io) = LenOf(s, c2.io[1][1]))
        OBVIOUS
      <4> DEFINE u == Len(c2.io)
                 v == LenOf(s, c2.io[1][1])
      <4>1. u < v /\ u \in Nat /\ v \in Nat
        <5>1. u \in Nat
          BY <1>8, <2>2
        <5>2. v = l
          <6>1. t.io \o t.in = t.io
            BY <1>6, <1>8, <1>13, ConcatEmptySeq
          <6> QED BY <1>5, <1>7, <2>2, <6>1 DEF FirstLength
        <5> QED BY <2>4, <5>1, <5>2
      <4> HIDE DEF u, v
      <4>2. u <= v /\ ~(u = v)
        BY <4>1
      <4> QED BY <4>2 DEF u, v
    <3> QED BY <1>5, <2>2, <2>3, <3>1 DEF Reads
  <2>6. Good(sc, e, p, c2, d, we, wp)
    <3> HIDE DEF c
    <3> QED BY <1>0, <1>2, <2>2, <2>3, <2>5, GoodKeep DEF c
  <2> QED BY <2>1, <2>6
<1>14. ASSUME ~Done(e), r.complete, m = 0, e = "client" PROVE Good(sc, e, p, z, d, we, wp)
  <2> DEFINE c2 == [back EXCEPT !.read = HeaderLength]
  <2>1. z = c2
    BY <1>14 DEF ReadMessage
  <2>2. /\ c2 \in Connection /\ c2.msg = c.msg /\ c2.io = t.io /\ c2.in = t.in /\ c2.out = c.out
        /\ c2.status = "PLAINTEXT" /\ ~c2.looping /\ ~c2.paused /\ c2.hash = c.hash
        /\ c2.failed = c.failed
    <3>1. HeaderLength \in Nat
      BY BoundAssumption
    <3> HIDE DEF back, c, t
    <3> QED BY <1>5, <1>10, <3>1 DEF Connection
  <2>3. c2.io \o c2.in = c.io \o c.in
    BY <1>7, <2>2
  <2> HIDE DEF c2
  <2>4. Reads(sc, p, c2)
    <3>1. Len(c2.io) = LenOf(s, c2.io[1][1]) /\ LenOf(s, c2.io[1][1]) \in Nat
      <4>1. m \in 0..Len(s) /\ t.io = UnitsOf(s, m)
        BY <1>9, <1>14
      <4>2. Len(UnitsOf(s, m)) = LenOf(s, m) /\ LenOf(s, m) \in Nat
        <5> HIDE DEF m
        <5> QED BY <1>1, <4>1, UnitsOfType, LenOfType
      <4> QED BY <2>2, <4>1, <4>2
    <3> QED BY <1>5, <2>2, <2>3, <3>1 DEF Reads
  <2>5. Good(sc, e, p, c2, d, we, wp)
    <3> HIDE DEF c
    <3> QED BY <1>0, <1>2, <2>2, <2>3, <2>4, GoodKeep DEF c
  <2> QED BY <2>1, <2>5
<1>15. ASSUME ~Done(e), r.complete, m # 0, m = c.msg
       PROVE  m \in 1..Len(s) /\ UnitsOf(s, c.msg) = t.io /\ s[m].from = p /\ c.msg \in 1..Len(s)
  BY <1>1, <1>9, <1>15
<1>16. ASSUME ~Done(e), r.complete, m # 0, m = c.msg, ~IsWriter(e), s[m].readerBlocks
       PROVE  Good(sc, e, p, z, d, we, wp)
  <2> DEFINE c2 == [back EXCEPT !.async = "INVOKED_WAITING", !.paused = TRUE]
  <2>1. z = c2
    BY <1>16 DEF ReadMessage, Script
  <2>2. p \notin sc.foreign
    <3>1. m \in DOMAIN s /\ s[m].from = p
      BY <1>1, <1>15, <1>16
    <3> QED BY <1>16, <3>1 DEF Tame
  <2>3. t.in = <<>>
    <3> DEFINE n == c.msg
               U == UnitsOf(s, n)
               B == t.in
    <3>1. n \in 1..Len(s) /\ U = t.io
      BY <1>15, <1>16
    <3>2. U \o B = c.io \o c.in
      BY <1>7, <3>1
    <3>3. OneMessage(U \o B)
      BY <1>5, <2>2, <3>2
    <3>4. WellCut(s, (U \o B) \o Y) /\ Ordered((U \o B) \o Y)
      BY <1>3, <3>2 DEF Turn, Arriving
    <3>5. B \in Seq(Unit)
      BY <1>8
    <3> HIDE DEF B, n
    <3>6. B = <<>>
      BY <1>1, <3>1, <3>3, <3>4, <3>5, OneWhole
    <3> QED BY <3>6 DEF B
  <2>4. /\ c2 \in Connection /\ c2.msg = c.msg /\ c2.io = t.io /\ c2.in = t.in /\ c2.out = c.out
        /\ c2.status = "PLAINTEXT" /\ ~c2.looping /\ c2.paused /\ c2.hash = c.hash
        /\ c2.failed = c.failed
    <3> HIDE DEF back, c, t
    <3> QED BY <1>5, <1>10 DEF Connection
  <2>5. c2.io \o c2.in = c.io \o c.in
    BY <1>7, <2>4
  <2> HIDE DEF c2
  <2>6. Reads(sc, p, c2)
    <3>1. c2.io = UnitsOf(s, c2.msg) /\ ~(c2.msg > Len(s))
      BY <1>1, <1>15, <1>16, <2>4
    <3>2. Len(c2.io) = LenOf(s, c2.io[1][1]) /\ LenOf(s, c2.io[1][1]) \in Nat
      <4>1. m \in 0..Len(s) /\ t.io = UnitsOf(s, m)
        BY <1>9, <1>16
      <4>2. Len(UnitsOf(s, m)) = LenOf(s, m) /\ LenOf(s, m) \in Nat
        <5> HIDE DEF m
        <5> QED BY <1>1, <4>1, UnitsOfType, LenOfType
      <4> QED BY <2>4, <4>1, <4>2
    <3>3. Len(c2.io) <= LenOf(s, c2.io[1][1])
      BY <3>2
    <3>4. p \notin sc.foreign => OneMessage(c2.io \o c2.in)
      BY <1>5, <2>5
    <3>5. ~c2.looping /\ c2.paused /\ c2.in = <<>>
      BY <2>3, <2>4
    <3> HIDE DEF s
    <3> QED BY <3>1, <3>3, <3>4, <3>5, Zenon DEF Reads, s
  <2>7. Good(sc, e, p, c2, d, we, wp)
    <3> HIDE DEF c
    <3> QED BY <1>0, <1>2, <2>4, <2>5, <2>6, GoodKeep DEF c
  <2> QED BY <2>1, <2>7
<1>17. ASSUME ~Done(e), r.complete, m # 0, m = c.msg, ~IsWriter(e), ~s[m].readerBlocks
       PROVE  Good(sc, e, p, z, d, we, wp)
  <2> DEFINE c2 == s2n_finish_read(t)
             U == UnitsOf(s, c.msg)
  <2>1. z = c2
    BY <1>17 DEF ReadMessage, Script
  <2>2. U = t.io /\ c.msg \in 1..Len(s)
    BY <1>15, <1>17
  <2>3. /\ c2 \in Connection /\ c2.msg = c.msg + 1 /\ c2.io = <<>> /\ c2.read = 0 /\ c2.wiped
        /\ c2.in = t.in /\ c2.out = c.out /\ c2.status = "PLAINTEXT" /\ ~c2.paused
        /\ c2.hash = c.hash \o t.io /\ c2.failed = c.failed
    <3> DEFINE h == t.hash \o t.io
    <3>1. h \in Seq(Nat \X Nat) /\ <<>> \in Seq(Nat \X Nat) /\ t.msg + 1 \in Nat /\ h = c.hash \o t.io
      <4>1. t.hash \in Seq(Unit)
        BY <1>7, ConnType
      <4> QED BY <1>1, <1>7, <1>8, <4>1, EmptySeq, ConcatProperties DEF Unit
    <3>2. c2 = [t EXCEPT !.hash = h, !.io = <<>>, !.read = 0, !.wiped = TRUE, !.msg = t.msg + 1]
      <4> HIDE DEF t
      <4>1. t \in Connection
        BY <1>7
      <4> QED BY <4>1, <3>1 DEF s2n_finish_read, s2n_advance_message, WipeIo, s2n_handshake_conn_update_hashes, Connection
    <3> HIDE DEF t, h, c2, c
    <3> QED BY <1>5, <1>7, <3>1, <3>2 DEF Connection
  <2>4. U \o c2.in = c.io \o c.in
    BY <1>7, <2>2, <2>3
  <2>5. Good(sc, e, p, c2, d, we, wp)
    <3>1. ~c.failed /\ c2.hash = c.hash \o U
      BY <2>2, <2>3
    <3> HIDE DEF c, c2, t
    <3> QED BY <1>0, <1>2, <2>2, <2>3, <2>4, <3>1, GoodReceive DEF c
  <2> QED BY <2>1, <2>5
<1> HIDE DEF c, z, r, m
<1>18. r.complete \in BOOLEAN
  BY <1>6
<1> QED BY <1>11, <1>12, <1>13, <1>14, <1>16, <1>17, <1>18 DEF c, z

LEMMA GoodRetryReader ==
  ASSUME NEW k, NEW e, NEW p, e # p, NEW c, NEW d, NEW we, NEW wp, Good(k, e, p, c, d, we, wp),
         e \notin k.foreign, ~c.failed, ~WriterOf(k, e, c), c.paused
  PROVE  Good(k, e, p, s2n_finish_read(s2n_wipe_record(Resume(c))), d, we, wp)
<1> DEFINE c2 == s2n_finish_read(s2n_wipe_record(Resume(c)))
           U == UnitsOf(k.script, c.msg)
           h == c.hash \o c.io
<1>0. k \in Scenarios /\ c \in Connection /\ c.msg \in 1..(Len(k.script) + 1) /\ Local(k, e, p, c, we)
  BY DEF Good
<1>1. /\ Len(k.script) \in Nat /\ c.msg \in Nat /\ c.io \in Seq(Unit) /\ c.hash \in Seq(Unit)
      /\ <<>> \in Seq(Unit)
  BY <1>0, ScenarioType, ConnType, EmptySeq
<1>2. ~(c.msg > Len(k.script)) /\ c.io = U /\ c.in = <<>>
  BY <1>0 DEF Local, Sound, Reads
<1>3. c.msg \in 1..Len(k.script)
  BY <1>0, <1>1, <1>2
<1>4. /\ c2 \in Connection /\ c2.msg = c.msg + 1 /\ c2.io = <<>> /\ c2.read = 0 /\ c2.wiped
      /\ c2.in = <<>> /\ c2.out = c.out /\ ~c2.paused /\ c2.hash = h /\ c2.failed = c.failed
  <2>1. h \in Seq(Nat \X Nat) /\ <<>> \in Seq(Nat \X Nat) /\ c.msg + 1 \in Nat
    BY <1>1, ConcatProperties DEF Unit
  <2>2. c2 = [c EXCEPT !.async = "NOT_INVOKED", !.paused = FALSE, !.in = <<>>,
                       !.status = "ENCRYPTED", !.hash = h, !.io = <<>>, !.read = 0,
                       !.wiped = TRUE, !.msg = c.msg + 1]
    BY <1>0 DEF s2n_finish_read, s2n_advance_message, WipeIo, s2n_wipe_record, Resume,
                s2n_handshake_conn_update_hashes, Connection
  <2> HIDE DEF c2, h
  <2> QED BY <1>0, <2>1, <2>2 DEF Connection
<1>5. U \o c2.in = c.io \o c.in /\ c2.hash = c.hash \o U
  BY <1>2, <1>4
<1> HIDE DEF c2
<1>6. Good(k, e, p, c2, d, we, wp)
  BY <1>3, <1>4, <1>5, GoodReceive
<1> QED BY <1>6 DEF c2

-----------------------------------------------------------------------------
(***************************************************************************)
(* A foreign endpoint.                                                     *)
(***************************************************************************)
LEMMA ForeignLocal ==
  ASSUME NEW k, NEW e, NEW p, NEW c, NEW we, Local(k, e, p, c, we), e \in k.foreign,
         NEW c2, NEW we2, c2.looping = c.looping, c2.failed = c.failed, c2.async = c.async
  PROVE  Local(k, e, p, c2, we2)
BY DEF Local

LEMMA ForeignSide ==
  ASSUME NEW k, NEW e, NEW p, NEW c, NEW d, NEW we, NEW wp, Good(k, e, p, c, d, we, wp),
         e \in k.foreign
  PROVE  LET x == SideOf(k, e, p, c, d, wp) IN
         /\ x.S = OnWay(<<>>, c.in, wp, TlOf(k, p, d)) /\ x.n = c.msg /\ x.r = 0
         /\ x.w = WriterOf(k, e, c) /\ x.h = c.hash /\ x.f = c.failed /\ ~c.failed
<1>1. RdOf(k, e, c) = <<>> /\ PutOf(k, e, c) = 0 /\ AsksOf(k, e, c) = WriterOf(k, e, c)
  BY DEF RdOf, PutOf, AsksOf, WriterOf
<1>2. ~c.failed
  BY DEF Good, Local
<1> QED BY <1>1, <1>2, SideFields

LEMMA GoodForeignMessage ==
  ASSUME NEW k, NEW e, NEW p, e # p, NEW c, NEW d, NEW we, NEW wp, Good(k, e, p, c, d, we, wp),
         e \in k.foreign, WriterOf(k, e, c)
  PROVE  Good(k, e, p, [c EXCEPT !.io = c.io \o UnitsOf(k.script, c.msg), !.msg = c.msg + 1,
                                 !.hash = c.hash \o UnitsOf(k.script, c.msg)], d, we, wp)
<1> DEFINE s == k.script
           U == UnitsOf(s, c.msg)
           F == c.io \o U
           h == c.hash \o U
           c2 == [c EXCEPT !.io = F, !.msg = c.msg + 1, !.hash = h]
           x == SideOf(k, e, p, c, d, wp)
           y == SideOf(k, p, e, d, c, we)
           x2 == SideOf(k, e, p, c2, d, wp)
           y2 == SideOf(k, p, e, d, c2, we)
<1>0. /\ k \in Scenarios /\ c \in Connection /\ d \in Connection /\ c.msg \in 1..(Len(s) + 1)
      /\ we \in Seq(Seq(Unit)) /\ wp \in Seq(Seq(Unit))
      /\ Local(k, e, p, c, we) /\ Local(k, p, e, d, wp) /\ Pair(s, e, p, x, y)
  BY DEF Good
<1>1. /\ s \in Seq(ScriptEntry) /\ Len(s) \in Nat /\ c.msg \in 1..Len(s) /\ U \in Seq(Unit)
      /\ c.io \in Seq(Unit) /\ c.hash \in Seq(Unit) /\ c.msg \in Nat /\ s[c.msg].from = e
  BY <1>0, ScenarioType, ConnType, OwnUnits DEF WriterOf
<1>2. F \in Seq(Unit) /\ h \in Seq(Unit)
  <2> HIDE DEF U
  <2> QED BY <1>1, ConcatProperties
<1>3. /\ c2 \in Connection /\ c2.msg = c.msg + 1 /\ c2.io = F /\ c2.in = c.in /\ c2.out = c.out
      /\ c2.looping = c.looping /\ c2.async = c.async /\ c2.hash = h /\ c2.failed = c.failed
  <2>1. c.msg + 1 \in Nat
    BY <1>1
  <2> HIDE DEF F, h
  <2> QED BY <1>0, <1>2, <2>1 DEF Connection, Unit
<1> HIDE DEF c2
<1>4. /\ x.n = c.msg /\ x.r = 0 /\ x.w /\ ~x.f /\ x.h = c.hash
  BY ForeignSide
<1>5. /\ x2.S = x.S /\ x2.n = c.msg + 1 /\ x2.r = 0 /\ x2.f = x.f /\ x2.h = h
      /\ x2.w => x2.n <= Len(s) /\ s[x2.n].from = e
  <2>1. RdOf(k, e, c) = <<>> /\ RdOf(k, e, c2) = <<>> /\ PutOf(k, e, c2) = 0
    BY DEF RdOf, PutOf
  <2>2. AsksOf(k, e, c2) => c2.msg <= Len(s) /\ s[c2.msg].from = e
    BY <1>1, <1>3 DEF AsksOf, WriterOf
  <2> HIDE DEF h
  <2> QED BY <1>3, <2>1, <2>2 DEF SideOf
<1>6. x2 \in Side /\ y2 \in Side
  BY <1>0, <1>3, SideOfType
<1>7. y2.S = y.S \o U
  <2> DEFINE R == RdOf(k, p, d)
             I == d.in
             T == c.io
  <2>1. R \in Seq(Unit) /\ I \in Seq(Unit) /\ T \in Seq(Unit)
    BY <1>0, <1>1, ConnType, SideOfType
  <2>2. y.S = OnWay(R, I, we, T) /\ y2.S = OnWay(R, I, we, T \o U)
    BY <1>3 DEF SideOf, TlOf
  <2> HIDE DEF R, I, T, U
  <2>3. Grows(R, I, we, T, U)
    BY <1>0, <1>1, <2>1, WayGrows
  <2> QED BY <2>2, <2>3 DEF Grows
<1>8. y2.n = y.n /\ y2.r = y.r /\ y2.w = y.w /\ y2.h = y.h /\ y2.f = y.f
  BY DEF SideOf
<1>9. SendsWhole(s, e, x, y, x2, y2)
  <2>1. Writes(s, e, x)
    <3> HIDE DEF x
    <3> QED BY <1>1, <1>4 DEF Writes
  <2>2. Gains(y, y2, UnitsOf(s, x.n))
    <3> HIDE DEF x, y, y2
    <3> QED BY <1>4, <1>6, <1>7, <1>8 DEF Gains
  <2> HIDE DEF x, y, x2, y2
  <2> QED BY <1>4, <1>5, <1>6, <2>1, <2>2 DEF SendsWhole
<1>10. Pair(s, e, p, x2, y2)
  <2> HIDE DEF x, y, x2, y2
  <2> QED BY <1>0, <1>1, <1>9, PairSendWhole
<1>11. Local(k, e, p, c2, we)
  BY <1>0, <1>3, ForeignLocal
<1>12. c2.msg \in 1..(Len(s) + 1)
  BY <1>1, <1>3
<1>13. Good(k, e, p, c2, d, we, wp)
  BY <1>0, <1>3, <1>10, <1>11, <1>12, GoodBy
<1> QED BY <1>13 DEF c2

LEMMA GoodForeignRequest ==
  ASSUME NEW k, NEW e, NEW p, e # p, NEW c, NEW d, NEW we, NEW wp, Good(k, e, p, c, d, we, wp),
         e \in k.foreign, WriterOf(k, e, c)
  PROVE  Good(k, e, p, [c EXCEPT !.io = c.io \o UnitsOf(k.script, 0)], d, we, wp)
<1> DEFINE s == k.script
           U == UnitsOf(s, 0)
           F == c.io \o U
           c2 == [c EXCEPT !.io = F]
           x == SideOf(k, e, p, c, d, wp)
           y == SideOf(k, p, e, d, c, we)
           x2 == SideOf(k, e, p, c2, d, wp)
           y2 == SideOf(k, p, e, d, c2, we)
<1>0. /\ k \in Scenarios /\ c \in Connection /\ d \in Connection /\ c.msg \in 1..(Len(s) + 1)
      /\ we \in Seq(Seq(Unit)) /\ wp \in Seq(Seq(Unit))
      /\ Local(k, e, p, c, we) /\ Local(k, p, e, d, wp) /\ Pair(s, e, p, x, y)
  BY DEF Good
<1>1. s \in Seq(ScriptEntry) /\ c.io \in Seq(Unit) /\ U \in Seq(Unit)
  <2>1. s \in Seq(ScriptEntry) /\ Len(s) \in Nat
    BY <1>0, ScenarioType
  <2>2. U \in Seq(Unit)
    <3> DEFINE m == 0
    <3>1. m \in 0..Len(s)
      BY <2>1
    <3>2. UnitsOf(s, m) \in Seq(Unit)
      <4> HIDE DEF m
      <4> QED BY <2>1, <3>1, UnitsOfType
    <3> QED BY <3>2
  <2> QED BY <1>0, <2>1, <2>2, ConnType
<1>2. F \in Seq(Unit)
  <2> HIDE DEF U
  <2> QED BY <1>1, ConcatProperties
<1>3. /\ c2 \in Connection /\ c2.msg = c.msg /\ c2.io = F /\ c2.in = c.in /\ c2.out = c.out
      /\ c2.looping = c.looping /\ c2.async = c.async /\ c2.hash = c.hash /\ c2.failed = c.failed
      /\ c2.read = c.read
  <2> HIDE DEF F
  <2> QED BY <1>0, <1>2 DEF Connection, Unit
<1> HIDE DEF c2
<1>4. x.w
  BY ForeignSide
<1>5. x2 = x
  <2>1. WriterOf(k, e, c2) = WriterOf(k, e, c)
    BY <1>3 DEF WriterOf
  <2>2. RdOf(k, e, c) = <<>> /\ RdOf(k, e, c2) = <<>>
    BY DEF RdOf
  <2> QED BY <1>3, <2>1, <2>2 DEF SideOf, PutOf, AsksOf
<1>6. y2 \in Side
  BY <1>0, <1>3, SideOfType
<1>7. y2.S = y.S \o U
  <2> DEFINE R == RdOf(k, p, d)
             I == d.in
             T == c.io
  <2>1. R \in Seq(Unit) /\ I \in Seq(Unit) /\ T \in Seq(Unit)
    BY <1>0, <1>1, ConnType, SideOfType
  <2>2. y.S = OnWay(R, I, we, T) /\ y2.S = OnWay(R, I, we, T \o U)
    BY <1>3 DEF SideOf, TlOf
  <2> HIDE DEF R, I, T, U
  <2>3. Grows(R, I, we, T, U)
    BY <1>0, <1>1, <2>1, WayGrows
  <2> QED BY <2>2, <2>3 DEF Grows
<1>8. y2.n = y.n /\ y2.r = y.r /\ y2.w = y.w /\ y2.h = y.h /\ y2.f = y.f
  BY DEF SideOf
<1>9. Requests(s, x, y, y2)
  <2> HIDE DEF x, y, y2, U
  <2> QED BY <1>4, <1>6, <1>7, <1>8 DEF Requests, Gains, U
<1>10. Pair(s, e, p, x2, y2)
  <2> HIDE DEF x, y, x2, y2
  <2> QED BY <1>0, <1>1, <1>5, <1>9, PairRequest
<1>11. Local(k, e, p, c2, we)
  BY <1>0, <1>3, ForeignLocal
<1>13. Good(k, e, p, c2, d, we, wp)
  BY <1>0, <1>3, <1>10, <1>11, GoodBy
<1> QED BY <1>13 DEF c2

LEMMA GoodForeignRecord ==
  ASSUME NEW k, NEW e, NEW p, NEW c, NEW d, NEW we, NEW wp, Good(k, e, p, c, d, we, wp),
         e \in k.foreign, NEW n \in 1..Len(c.io)
  PROVE  Good(k, e, p, [c EXCEPT !.io = SubSeq(c.io, n + 1, Len(c.io))], d,
              Append(we, SubSeq(c.io, 1, n)), wp)
<1> DEFINE A == c.io
           f == SubSeq(A, 1, n)
           T == SubSeq(A, n + 1, Len(A))
           c2 == [c EXCEPT !.io = T]
           we2 == Append(we, f)
<1>0. /\ k \in Scenarios /\ c \in Connection /\ d \in Connection
      /\ we \in Seq(Seq(Unit)) /\ wp \in Seq(Seq(Unit))
      /\ Local(k, e, p, c, we) /\ Local(k, p, e, d, wp)
  BY DEF Good
<1>1. A \in Seq(Unit)
  BY <1>0, ConnType
<1>2. f \in Seq(Unit) /\ T \in Seq(Unit) /\ f \o T = A
  <2>1. Len(A) \in Nat /\ n \in Nat /\ n <= Len(A) /\ 1 <= n
    BY <1>1
  <2> HIDE DEF A
  <2>2. f \in Seq(Unit) /\ T \in Seq(Unit)
    BY <1>1, <2>1
  <2>3. f \o T = A
    BY <1>1, <2>1, CutInTwo
  <2> QED BY <2>2, <2>3
<1>3. /\ c2 \in Connection /\ c2.msg = c.msg /\ c2.io = T /\ c2.in = c.in /\ c2.out = c.out
      /\ c2.looping = c.looping /\ c2.async = c.async /\ c2.hash = c.hash /\ c2.failed = c.failed
      /\ c2.read = c.read
  <2> HIDE DEF T
  <2> QED BY <1>0, <1>2 DEF Connection, Unit
<1> HIDE DEF c2
<1>4. we2 \in Seq(Seq(Unit))
  <2> HIDE DEF f
  <2> QED BY <1>0, <1>2, AppendProperties
<1>5. SideOf(k, e, p, c2, d, wp) = SideOf(k, e, p, c, d, wp)
  <2>1. WriterOf(k, e, c2) = WriterOf(k, e, c)
    BY <1>3 DEF WriterOf
  <2>2. RdOf(k, e, c) = <<>> /\ RdOf(k, e, c2) = <<>>
    BY DEF RdOf
  <2> QED BY <1>3, <2>1, <2>2 DEF SideOf, PutOf, AsksOf
<1>6. SideOf(k, p, e, d, c2, we2) = SideOf(k, p, e, d, c, we)
  <2> DEFINE R == RdOf(k, p, d)
             I == d.in
  <2>1. R \in Seq(Unit) /\ I \in Seq(Unit)
    BY <1>0, ConnType, SideOfType
  <2>2. Leaves(R, I, we, T, f)
    <3> HIDE DEF R, I, T, f
    <3> QED BY <1>0, <1>2, <2>1, WayLeaves
  <2>3. OnWay(R, I, we2, T) = OnWay(R, I, we, A)
    <3> HIDE DEF R, I, T, f, A
    <3> QED BY <1>2, <2>2 DEF Leaves
  <2>4. TlOf(k, e, c2) = T /\ TlOf(k, e, c) = A
    BY <1>3 DEF TlOf
  <2> HIDE DEF T, A, we2
  <2> QED BY <2>3, <2>4 DEF SideOf
<1>7. Local(k, e, p, c2, we2)
  BY <1>0, <1>3, ForeignLocal
<1>8. Good(k, e, p, c2, d, we2, wp)
  <2> HIDE DEF we2
  <2> QED BY <1>0, <1>3, <1>4, <1>5, <1>6, <1>7, GoodUnseen DEF Unseen
<1> QED BY <1>8 DEF c2

LEMMA TailLocal ==
  ASSUME NEW k, NEW p, NEW e, NEW d, NEW wp \in Seq(Seq(Unit)), wp # <<>>, Local(k, p, e, d, wp)
  PROVE  Tail(wp) \in Seq(Seq(Unit)) /\ Head(wp) \in Seq(Unit) /\ Local(k, p, e, d, Tail(wp))
<1>1. \A i \in 1..Len(Tail(wp)) : i + 1 \in 1..Len(wp) /\ Tail(wp)[i] = wp[i+1]
  OBVIOUS
<1>2. Tail(wp) \in Seq(Seq(Unit)) /\ Head(wp) \in Seq(Unit)
  BY HeadTailProperties
<1>3. Local(k, p, e, d, Tail(wp))
  BY <1>1 DEF Local
<1> QED BY <1>2, <1>3

(* What arrives is kept until it is a whole message. *)
LEMMA GoodForeignPart ==
  ASSUME NEW k, NEW e, NEW p, NEW c, NEW d, NEW we, NEW wp, Good(k, e, p, c, d, we, wp),
         e \in k.foreign, wp # <<>>
  PROVE  Good(k, e, p, [c EXCEPT !.in = c.in \o Head(wp)], d, we, Tail(wp))
<1> DEFINE G == c.in \o Head(wp)
           c2 == [c EXCEPT !.in = G]
           E == <<>>
           T == TlOf(k, p, d)
           I == c.in
<1>0. /\ k \in Scenarios /\ c \in Connection /\ d \in Connection
      /\ we \in Seq(Seq(Unit)) /\ wp \in Seq(Seq(Unit))
      /\ Local(k, e, p, c, we) /\ Local(k, p, e, d, wp)
  BY DEF Good
<1>1. I \in Seq(Unit) /\ T \in Seq(Unit) /\ E \in Seq(Unit)
  BY <1>0, ConnType, SideOfType, EmptySeq
<1>2. Tail(wp) \in Seq(Seq(Unit)) /\ Head(wp) \in Seq(Unit) /\ Local(k, p, e, d, Tail(wp))
  BY <1>0, TailLocal
<1>3. G \in Seq(Unit)
  BY <1>1, <1>2, ConcatProperties
<1>4. /\ c2 \in Connection /\ c2.msg = c.msg /\ c2.io = c.io /\ c2.in = G /\ c2.out = c.out
      /\ c2.looping = c.looping /\ c2.async = c.async /\ c2.hash = c.hash /\ c2.failed = c.failed
      /\ c2.read = c.read
  <2> HIDE DEF G
  <2> QED BY <1>0, <1>3 DEF Connection, Unit
<1> HIDE DEF c2
<1>5. OnWay(E, G, Tail(wp), T) = OnWay(E, I, wp, T)
  <2>1. Arrives(E, I, wp, T)
    <3> HIDE DEF E, I, T
    <3> QED BY <1>0, <1>1, WayArrives
  <2> QED BY <2>1 DEF Arrives
<1>6. SideOf(k, e, p, c2, d, Tail(wp)) = SideOf(k, e, p, c, d, wp)
  <2>1. WriterOf(k, e, c2) = WriterOf(k, e, c)
    BY <1>4 DEF WriterOf
  <2>2. RdOf(k, e, c) = E /\ RdOf(k, e, c2) = E
    BY DEF RdOf
  <2> HIDE DEF E, G
  <2> QED BY <1>4, <1>5, <2>1, <2>2 DEF SideOf, PutOf, AsksOf
<1>7. SideOf(k, p, e, d, c2, we) = SideOf(k, p, e, d, c, we)
  BY <1>4 DEF SideOf, TlOf
<1>8. Local(k, e, p, c2, we)
  BY <1>0, <1>4, ForeignLocal
<1>9. Good(k, e, p, c2, d, we, Tail(wp))
  BY <1>0, <1>2, <1>4, <1>6, <1>7, <1>8, GoodUnseen DEF Unseen
<1> QED BY <1>9 DEF c2

LEMMA GoodForeignWhole ==
  ASSUME NEW k, NEW e, NEW p, e # p, NEW c, NEW d, NEW we, NEW wp, Good(k, e, p, c, d, we, wp),
         e \in k.foreign, wp # <<>>, ~WriterOf(k, e, c), c.msg \in 1..Len(k.script),
         c.in \o Head(wp) = UnitsOf(k.script, c.msg)
  PROVE  Good(k, e, p, [c EXCEPT !.in = <<>>, !.msg = c.msg + 1, !.hash = c.hash \o (c.in \o Head(wp))],
              d, we, Tail(wp))
<1> DEFINE s == k.script
           U == c.in \o Head(wp)
           h == c.hash \o U
           E == <<>>
           c2 == [c EXCEPT !.in = <<>>, !.msg = c.msg + 1, !.hash = h]
           T == TlOf(k, p, d)
           I == c.in
           w2 == Tail(wp)
           x == SideOf(k, e, p, c, d, wp)
           y == SideOf(k, p, e, d, c, we)
           x2 == SideOf(k, e, p, c2, d, w2)
           y2 == SideOf(k, p, e, d, c2, we)
<1>0. /\ k \in Scenarios /\ c \in Connection /\ d \in Connection
      /\ we \in Seq(Seq(Unit)) /\ wp \in Seq(Seq(Unit))
      /\ Local(k, e, p, c, we) /\ Local(k, p, e, d, wp) /\ Pair(s, e, p, x, y)
  BY DEF Good
<1>1. I \in Seq(Unit) /\ T \in Seq(Unit) /\ E \in Seq(Unit) /\ c.hash \in Seq(Unit) /\ c.msg \in Nat
      /\ s \in Seq(ScriptEntry) /\ Len(s) \in Nat
  <2>1. T \in Seq(Unit)
    BY <1>0, SideOfType
  <2> QED BY <1>0, <2>1, ConnType, ScenarioType, EmptySeq
<1>2. w2 \in Seq(Seq(Unit)) /\ Head(wp) \in Seq(Unit) /\ Local(k, p, e, d, w2)
  BY <1>0, TailLocal
<1>3. U \in Seq(Unit)
  BY <1>1, <1>2, ConcatProperties
<1>4. h \in Seq(Unit) /\ c.msg + 1 \in Nat
  <2> HIDE DEF U
  <2> QED BY <1>1, <1>3, ConcatProperties
<1>5. /\ c2 \in Connection /\ c2.msg = c.msg + 1 /\ c2.io = c.io /\ c2.in = <<>> /\ c2.out = c.out
      /\ c2.looping = c.looping /\ c2.async = c.async /\ c2.hash = h /\ c2.failed = c.failed
  <2>1. <<>> \in Seq(Nat \X Nat)
    BY <1>1 DEF Unit
  <2> HIDE DEF h
  <2> QED BY <1>0, <1>4, <2>1 DEF Connection, Unit
<1> HIDE DEF c2
<1>6. /\ x.n = c.msg /\ x.r = 0 /\ ~x.w /\ ~x.f /\ x.h = c.hash /\ x.S = OnWay(E, I, wp, T)
  BY ForeignSide
<1>7. /\ x2.S = OnWay(E, E, w2, T) /\ x2.n = c.msg + 1 /\ x2.r = 0 /\ x2.f = x.f /\ x2.h = h
      /\ x2.w => x2.n <= Len(s) /\ s[x2.n].from = e
  <2>1. RdOf(k, e, c2) = E /\ PutOf(k, e, c2) = 0
    BY DEF RdOf, PutOf
  <2>2. AsksOf(k, e, c2) => c2.msg <= Len(s) /\ s[c2.msg].from = e
    BY <1>1, <1>5 DEF AsksOf, WriterOf
  <2> HIDE DEF h, w2
  <2> QED BY <1>5, <2>1, <2>2 DEF SideOf
<1>8. x2 \in Side /\ y2 = y
  <2>1. x2 \in Side
    <3> HIDE DEF w2
    <3> QED BY <1>0, <1>2, <1>5, SideOfType
  <2> QED BY <1>5, <2>1 DEF SideOf, TlOf
<1>9. OnWay(E, I, wp, T) = U \o OnWay(E, E, w2, T)
  <2> DEFINE V == Rest(w2, T)
  <2>1. Arrives(E, I, wp, T)
    <3> HIDE DEF E, I, T
    <3> QED BY <1>0, <1>1, WayArrives
  <2>2. OnWay(E, I, wp, T) = OnWay(E, U, w2, T)
    BY <2>1 DEF Arrives
  <2>3. E \o U = U /\ E \o E = E
    <3> HIDE DEF U
    <3> QED BY <1>1, <1>3, ConcatEmptySeq
  <2>4. V \in Seq(Unit)
    <3> HIDE DEF w2, T
    <3> QED BY <1>1, <1>2, RestType, Zenon
  <2>5. E \o V = V
    <3> HIDE DEF V
    <3> QED BY <2>4, ConcatEmptySeq
  <2>6. Splits(E, U, w2, T) /\ Splits(E, E, w2, T)
    <3> HIDE DEF E, U, w2, T
    <3> QED BY <1>1, <1>2, <1>3, WaySplits
  <2> HIDE DEF E, U, w2, T, I
  <2> QED BY <2>2, <2>3, <2>5, <2>6 DEF Splits
<1>10. Receives(s, e, x, x2)
  <2>1. UnitsOf(s, x.n) = U
    BY <1>6
  <2> HIDE DEF x, x2, U
  <2> QED BY <1>6, <1>7, <1>8, <1>9, <2>1 DEF Receives
<1>11. Pair(s, e, p, x2, y2)
  <2> HIDE DEF x, x2, y, y2
  <2> QED BY <1>0, <1>1, <1>8, <1>10, PairReceive
<1>12. Local(k, e, p, c2, we)
  BY <1>0, <1>5, ForeignLocal
<1>13. c2.msg \in 1..(Len(s) + 1)
  BY <1>1, <1>5
<1>14. Good(k, e, p, c2, d, we, w2)
  <2> HIDE DEF w2
  <2> QED BY <1>0, <1>2, <1>5, <1>11, <1>12, <1>13, GoodBy
<1> QED BY <1>14 DEF c2

-----------------------------------------------------------------------------
(***************************************************************************)
(* The invariant is inductive.                                             *)
(***************************************************************************)
Both == Good(sc, "client", "server", conn["client"], conn["server"], wire["client"], wire["server"])
IInv == TypeOK /\ Both

LEMMA EitherSide ==
  ASSUME IInv, NEW e \in Endpoint
  PROVE  /\ Good(sc, e, Peer(e), conn[e], conn[Peer(e)], wire[e], wire[Peer(e)])
         /\ e # Peer(e) /\ Peer(e) \in Endpoint /\ sc \in Scenarios
         /\ WriterOf(sc, e, conn[e]) = IsWriter(e)
<1>1. Both /\ sc \in Scenarios
  BY DEF IInv, TypeOK
<1>2. WriterOf(sc, e, conn[e]) = IsWriter(e)
  BY DEF WriterOf, IsWriter, Done, Script
<1>3. CASE e = "client"
  BY <1>1, <1>2, <1>3 DEF Peer, Both, Endpoint
<1>4. CASE e = "server"
  <2>1. Good(sc, "server", "client", conn["server"], conn["client"], wire["server"], wire["client"])
    BY <1>1, GoodSwap DEF Both
  <2> QED BY <1>1, <1>2, <1>4, <2>1 DEF Peer, Endpoint
<1> QED BY <1>3, <1>4 DEF Endpoint

LEMMA Step ==
  ASSUME IInv, NEW e \in Endpoint, NEW c2, NEW we2, NEW wp2,
         Good(sc, e, Peer(e), c2, conn[Peer(e)], we2, wp2),
         Len(we2) <= Capacity, Len(wp2) <= Capacity,
         sc' = sc, conn' = [conn EXCEPT ![e] = c2],
         wire' \in [Endpoint -> Seq(Seq(Unit))], wire'[e] = we2, wire'[Peer(e)] = wp2,
         requests' \in 0..MaxHelloRequests
  PROVE  IInv'
<1> DEFINE p == Peer(e)
<1>0. /\ sc \in Scenarios /\ conn \in [Endpoint -> Connection]
      /\ \A x \in Endpoint : conn[x].msg \in 1..(Len(sc.script) + 1)
      /\ p \in Endpoint /\ p # e
  BY EitherSide DEF IInv, TypeOK, Script
<1>1. c2 \in Connection /\ c2.msg \in 1..(Len(sc.script) + 1)
  BY DEF Good
<1>2. conn' \in [Endpoint -> Connection] /\ conn'[e] = c2 /\ conn'[p] = conn[p]
  BY <1>0, <1>1
<1>3. \A x \in Endpoint : x = e \/ x = p
  BY DEF Endpoint, Peer
<1>4. \A x \in Endpoint : conn'[x].msg \in 1..(Len(sc.script) + 1) /\ Len(wire'[x]) <= Capacity
  <2> SUFFICES ASSUME NEW x \in Endpoint
               PROVE  conn'[x].msg \in 1..(Len(sc.script) + 1) /\ Len(wire'[x]) <= Capacity
    OBVIOUS
  <2>1. CASE x = e
    BY <1>1, <1>2, <2>1
  <2>2. CASE x = p
    BY <1>0, <1>2, <2>2
  <2> QED BY <1>3, <2>1, <2>2
<1>5. TypeOK'
  BY <1>0, <1>2, <1>4 DEF TypeOK, Script, Unit
<1>6. Good(sc', e, p, conn'[e], conn'[p], wire'[e], wire'[p])
  BY <1>2
<1>7. Both'
  <2>1. CASE e = "client"
    BY <1>6, <2>1 DEF Peer, Both
  <2>2. CASE e = "server"
    <3>1. Good(sc', "server", "client", conn'["server"], conn'["client"], wire'["server"], wire'["client"])
      BY <1>6, <2>2 DEF Peer
    <3>2. Good(sc', "client", "server", conn'["client"], conn'["server"], wire'["client"], wire'["server"])
      BY <3>1, GoodSwap
    <3> QED BY <3>2 DEF Both
  <2> QED BY <2>1, <2>2 DEF Endpoint
<1> QED BY <1>5, <1>7 DEF IInv

(* A step of one endpoint that leaves the wire alone, writes a record or   *)
(* reads one.                                                              *)
LEMMA StepAlone ==
  ASSUME IInv, NEW e \in Endpoint, NEW c2, Set(e, c2),
         Good(sc, e, Peer(e), c2, conn[Peer(e)], wire[e], wire[Peer(e)]),
         sc' = sc, wire' = wire, requests' \in 0..MaxHelloRequests
  PROVE  IInv'
<1>1. /\ wire \in [Endpoint -> Seq(Seq(Unit))] /\ Peer(e) \in Endpoint
      /\ \A x \in Endpoint : Len(wire[x]) <= Capacity
  BY EitherSide DEF IInv, TypeOK, Unit
<1>2. wire' \in [Endpoint -> Seq(Seq(Unit))] /\ wire'[e] = wire[e] /\ wire'[Peer(e)] = wire[Peer(e)]
  BY <1>1
<1>3. Len(wire[e]) <= Capacity /\ Len(wire[Peer(e)]) <= Capacity
  BY <1>1
<1>4. conn' = [conn EXCEPT ![e] = c2]
  BY DEF Set
<1> QED BY <1>2, <1>3, <1>4, Step

LEMMA StepWrite ==
  ASSUME IInv, NEW e \in Endpoint, NEW c2, NEW f \in Seq(Unit), Set(e, c2),
         Good(sc, e, Peer(e), c2, conn[Peer(e)], Append(wire[e], f), wire[Peer(e)]),
         Len(wire[e]) < Capacity,
         sc' = sc, wire' = [wire EXCEPT ![e] = Append(wire[e], f)], requests' = requests
  PROVE  IInv'
<1> DEFINE we2 == Append(wire[e], f)
<1>1. /\ wire \in [Endpoint -> Seq(Seq(Unit))] /\ Peer(e) \in Endpoint /\ e # Peer(e)
      /\ \A x \in Endpoint : Len(wire[x]) <= Capacity
  BY EitherSide DEF IInv, TypeOK, Unit
<1>2. we2 \in Seq(Seq(Unit)) /\ Len(we2) = Len(wire[e]) + 1 /\ Len(wire[e]) \in Nat
  <2> DEFINE w == wire[e]
  <2>1. w \in Seq(Seq(Unit))
    BY <1>1
  <2> HIDE DEF w
  <2>2. Append(w, f) \in Seq(Seq(Unit)) /\ Len(Append(w, f)) = Len(w) + 1 /\ Len(w) \in Nat
    BY <2>1, AppendProperties
  <2> QED BY <2>2 DEF w
<1>3. wire' \in [Endpoint -> Seq(Seq(Unit))] /\ wire'[e] = we2 /\ wire'[Peer(e)] = wire[Peer(e)]
  <2> HIDE DEF we2
  <2>1. wire' = [wire EXCEPT ![e] = we2]
    BY DEF we2
  <2> QED BY <1>1, <1>2, <2>1
<1>4. Len(we2) <= Capacity /\ Len(wire[Peer(e)]) <= Capacity
  <2> HIDE DEF we2
  <2>1. Capacity \in Nat
    BY BoundAssumption
  <2>2. Len(we2) <= Capacity
    BY <1>2, <2>1
  <2> QED BY <1>1, <2>2
<1>5. conn' = [conn EXCEPT ![e] = c2]
  BY DEF Set
<1>6. requests' \in 0..MaxHelloRequests
  BY DEF IInv, TypeOK
<1> HIDE DEF we2
<1>7. Good(sc, e, Peer(e), c2, conn[Peer(e)], we2, wire[Peer(e)])
  BY DEF we2
<1> QED BY <1>3, <1>4, <1>5, <1>6, <1>7, Step

LEMMA StepRead ==
  ASSUME IInv, NEW e \in Endpoint, NEW c2, Set(e, c2), wire[Peer(e)] # <<>>,
         Good(sc, e, Peer(e), c2, conn[Peer(e)], wire[e], Tail(wire[Peer(e)])),
         sc' = sc, wire' = [wire EXCEPT ![Peer(e)] = Tail(wire[Peer(e)])], requests' = requests
  PROVE  IInv'
<1> DEFINE p == Peer(e)
           w == wire[p]
<1>1. /\ wire \in [Endpoint -> Seq(Seq(Unit))] /\ p \in Endpoint /\ e # p
      /\ \A x \in Endpoint : Len(wire[x]) <= Capacity
  BY EitherSide DEF IInv, TypeOK, Unit
<1>2. w \in Seq(Seq(Unit)) /\ Len(w) <= Capacity /\ Capacity \in Nat
  BY <1>1, BoundAssumption
<1>3. Tail(w) \in Seq(Seq(Unit)) /\ Len(Tail(w)) <= Capacity
  <2> HIDE DEF w
  <2>1. w # <<>>
    BY DEF w
  <2> QED BY <1>2, <2>1
<1>4. wire' \in [Endpoint -> Seq(Seq(Unit))] /\ wire'[e] = wire[e] /\ wire'[p] = Tail(w)
  <2> DEFINE t == Tail(w)
  <2>1. wire' = [wire EXCEPT ![p] = t] /\ t \in Seq(Seq(Unit))
    BY <1>3
  <2> HIDE DEF t
  <2>2. wire' \in [Endpoint -> Seq(Seq(Unit))] /\ wire'[e] = wire[e] /\ wire'[p] = t
    BY <1>1, <2>1
  <2> QED BY <2>2 DEF t
<1>5. conn' = [conn EXCEPT ![e] = c2] /\ Len(wire[e]) <= Capacity
  BY <1>1 DEF Set
<1>6. requests' \in 0..MaxHelloRequests
  BY DEF IInv, TypeOK
<1> QED BY <1>3, <1>4, <1>5, <1>6, Step

(* What an endpoint in s2n_negotiate knows of itself. *)
LEMMA NegotiatingIs ==
  ASSUME IInv, NEW e \in Endpoint, Negotiating(e)
  PROVE  /\ e \notin sc.foreign /\ ~conn[e].failed /\ conn[e].out = <<>> /\ ~conn[e].looping
         /\ conn[e] \in Connection /\ requests \in 0..MaxHelloRequests
BY EitherSide DEF Negotiating, S2n, IInv, TypeOK

LEMMA FlushKeeps ==
  ASSUME IInv, NEW e \in Endpoint, s2n_flush(e)
  PROVE  IInv'
<1> DEFINE c2 == [conn[e] EXCEPT !.out = <<>>]
<1>1. /\ e \notin sc.foreign /\ Len(wire[e]) < Capacity /\ sc' = sc /\ requests' = requests
      /\ wire' = [wire EXCEPT ![e] = Append(wire[e], conn[e].out)] /\ Set(e, c2)
  BY DEF s2n_flush, S2n
<1>2. conn[e].out \in Seq(Unit)
  BY ConnType DEF IInv, TypeOK
<1>3. Good(sc, e, Peer(e), c2, conn[Peer(e)], Append(wire[e], conn[e].out), wire[Peer(e)])
  BY <1>1, EitherSide, GoodFlush
<1> HIDE DEF c2
<1> QED BY <1>1, <1>2, <1>3, StepWrite

LEMMA PopulateKeeps ==
  ASSUME IInv, NEW e \in Endpoint, PopulateIo(e)
  PROVE  IInv'
<1> DEFINE c == conn[e]
           s == sc.script
           U == UnitsOf(s, c.msg)
           a == [c EXCEPT !.io = U, !.wiped = FALSE]
           b == [c EXCEPT !.io = SubSeq(U, 1, HeaderLength), !.wiped = FALSE,
                          !.async = "INVOKED_WAITING", !.paused = TRUE]
<1>1. /\ Negotiating(e) /\ IsWriter(e) /\ ~c.paused /\ c.wiped
      /\ sc' = sc /\ wire' = wire /\ requests' = requests
  BY DEF PopulateIo
<1>2. e \notin sc.foreign /\ ~c.failed /\ c \in Connection /\ requests' \in 0..MaxHelloRequests
  BY <1>1, NegotiatingIs
<1>3. /\ Good(sc, e, Peer(e), a, conn[Peer(e)], wire[e], wire[Peer(e)])
      /\ Good(sc, e, Peer(e), b, conn[Peer(e)], wire[e], wire[Peer(e)])
  BY <1>1, <1>2, EitherSide, GoodPopulate
<1>4. Units(c.msg) = U
  BY DEF Units, UnitsOf, Length, LenOf, Script
<1>5. Set(e, a) \/ Set(e, b)
  <2> DEFINE h == s2n_handshake_write_header(c)
  <2>1. h = [c EXCEPT !.io = SubSeq(U, 1, HeaderLength), !.wiped = FALSE]
    BY <1>4 DEF s2n_handshake_write_header
  <2> HIDE DEF U
  <2>2. h.msg = c.msg
    BY <1>2, <2>1 DEF Connection
  <2>3. [h EXCEPT !.async = "INVOKED_WAITING", !.paused = TRUE] = b
    BY <1>2, <2>1 DEF Connection
  <2>4. s2n_handshake_finish_header(h) = a
    BY <1>2, <1>4, <2>1, <2>2 DEF s2n_handshake_finish_header, Connection
  <2>5. Set(e, IF Script[h.msg].writerBlocks
               THEN [h EXCEPT !.async = "INVOKED_WAITING", !.paused = TRUE]
               ELSE s2n_handshake_finish_header(h))
    BY DEF PopulateIo
  <2> HIDE DEF h, a, b
  <2> QED BY <2>3, <2>4, <2>5
<1> HIDE DEF a, b
<1> QED BY <1>1, <1>2, <1>3, <1>5, StepAlone

LEMMA WriteKeeps ==
  ASSUME IInv, NEW e \in Endpoint, WriteFragment(e)
  PROVE  IInv'
<1> DEFINE c == conn[e]
           f == Fragment(c)
           c2 == [c EXCEPT !.out = f, !.read = c.read + Len(f), !.hash = c.hash \o f]
<1>1. /\ Negotiating(e) /\ IsWriter(e) /\ ~c.paused /\ c.read < Len(c.io)
      /\ sc' = sc /\ wire' = wire /\ requests' = requests /\ Set(e, c2)
  BY DEF WriteFragment
<1>2. e \notin sc.foreign /\ ~c.failed /\ c.out = <<>> /\ requests' \in 0..MaxHelloRequests
  BY <1>1, NegotiatingIs
<1>3. Good(sc, e, Peer(e), c2, conn[Peer(e)], wire[e], wire[Peer(e)])
  BY <1>1, <1>2, EitherSide, GoodWrite
<1> HIDE DEF c2
<1> QED BY <1>1, <1>2, <1>3, StepAlone

LEMMA FinishKeeps ==
  ASSUME IInv, NEW e \in Endpoint, FinishWrite(e)
  PROVE  IInv'
<1> DEFINE c == conn[e]
           c2 == [c EXCEPT !.io = <<>>, !.read = 0, !.wiped = TRUE, !.msg = c.msg + 1]
<1>1. /\ Negotiating(e) /\ IsWriter(e) /\ ~c.paused /\ ~c.wiped /\ c.read = Len(c.io)
      /\ sc' = sc /\ wire' = wire /\ requests' = requests
      /\ Set(e, s2n_advance_message(WipeIo(c)))
  BY DEF FinishWrite
<1>2. e \notin sc.foreign /\ ~c.failed /\ c \in Connection /\ requests' \in 0..MaxHelloRequests
  BY <1>1, NegotiatingIs
<1>3. Good(sc, e, Peer(e), c2, conn[Peer(e)], wire[e], wire[Peer(e)])
  BY <1>1, <1>2, EitherSide, GoodFinish
<1>4. Set(e, c2)
  <2>1. s2n_advance_message(WipeIo(c)) = c2
    BY <1>2 DEF s2n_advance_message, WipeIo, Connection
  <2> HIDE DEF c2
  <2> QED BY <1>1, <2>1
<1> HIDE DEF c2
<1> QED BY <1>1, <1>2, <1>3, <1>4, StepAlone

LEMMA ReadRecordKeeps ==
  ASSUME IInv, NEW e \in Endpoint, s2n_read_full_record(e)
  PROVE  IInv'
<1> DEFINE c == conn[e]
           p == Peer(e)
           c2 == [c EXCEPT !.in = Head(wire[p]), !.status = "PLAINTEXT", !.looping = TRUE]
<1>1. /\ Negotiating(e) /\ ~IsWriter(e) /\ ~c.paused /\ sc' = sc /\ requests' = requests
  BY DEF s2n_read_full_record
<1>2. e \notin sc.foreign /\ ~c.failed /\ c \in Connection /\ requests' \in 0..MaxHelloRequests
  BY <1>1, NegotiatingIs
<1>3. /\ Good(sc, e, p, c, conn[p], wire[e], wire[p])
      /\ ~WriterOf(sc, e, c)
  BY <1>1, EitherSide
<1>4. CASE Set(e, Failed(c)) /\ wire' = wire
  <2>1. /\ Failed(c) \in Connection /\ Failed(c).failed /\ Failed(c).msg = c.msg
        /\ Failed(c).read = c.read /\ Failed(c).out = c.out /\ Failed(c).hash = c.hash
    <3> HIDE DEF c
    <3> QED BY <1>2 DEF Failed, Connection
  <2>2. Good(sc, e, p, Failed(c), conn[p], wire[e], wire[p])
    BY <1>2, <1>3, <2>1, GoodFail
  <2> QED BY <1>1, <1>2, <1>4, <2>2, StepAlone
<1>5. CASE /\ c.status = "ENCRYPTED" /\ wire[p] # <<>>
           /\ wire' = [wire EXCEPT ![p] = Tail(wire[p])] /\ Set(e, c2)
  <2>1. Good(sc, e, p, c2, conn[p], wire[e], Tail(wire[p]))
    BY <1>1, <1>2, <1>3, <1>5, GoodReadRecord
  <2> HIDE DEF c2
  <2> QED BY <1>1, <1>5, <2>1, StepRead
<1> QED BY <1>4, <1>5 DEF s2n_read_full_record

LEMMA ReadIoKeeps ==
  ASSUME Tame, IInv, NEW e \in Endpoint, s2n_handshake_read_io(e)
  PROVE  IInv'
<1> DEFINE c == conn[e]
           p == Peer(e)
           a == [c EXCEPT !.looping = FALSE, !.in = <<>>, !.status = "ENCRYPTED"]
           b == ReadMessage(c, e)
<1>1. /\ c.looping /\ ~c.failed /\ sc' = sc /\ wire' = wire /\ requests' = requests
      /\ Set(e, IF c.in = <<>> THEN s2n_wipe_record([c EXCEPT !.looping = FALSE]) ELSE b)
  BY DEF s2n_handshake_read_io
<1>2. /\ Good(sc, e, p, c, conn[p], wire[e], wire[p]) /\ e # p /\ sc \in Scenarios
      /\ c \in Connection /\ requests' \in 0..MaxHelloRequests
  BY <1>1, EitherSide DEF IInv, TypeOK
<1>3. e \notin sc.foreign
  BY <1>1, <1>2 DEF Good, Local
<1>4. CASE c.in = <<>>
  <2>1. Good(sc, e, p, a, conn[p], wire[e], wire[p])
    BY <1>1, <1>2, <1>3, <1>4, GoodReadEmpty
  <2>2. s2n_wipe_record([c EXCEPT !.looping = FALSE]) = a
    BY <1>2 DEF s2n_wipe_record, Connection
  <2> HIDE DEF a
  <2>3. Set(e, a)
    BY <1>1, <1>4, <2>2
  <2> QED BY <1>1, <1>2, <2>1, <2>3, StepAlone
<1>5. CASE c.in # <<>>
  <2>1. Good(sc, e, p, b, conn[p], wire[e], wire[p])
    BY <1>1, <1>2, <1>3, <1>5, GoodReadMessage
  <2> HIDE DEF b
  <2>2. Set(e, b)
    BY <1>1, <1>5
  <2> QED BY <1>1, <1>2, <2>1, <2>2, StepAlone
<1> QED BY <1>4, <1>5

LEMMA RetryKeeps ==
  ASSUME IInv, NEW e \in Endpoint, s2n_handle_retry_state(e)
  PROVE  IInv'
<1> DEFINE c == conn[e]
           p == Peer(e)
           U == UnitsOf(sc.script, c.msg)
           a == [c EXCEPT !.io = U, !.wiped = FALSE, !.async = "NOT_INVOKED", !.paused = FALSE]
           b == s2n_finish_read(s2n_wipe_record(Resume(c)))
<1>1. /\ Negotiating(e) /\ c.paused /\ sc' = sc /\ wire' = wire /\ requests' = requests
      /\ Set(e, AfterRetry(c, IsWriter(e)))
  BY DEF s2n_handle_retry_state
<1>2. e \notin sc.foreign /\ ~c.failed /\ c \in Connection /\ requests' \in 0..MaxHelloRequests
  BY <1>1, NegotiatingIs
<1>3. /\ Good(sc, e, p, c, conn[p], wire[e], wire[p]) /\ e # p
      /\ WriterOf(sc, e, c) = IsWriter(e)
  BY EitherSide
<1>4. CASE IsWriter(e)
  <2>1. Good(sc, e, p, a, conn[p], wire[e], wire[p])
    BY <1>1, <1>2, <1>3, <1>4, GoodRetryWriter
  <2>2. Units(c.msg) = U
    BY DEF Units, UnitsOf, Length, LenOf, Script
  <2>3. AfterRetry(c, IsWriter(e)) = a
    <3> HIDE DEF U
    <3>1. Resume(c).msg = c.msg
      BY <1>2 DEF Resume, Connection
    <3>2. AfterRetry(c, IsWriter(e)) = [Resume(c) EXCEPT !.io = U, !.wiped = FALSE]
      BY <1>4, <2>2, <3>1 DEF AfterRetry, s2n_handshake_finish_header
    <3> QED BY <1>2, <3>2 DEF Resume, Connection
  <2> HIDE DEF a
  <2>4. Set(e, a)
    BY <1>1, <2>3
  <2> QED BY <1>1, <1>2, <2>1, <2>4, StepAlone
<1>5. CASE ~IsWriter(e)
  <2>1. Good(sc, e, p, b, conn[p], wire[e], wire[p])
    BY <1>1, <1>2, <1>3, <1>5, GoodRetryReader
  <2>2. Set(e, b)
    BY <1>1, <1>5 DEF AfterRetry
  <2> HIDE DEF b
  <2> QED BY <1>1, <1>2, <2>1, <2>2, StepAlone
<1> QED BY <1>4, <1>5

LEMMA CallbackKeeps ==
  ASSUME IInv, NEW e \in Endpoint, ApplicationCompletes(e)
  PROVE  IInv'
<1> DEFINE c2 == [conn[e] EXCEPT !.async = "INVOKED_COMPLETE"]
<1>1. /\ conn[e].async = "INVOKED_WAITING" /\ sc' = sc /\ wire' = wire
      /\ requests' \in 0..MaxHelloRequests /\ Set(e, c2)
  BY DEF ApplicationCompletes, IInv, TypeOK
<1>2. Good(sc, e, Peer(e), c2, conn[Peer(e)], wire[e], wire[Peer(e)])
  BY <1>1, EitherSide, GoodAsync
<1> HIDE DEF c2
<1> QED BY <1>1, <1>2, StepAlone

LEMMA ForeignMessageKeeps ==
  ASSUME IInv, NEW e \in Endpoint, ForeignMessage(e)
  PROVE  IInv'
<1> DEFINE c == conn[e]
           U == UnitsOf(sc.script, c.msg)
           c2 == [c EXCEPT !.io = c.io \o U, !.msg = c.msg + 1, !.hash = c.hash \o U]
<1>1. /\ e \in sc.foreign /\ IsWriter(e) /\ sc' = sc /\ wire' = wire
      /\ requests' \in 0..MaxHelloRequests
      /\ Set(e, [c EXCEPT !.io = c.io \o Units(c.msg), !.msg = c.msg + 1,
                          !.hash = c.hash \o Units(c.msg)])
  BY DEF ForeignMessage, S2n, IInv, TypeOK
<1>2. Units(c.msg) = U
  BY DEF Units, UnitsOf, Length, LenOf, Script
<1>3. Set(e, c2)
  BY <1>1, <1>2
<1>4. Good(sc, e, Peer(e), c2, conn[Peer(e)], wire[e], wire[Peer(e)])
  BY <1>1, EitherSide, GoodForeignMessage
<1> HIDE DEF c2
<1> QED BY <1>1, <1>3, <1>4, StepAlone

LEMMA ForeignHelloRequestKeeps ==
  ASSUME Tame, IInv, NEW e \in Endpoint, ForeignHelloRequest(e)
  PROVE  IInv'
<1> DEFINE c == conn[e]
           U == UnitsOf(sc.script, 0)
           c2 == [c EXCEPT !.io = c.io \o U]
<1>1. /\ e \in sc.foreign /\ (sc.late \/ IsWriter(e))
      /\ sc' = sc /\ wire' = wire /\ requests < MaxHelloRequests /\ requests' = requests + 1
      /\ Set(e, [c EXCEPT !.io = c.io \o Units(0)])
  BY DEF ForeignHelloRequest, S2n
<1>2. Units(0) = U
  BY DEF Units, UnitsOf, Length, LenOf, Script
<1>3. Set(e, c2)
  BY <1>1, <1>2
<1>4. requests' \in 0..MaxHelloRequests
  <2>1. requests \in 0..MaxHelloRequests /\ MaxHelloRequests \in Nat
    BY BoundAssumption DEF IInv, TypeOK
  <2> QED BY <1>1, <2>1
<1>5. IsWriter(e)
  BY <1>1, EitherSide DEF Tame
<1>6. e \in sc.foreign /\ sc' = sc /\ wire' = wire
  BY <1>1
<1>7. Good(sc, e, Peer(e), c2, conn[Peer(e)], wire[e], wire[Peer(e)])
  BY <1>5, <1>6, EitherSide, GoodForeignRequest
<1> HIDE DEF c2
<1> QED BY <1>3, <1>4, <1>6, <1>7, StepAlone

LEMMA ForeignRecordKeeps ==
  ASSUME IInv, NEW e \in Endpoint, ForeignRecord(e)
  PROVE  IInv'
<1> DEFINE c == conn[e]
<1>1. e \in sc.foreign /\ Len(wire[e]) < Capacity /\ sc' = sc /\ requests' = requests
  BY DEF ForeignRecord, S2n
<1>2. PICK n \in 1..Len(c.io) :
         /\ wire' = [wire EXCEPT ![e] = Append(wire[e], SubSeq(c.io, 1, n))]
         /\ Set(e, [c EXCEPT !.io = SubSeq(c.io, n + 1, Len(c.io))])
  BY DEF ForeignRecord
<1> DEFINE f == SubSeq(c.io, 1, n)
           c2 == [c EXCEPT !.io = SubSeq(c.io, n + 1, Len(c.io))]
<1>3. f \in Seq(Unit)
  <2> DEFINE A == c.io
  <2>1. A \in Seq(Unit)
    BY ConnType DEF IInv, TypeOK
  <2> HIDE DEF A
  <2>2. n \in 1..Len(A)
    BY <1>2 DEF A
  <2>3. SubSeq(A, 1, n) \in Seq(Unit)
    BY <2>1, <2>2
  <2> QED BY <2>3 DEF A
<1>4. Good(sc, e, Peer(e), c2, conn[Peer(e)], Append(wire[e], f), wire[Peer(e)])
  BY <1>1, EitherSide, GoodForeignRecord
<1> HIDE DEF c2, f
<1>5. wire' = [wire EXCEPT ![e] = Append(wire[e], f)] /\ Set(e, c2)
  BY <1>2 DEF f, c2
<1> QED BY <1>1, <1>3, <1>4, <1>5, StepWrite

LEMMA ForeignReadKeeps ==
  ASSUME IInv, NEW e \in Endpoint, ForeignRead(e)
  PROVE  IInv'
<1> DEFINE c == conn[e]
           p == Peer(e)
           G == c.in \o Head(wire[p])
           a == [c EXCEPT !.in = <<>>, !.msg = c.msg + 1, !.hash = c.hash \o G]
           b == [c EXCEPT !.in = G]
<1>1. /\ e \in sc.foreign /\ ~Done(e) /\ ~IsWriter(e) /\ wire[p] # <<>>
      /\ wire' = [wire EXCEPT ![p] = Tail(wire[p])] /\ sc' = sc /\ requests' = requests
      /\ Set(e, IF G = Units(c.msg) THEN a ELSE b)
  BY DEF ForeignRead, S2n
<1>2. /\ Good(sc, e, p, c, conn[p], wire[e], wire[p]) /\ e # p /\ ~WriterOf(sc, e, c)
  BY <1>1, EitherSide
<1>3. Units(c.msg) = UnitsOf(sc.script, c.msg)
  BY DEF Units, UnitsOf, Length, LenOf, Script
<1>4. CASE G = Units(c.msg)
  <2>1. c.msg \in 1..Len(sc.script)
    <3>1. c.msg \in 1..(Len(sc.script) + 1) /\ ~(c.msg > Len(sc.script)) /\ sc \in Scenarios
      BY <1>1 DEF IInv, TypeOK, Done, Script
    <3>2. Len(sc.script) \in Nat
      BY <3>1, ScenarioType
    <3> HIDE DEF c
    <3> QED BY <3>1, <3>2
  <2>2. Good(sc, e, p, a, conn[p], wire[e], Tail(wire[p]))
    BY <1>1, <1>2, <1>3, <1>4, <2>1, GoodForeignWhole
  <2> HIDE DEF a
  <2>3. Set(e, a)
    BY <1>1, <1>4
  <2> QED BY <1>1, <2>2, <2>3, StepRead
<1>5. CASE G # Units(c.msg)
  <2>2. Good(sc, e, p, b, conn[p], wire[e], Tail(wire[p]))
    BY <1>1, <1>2, GoodForeignPart
  <2> HIDE DEF b
  <2>3. Set(e, b)
    BY <1>1, <1>5
  <2> QED BY <1>1, <2>2, <2>3, StepRead
<1> QED BY <1>4, <1>5

LEMMA EmptyPair ==
  ASSUME NEW s \in Seq(ScriptEntry), NEW e, NEW p, NEW x \in Side, NEW y \in Side,
         x.S = <<>>, x.n = 1, x.r = 0, x.h = <<>>, ~x.f, x.w => 1 <= Len(s) /\ s[1].from = e,
         y.S = <<>>, y.n = 1, y.r = 0, y.h = <<>>, ~y.f, y.w => 1 <= Len(s) /\ s[1].from = p
  PROVE  Pair(s, e, p, x, y)
<1>1. Proper(s, e, x) /\ Proper(s, p, y)
  <2>1. 1 \in 1..(Len(s) + 1)
    OBVIOUS
  <2> QED BY <2>1 DEF Proper
<1>2. \A q, n, w : Stream(s, <<>>, q, n, 1, 0, w)
  <2> DEFINE E == <<>>
  <2>1. E \in Seq(Unit) /\ Len(E) = 0
    BY EmptySeq
  <2>2. WellCut(s, E) /\ Ordered(E)
    BY <2>1 DEF WellCut, Ordered
  <2>3. \A q, n, w : Bounds(s, E, q, n, 1, 0) /\ Followed(E, w)
    BY <2>1 DEF Bounds, Followed
  <2>4. Ends(s, E, 1, 0)
    BY <2>1 DEF Ends
  <2> HIDE DEF E
  <2>5. \A q, n, w : Stream(s, E, q, n, 1, 0, w)
    BY <2>1, <2>2, <2>3, <2>4 DEF Stream
  <2> QED BY <2>5 DEF E
<1>3. Link(s, x, y, p) /\ Link(s, y, x, e)
  BY <1>2 DEF Link
<1>4. Known(s, e, x, y) /\ Known(s, p, y, x)
  BY DEF Known
<1>5. Ahead(x, y)
  <2> DEFINE E == <<>>
  <2>1. E \in Seq(Unit) /\ E \o E = E /\ WithoutRequests(E) = E
    BY EmptySeq, ConcatEmptySeq, WithoutEmpty
  <2>2. x.h = E /\ y.h = E /\ x.S = E /\ y.S = E
    OBVIOUS
  <2> HIDE DEF E
  <2>3. y.h = x.h \o E /\ (~x.f => E = WithoutRequests(x.S)) /\ WithoutRequests(y.S) = E
    BY <2>1, <2>2
  <2>4. \E X \in Seq(Unit) : y.h = x.h \o X /\ (~x.f => X = WithoutRequests(x.S))
    BY <2>1, <2>3
  <2> QED BY <2>3, <2>4 DEF Ahead, E
<1> QED BY <1>1, <1>3, <1>4, <1>5 DEF Pair

LEMMA InitIs ==
  ASSUME Init
  PROVE  IInv
<1> DEFINE N == NewConnection
           E == <<>>
           s == sc.script
<1>0. /\ sc \in Scenarios /\ conn = [x \in Endpoint |-> N] /\ wire = [x \in Endpoint |-> E] /\ requests = 0
  BY DEF Init
<1>1. s \in Seq(ScriptEntry) /\ Len(s) \in Nat
  BY <1>0, ScenarioType
<1>2. E \in Seq(Unit) /\ E \in Seq(Seq(Unit)) /\ Len(E) = 0
  BY EmptySeq
<1>3. /\ N \in Connection /\ N.msg = 1 /\ N.io = E /\ N.read = 0 /\ N.wiped /\ N.out = E
      /\ N.in = E /\ N.status = "ENCRYPTED" /\ ~N.looping /\ ~N.paused /\ N.async = "NOT_INVOKED"
      /\ N.hash = E /\ ~N.failed
  <2>1. E \in Seq(Nat \X Nat)
    BY <1>2 DEF Unit
  <2> QED BY <2>1 DEF NewConnection, Connection
<1>4. /\ conn["client"] = N /\ conn["server"] = N /\ wire["client"] = E /\ wire["server"] = E
  BY <1>0 DEF Endpoint
<1> HIDE DEF N
<1>5. TypeOK
  <2>1. conn \in [Endpoint -> Connection] /\ wire \in [Endpoint -> Seq(Seq(Unit))]
    <3> HIDE DEF E
    <3> QED BY <1>0, <1>2, <1>3
  <2>2. \A x \in Endpoint : conn[x].msg \in 1..(Len(s) + 1) /\ Len(wire[x]) <= Capacity
    BY <1>0, <1>1, <1>2, <1>3, BoundAssumption
  <2>3. requests \in 0..MaxHelloRequests
    BY <1>0, BoundAssumption
  <2> QED BY <1>0, <2>1, <2>2, <2>3 DEF TypeOK, Script, Unit
<1>6. UpTo(s, 0) = E
  BY FlattenEmpty DEF UpTo
<1>7. OneMessage(E) /\ E \o E = E
  BY <1>2, ConcatEmptySeq DEF OneMessage
<1>8. ASSUME NEW e, NEW p PROVE Local(sc, e, p, N, E)
  <2>1. ASSUME WriterOf(sc, e, N)
        PROVE  Own(s, N) /\ N.hash = UpTo(s, N.msg - 1) \o SubSeq(UnitsOf(s, N.msg), 1, N.read)
    <3>1. 1 \in 1..Len(s) /\ 1 - 1 = 0
      BY <1>1, <1>3, <2>1 DEF WriterOf
    <3>2. UpTo(s, 1 - 1) \o SubSeq(UnitsOf(s, 1), 1, 0) = UpTo(s, 1 - 1)
      <4> DEFINE n == 1
      <4>1. n \in 1..Len(s)
        BY <3>1
      <4> HIDE DEF n
      <4>2. UpTo(s, n - 1) \o SubSeq(UnitsOf(s, n), 1, 0) = UpTo(s, n - 1)
        BY <1>1, <4>1, UpToPart
      <4> QED BY <4>2 DEF n
    <3>3. N.hash = UpTo(s, 1 - 1)
      BY <1>3, <1>6, <3>1
    <3> QED BY <1>3, <3>2, <3>3 DEF Own
  <2>2. Reads(sc, p, N) /\ N.hash = UpTo(s, N.msg - 1)
    <3>1. N.msg - 1 = 0
      BY <1>3
    <3>2. N.hash = UpTo(s, N.msg - 1)
      BY <1>3, <1>6, <3>1
    <3> QED BY <1>3, <1>7, <3>2 DEF Reads
  <2>3. Sound(sc, e, p, N)
    BY <1>3, <2>1, <2>2 DEF Sound
  <2> QED BY <1>2, <1>3, <1>7, <2>3 DEF Local
<1>9. OnWay(E, E, E, E) = E
  BY <1>7, FlattenEmpty DEF OnWay
<1>10. ASSUME NEW e, NEW p
       PROVE  LET x == SideOf(sc, e, p, N, N, E) IN
              /\ x \in Side /\ x.S = <<>> /\ x.n = 1 /\ x.r = 0 /\ x.h = <<>> /\ ~x.f
              /\ x.w => 1 <= Len(s) /\ s[1].from = e
  <2> DEFINE x == SideOf(sc, e, p, N, N, E)
  <2>1. x \in Side
    <3> HIDE DEF E
    <3> QED BY <1>2, <1>3, SideOfType
  <2>2. RdOf(sc, e, N) = E /\ TlOf(sc, p, N) = E /\ PutOf(sc, e, N) = 0
    BY <1>3 DEF RdOf, TlOf, PutOf
  <2>3. AsksOf(sc, e, N) => 1 <= Len(s) /\ s[1].from = e
    BY <1>1, <1>3 DEF AsksOf, WriterOf
  <2>4. x.S = E
    <3> HIDE DEF E
    <3> QED BY <1>3, <1>9, <2>2 DEF SideOf
  <2> QED BY <1>3, <2>1, <2>2, <2>3, <2>4 DEF SideOf
<1>11. Pair(s, "client", "server", SideOf(sc, "client", "server", N, N, E), SideOf(sc, "server", "client", N, N, E))
  <2> DEFINE x == SideOf(sc, "client", "server", N, N, E)
             y == SideOf(sc, "server", "client", N, N, E)
  <2>1. /\ x \in Side /\ x.S = <<>> /\ x.n = 1 /\ x.r = 0 /\ x.h = <<>> /\ ~x.f
        /\ x.w => 1 <= Len(s) /\ s[1].from = "client"
    BY <1>10
  <2>2. /\ y \in Side /\ y.S = <<>> /\ y.n = 1 /\ y.r = 0 /\ y.h = <<>> /\ ~y.f
        /\ y.w => 1 <= Len(s) /\ s[1].from = "server"
    BY <1>10
  <2> HIDE DEF x, y
  <2>3. Pair(s, "client", "server", x, y)
    BY <1>1, <2>1, <2>2, EmptyPair
  <2> QED BY <2>3 DEF x, y
<1>12. Good(sc, "client", "server", N, N, E, E)
  <2>1. N.msg \in 1..(Len(s) + 1)
    BY <1>1, <1>3
  <2> HIDE DEF E
  <2> QED BY <1>0, <1>2, <1>3, <1>8, <1>11, <2>1 DEF Good
<1> QED BY <1>4, <1>5, <1>12 DEF IInv, Both

LEMMA NextKeeps ==
  ASSUME Tame, IInv, [Next]_vars
  PROVE  IInv'
<1>1. ASSUME NEW e \in Endpoint, s2n_negotiate(e) PROVE IInv'
  BY <1>1, FlushKeeps, PopulateKeeps, WriteKeeps, FinishKeeps, ReadRecordKeeps, ReadIoKeeps,
     RetryKeeps DEF s2n_negotiate
<1>2. ASSUME NEW e \in Endpoint, Foreign(e) PROVE IInv'
  BY <1>2, ForeignMessageKeeps, ForeignRecordKeeps, ForeignReadKeeps DEF Foreign
<1>3. ASSUME UNCHANGED vars PROVE IInv'
  BY <1>3 DEF vars, IInv, TypeOK, Both, Script
<1> QED BY <1>1, <1>2, <1>3, CallbackKeeps, ForeignHelloRequestKeeps DEF Next, Terminated

-----------------------------------------------------------------------------
(***************************************************************************)
(* What the invariant says about the properties.                           *)
(***************************************************************************)
LEMMA OwnPart ==
  ASSUME NEW s \in Seq(ScriptEntry), NEW c \in Connection, c.msg \in 1..Len(s), Own(s, c)
  PROVE  SubSeq(c.io, 1, c.read) = SubSeq(UnitsOf(s, c.msg), 1, c.read)
<1> DEFINE U == UnitsOf(s, c.msg)
           A == c.io
<1>1. A \in Seq(Unit) /\ U \in Seq(Unit)
  <2>1. c.msg \in 0..Len(s)
    OBVIOUS
  <2>2. U \in Seq(Unit)
    BY <2>1, UnitsOfType
  <2> QED BY <2>2, ConnType
<1>2. CASE c.read = 0
  <2>1. SubSeq(A, 1, 0) = <<>> /\ SubSeq(U, 1, 0) = <<>>
    <3> HIDE DEF A, U
    <3> QED BY <1>1, SubSeqEmpty
  <2> QED BY <1>2, <2>1
<1>3. CASE c.io = U
  BY <1>3
<1> QED BY <1>2, <1>3 DEF Own

LEMMA InvTranscript ==
  ASSUME IInv
  PROVE  TranscriptExact
<1> SUFFICES ASSUME NEW e \in Endpoint, S2n(e), ~conn[e].failed
             PROVE  conn[e].hash = IF IsWriter(e)
                                   THEN Transcript(conn[e].msg - 1) \o SubSeq(conn[e].io, 1, conn[e].read)
                                   ELSE Transcript(conn[e].msg - 1)
  BY DEF TranscriptExact
<1> DEFINE c == conn[e]
           s == sc.script
<1>1. /\ Good(sc, e, Peer(e), c, conn[Peer(e)], wire[e], wire[Peer(e)])
      /\ WriterOf(sc, e, c) = IsWriter(e) /\ sc \in Scenarios
  BY EitherSide
<1>2. Sound(sc, e, Peer(e), c) /\ c \in Connection /\ c.msg \in 1..(Len(s) + 1)
  BY <1>1 DEF Good, Local, S2n
<1>3. Transcript(c.msg - 1) = UpTo(s, c.msg - 1)
  BY DEF Transcript, UpTo, Units, UnitsOf, Length, LenOf, Script
<1>4. CASE IsWriter(e)
  <2>1. Own(s, c) /\ c.hash = UpTo(s, c.msg - 1) \o SubSeq(UnitsOf(s, c.msg), 1, c.read)
    BY <1>1, <1>2, <1>4 DEF Sound
  <2>2. c.msg \in 1..Len(s) /\ s \in Seq(ScriptEntry)
    BY <1>1, <1>2, <1>4, OwnUnits, ScenarioType
  <2>3. SubSeq(c.io, 1, c.read) = SubSeq(UnitsOf(s, c.msg), 1, c.read)
    BY <1>2, <2>1, <2>2, OwnPart
  <2> QED BY <1>3, <1>4, <2>1, <2>3
<1>5. CASE ~IsWriter(e)
  BY <1>1, <1>2, <1>3, <1>5 DEF Sound
<1> QED BY <1>4, <1>5

LEMMA InvNothingDropped ==
  ASSUME IInv
  PROVE  NothingDropped
<1> SUFFICES ASSUME NEW e \in Endpoint, S2n(e), ~IsWriter(e), ~conn[e].failed,
                    Len(conn[Peer(e)].hash) >= Len(conn[e].hash)
             PROVE  conn[e].hash \o
                    WithoutRequests(conn[e].io \o conn[e].in \o FlattenSeq(wire[Peer(e)]) \o
                       (IF S2n(Peer(e)) THEN conn[Peer(e)].out ELSE conn[Peer(e)].io))
                       = conn[Peer(e)].hash
  BY DEF NothingDropped
<1> DEFINE p == Peer(e)
           c == conn[e]
           d == conn[p]
           x == SideOf(sc, e, p, c, d, wire[p])
           y == SideOf(sc, p, e, d, c, wire[e])
           W == c.io \o c.in \o FlattenSeq(wire[p]) \o (IF S2n(p) THEN d.out ELSE d.io)
<1>1. Good(sc, e, p, c, d, wire[e], wire[p]) /\ ~WriterOf(sc, e, c)
  BY EitherSide
<1>2. /\ Pair(sc.script, e, p, x, y) /\ c \in Connection /\ d \in Connection
  BY <1>1 DEF Good
<1>3. x.S = W /\ x.h = c.hash /\ y.h = d.hash /\ ~x.f
  BY <1>1 DEF SideOf, RdOf, TlOf, OnWay, S2n
<1>4. c.hash \in Seq(Unit) /\ d.hash \in Seq(Unit)
  BY <1>2, ConnType
<1> HIDE DEF x, y, W
<1>5. CASE Ahead(x, y)
  BY <1>3, <1>5 DEF Ahead, W
<1>6. CASE Ahead(y, x)
  <2>1. PICK X \in Seq(Unit) : x.h = y.h \o X
    BY <1>6 DEF Ahead
  <2>2. WithoutRequests(W) = <<>>
    BY <1>3, <1>6 DEF Ahead
  <2> DEFINE h == c.hash
             g == d.hash
  <2>3. h = g \o X /\ Len(g) >= Len(h) /\ g \in Seq(Unit) /\ h \in Seq(Unit)
    BY <1>3, <1>4, <2>1
  <2> HIDE DEF h, g
  <2>4. Len(g \o X) = Len(g) + Len(X) /\ Len(g) \in Nat /\ Len(X) \in Nat
    BY <2>3, ConcatProperties
  <2>5. Len(X) = 0
    BY <2>3, <2>4
  <2>6. X = <<>>
    BY <2>5
  <2>7. h = g /\ h \o <<>> = h
    BY <2>3, <2>6, ConcatEmptySeq
  <2> QED BY <2>2, <2>7 DEF W, h, g
<1> QED BY <1>2, <1>5, <1>6 DEF Pair

(***************************************************************************)
(* In scenarios without late HelloRequests, and without handlers that      *)
(* block on a message of a foreign peer, the invariant always holds.       *)
(***************************************************************************)
THEOREM InvariantHolds ==
  ASSUME Tame
  PROVE  Spec => []IInv
<1>1. Init => IInv
  BY InitIs
<1>2. IInv /\ [Next]_vars => IInv'
  BY NextKeeps
<1> QED BY <1>1, <1>2, PTL DEF Spec

(* Every variable keeps its type, and the transport its capacity. *)
THEOREM TypeCorrect ==
  ASSUME Tame
  PROVE  Spec => []TypeOK
<1>1. IInv => TypeOK
  BY DEF IInv
<1> QED BY <1>1, InvariantHolds, PTL

(***************************************************************************)
(* However the messages are cut into records, coalesced, blocked and       *)
(* retried (s2n_handshake_write_io, s2n_handshake_read_io,                 *)
(* s2n_handle_retry_state), the handshake hash of an s2n endpoint is that  *)
(* of exactly the messages before the one it is at.                        *)
(***************************************************************************)
THEOREM TranscriptsAreExact ==
  ASSUME Tame
  PROVE  Spec => []TranscriptExact
<1>1. IInv => TranscriptExact
  BY InvTranscript
<1> QED BY <1>1, InvariantHolds, PTL

(***************************************************************************)
(* No unit of a handshake message is lost between the transcripts of the   *)
(* two endpoints: it is in handshake.io, conn->in, on the wire or in       *)
(* conn->out.                                                              *)
(***************************************************************************)
THEOREM NothingIsDropped ==
  ASSUME Tame
  PROVE  Spec => []NothingDropped
<1>1. IInv => NothingDropped
  BY InvNothingDropped
<1> QED BY <1>1, InvariantHolds, PTL
=============================================================================
