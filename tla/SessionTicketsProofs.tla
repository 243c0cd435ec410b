------------------------ MODULE SessionTicketsProofs ------------------------
(***************************************************************************)
(* What holds of the ticket keys, and of the tickets made with them, for   *)
(* every number of keys, every lifetime and every course of the clock.     *)
(***************************************************************************)
EXTENDS SessionTickets, TLAPS, SequenceTheorems, FiniteSetTheorems, WellFoundedInduction

-----------------------------------------------------------------------------
(* Induction over the natural numbers, in the form the provers can use.    *)

(* A set of natural numbers has a least one. *)
LEMMA LeastNatural ==
  ASSUME NEW T, T \subseteq Nat, T # {}
  PROVE  \E x \in T : \A y \in T : x <= y
<1> DEFINE R == OpToRel(<, Nat)
<1>1. IsWellFoundedOn(R, Nat)
  BY NatLessThanWellFounded
<1>2. \A x, y \in Nat : y < x => <<y, x>> \in R
  BY DEF OpToRel
<1> HIDE DEF R
<1>3. PICK x \in T : \A y \in T : ~ (<<y, x>> \in R)
  BY <1>1, WFMin
<1>4. ASSUME NEW y \in T PROVE x <= y
  <2>1. x \in Nat /\ y \in Nat
    OBVIOUS
  <2>2. ~(y < x)
    BY <1>2, <1>3, <2>1
  <2> QED BY <2>1, <2>2
<1> QED BY <1>4

(* What holds of zero and of the next number holds of all. *)
LEMMA SetInduction ==
  ASSUME NEW S, 0 \in S, \A n \in Nat : n \in S => n + 1 \in S
  PROVE  Nat \subseteq S
<1> DEFINE T == Nat \ S
<1> SUFFICES ASSUME T # {} PROVE FALSE
  OBVIOUS
<1>1. PICK x \in T : \A y \in T : x <= y
  BY LeastNatural
<1>2. x # 0 /\ x - 1 \in Nat /\ x - 1 \notin T
  BY <1>1
<1> QED BY <1>1, <1>2

-----------------------------------------------------------------------------
(* The arrays of indexes.                                                  *)

IsFound(f, S, n) ==
    f = [i \in 0..n |-> IF i = 0 THEN <<>> ELSE IF i \in S THEN Append(f[i-1], i) ELSE f[i-1]]

LEMMA FoundStep ==
  ASSUME NEW f, NEW S, NEW n \in Nat, IsFound(f, S, n)
  PROVE  \A i \in 0..n : f[i] = IF i = 0 THEN <<>> ELSE IF i \in S THEN Append(f[i-1], i) ELSE f[i-1]
BY DEF IsFound

LEMMA FoundExists ==
  ASSUME NEW S, NEW n \in Nat
  PROVE  \E f : IsFound(f, S, n)
<1> DEFINE A == {k \in Nat : \E f : IsFound(f, S, k)}
<1>1. 0 \in A
  <2> DEFINE f == [i \in 0..0 |-> <<>>]
  <2>1. f = [i \in 0..0 |-> IF i = 0 THEN <<>> ELSE IF i \in S THEN Append(f[i-1], i) ELSE f[i-1]]
    OBVIOUS
  <2> HIDE DEF f
  <2>2. IsFound(f, S, 0)
    BY <2>1 DEF IsFound
  <2> QED BY <2>2
<1>2. ASSUME NEW k \in Nat, k \in A PROVE k + 1 \in A
  <2>1. PICK f : IsFound(f, S, k)
    BY <1>2
  <2> DEFINE Step(h, i) == IF i = 0 THEN <<>> ELSE IF i \in S THEN Append(h[i-1], i) ELSE h[i-1]
             g == [i \in 0..(k+1) |-> IF i <= k THEN f[i] ELSE Step(f, i)]
  <2>2. \A i \in 0..(k+1) : g[i] = Step(g, i)
    <3> SUFFICES ASSUME NEW i \in 0..(k+1) PROVE g[i] = Step(g, i)
      OBVIOUS
    <3>1. CASE i = 0
      BY <2>1, <3>1 DEF IsFound
    <3>2. CASE i # 0
      <4>1. i - 1 \in 0..k /\ i - 1 <= k /\ g[i-1] = f[i-1]
        BY <3>2
      <4>2. CASE i <= k
        <5>1. f[i] = Step(f, i)
          <6>1. i \in 0..k
            BY <4>2
          <6> QED BY <2>1, <6>1, FoundStep
        <5> QED BY <3>2, <4>1, <4>2, <5>1
      <4>3. CASE ~(i <= k)
        BY <3>2, <4>1, <4>3
      <4> QED BY <4>2, <4>3
    <3> QED BY <3>1, <3>2
  <2>3. g = [i \in 0..(k+1) |-> g[i]]
    OBVIOUS
  <2> HIDE DEF g
  <2>4. g = [i \in 0..(k+1) |-> Step(g, i)]
    BY <2>2, <2>3
  <2>5. IsFound(g, S, k+1)
    BY <2>4 DEF IsFound
  <2> QED BY <2>5
<1> HIDE DEF A
<1>3. Nat \subseteq A
  BY <1>1, <1>2, SetInduction
<1> QED BY <1>3 DEF A

(* s lists the members of S up to n in ascending order. *)
Ascending(s, S, n) ==
    /\ s \in Seq(Nat)
    /\ \A j \in DOMAIN s : s[j] \in S /\ s[j] \in 1..n
    /\ \A i, j \in DOMAIN s : i < j => s[i] < s[j]
    /\ \A m \in 1..n : m \in S => \E j \in DOMAIN s : s[j] = m

LEMMA AscendingStep ==
  ASSUME NEW s, NEW S, NEW n \in Nat, Ascending(s, S, n)
  PROVE  Ascending(IF n + 1 \in S THEN Append(s, n + 1) ELSE s, S, n + 1)
<1> USE DEF Ascending
<1>1. CASE n + 1 \notin S
  BY <1>1
<1>2. CASE n + 1 \in S
  <2> DEFINE z == Append(s, n + 1)
  <2>1. z \in Seq(Nat) /\ Len(z) = Len(s) + 1 /\ DOMAIN z = 1..(Len(s)+1) /\ DOMAIN s = 1..Len(s)
        /\ Len(s) \in Nat
    OBVIOUS
  <2>2. z[Len(s)+1] = n + 1 /\ \A j \in 1..Len(s) : z[j] = s[j]
    OBVIOUS
  <2> HIDE DEF z
  <2>3. \A j \in DOMAIN z : z[j] \in S /\ z[j] \in 1..(n+1)
    BY <1>2, <2>1, <2>2
  <2>4. \A i, j \in DOMAIN z : i < j => z[i] < z[j]
    <3> SUFFICES ASSUME NEW i \in DOMAIN z, NEW j \in DOMAIN z, i < j PROVE z[i] < z[j]
      OBVIOUS
    <3>1. i \in DOMAIN s
      BY <2>1
    <3>2. CASE j \in DOMAIN s
      BY <2>1, <2>2, <3>1, <3>2
    <3>3. CASE j \notin DOMAIN s
      <4>1. z[j] = n + 1
        BY <2>1, <2>2, <3>3
      <4>2. s[i] \in 1..n /\ z[i] = s[i]
        BY <2>1, <2>2, <3>1
      <4> QED BY <4>1, <4>2
    <3> QED BY <3>2, <3>3
  <2>5. \A m \in 1..(n+1) : m \in S => \E j \in DOMAIN z : z[j] = m
    <3> SUFFICES ASSUME NEW m \in 1..(n+1), m \in S PROVE \E j \in DOMAIN z : z[j] = m
      OBVIOUS
    <3>1. CASE m = n + 1
      BY <2>1, <2>2, <3>1
    <3>2. CASE m # n + 1
      <4>1. PICK j \in DOMAIN s : s[j] = m
        BY <3>2
      <4> QED BY <2>1, <2>2, <4>1
    <3> QED BY <3>1, <3>2
  <2>6. Ascending(z, S, n + 1)
    BY <2>1, <2>3, <2>4, <2>5
  <2> QED BY <1>2, <2>6 DEF z
<1> QED BY <1>1, <1>2

(* InOrder is what its name says. *)
LEMMA InOrderAscends ==
  ASSUME NEW S, NEW n \in Nat
  PROVE  Ascending(InOrder(S, n), S, n)
<1> DEFINE F == CHOOSE f : f = [i \in 0..n |-> IF i = 0 THEN <<>> ELSE IF i \in S THEN Append(f[i-1], i) ELSE f[i-1]]
           A == {k \in Nat : k <= n => Ascending(F[k], S, k)}
<1>1. IsFound(F, S, n)
  <2>1. \E f : f = [i \in 0..n |-> IF i = 0 THEN <<>> ELSE IF i \in S THEN Append(f[i-1], i) ELSE f[i-1]]
    <3>1. PICK f : IsFound(f, S, n)
      BY FoundExists
    <3>2. f = [i \in 0..n |-> IF i = 0 THEN <<>> ELSE IF i \in S THEN Append(f[i-1], i) ELSE f[i-1]]
      BY <3>1 DEF IsFound
    <3> QED BY <3>2, Zenon
  <2>2. F = [i \in 0..n |-> IF i = 0 THEN <<>> ELSE IF i \in S THEN Append(F[i-1], i) ELSE F[i-1]]
    BY <2>1, Zenon
  <2> QED BY <2>2 DEF IsFound
<1>2. InOrder(S, n) = F[n]
  BY DEF InOrder
<1> HIDE DEF F
<1>3. \A i \in 0..n : F[i] = IF i = 0 THEN <<>> ELSE IF i \in S THEN Append(F[i-1], i) ELSE F[i-1]
  BY <1>1, FoundStep
<1>4. 0 \in A
  <2>1. F[0] = <<>>
    BY <1>3
  <2>2. Ascending(<<>>, S, 0)
    BY DEF Ascending
  <2> QED BY <2>1, <2>2
<1>5. ASSUME NEW k \in Nat, k \in A PROVE k + 1 \in A
  <2> SUFFICES ASSUME k + 1 <= n PROVE Ascending(F[k+1], S, k+1)
    OBVIOUS
  <2>1. Ascending(F[k], S, k)
    BY <1>5
  <2>2. F[k+1] = IF k + 1 \in S THEN Append(F[k], k+1) ELSE F[k]
    <3>1. k + 1 \in 0..n /\ (k + 1) - 1 = k /\ k + 1 # 0
      OBVIOUS
    <3> QED BY <1>3, <3>1
  <2> QED BY <2>1, <2>2, AscendingStep
<1> HIDE DEF A
<1>6. Nat \subseteq A
  BY <1>4, <1>5, SetInduction
<1> QED BY <1>2, <1>6 DEF A

-----------------------------------------------------------------------------
(* Removing by index.                                                      *)

LEMMA RemoveAtIs ==
  ASSUME NEW K, NEW s \in Seq(K), NEW d \in 1..Len(s)
  PROVE  RemoveAt(s, d) = [p \in 1..(Len(s)-1) |-> IF p < d THEN s[p] ELSE s[p+1]]
<1> DEFINE a == SubSeq(s, 1, d-1)
           b == SubSeq(s, d+1, Len(s))
           r == [p \in 1..(Len(s)-1) |-> IF p < d THEN s[p] ELSE s[p+1]]
<1>1. Len(s) \in Nat /\ d \in Nat /\ d >= 1 /\ d <= Len(s)
  OBVIOUS
<1>2. a \in Seq(K) /\ Len(a) = d - 1 /\ \A p \in 1..(d-1) : a[p] = s[p]
  BY <1>1
<1>3. b \in Seq(K) /\ Len(b) = Len(s) - d /\ \A p \in 1..(Len(s)-d) : b[p] = s[p+d]
  BY <1>1
<1> HIDE DEF a, b
<1>4. r \in Seq(K)
  <2>1. \A p \in 1..(Len(s)-1) : (IF p < d THEN s[p] ELSE s[p+1]) \in K
    OBVIOUS
  <2> QED BY <2>1
<1>5. Len(r) = Len(s) - 1
  OBVIOUS
<1>6. (a \o b) \in Seq(K) /\ Len(a \o b) = Len(s) - 1
  <2>1. (a \o b) \in Seq(K) /\ Len(a \o b) = Len(a) + Len(b)
    BY <1>2, <1>3, ConcatProperties
  <2> QED BY <1>1, <1>2, <1>3, <2>1
<1>7. \A p \in 1..(Len(s)-1) : (a \o b)[p] = r[p]
  <2> SUFFICES ASSUME NEW p \in 1..(Len(s)-1) PROVE (a \o b)[p] = r[p]
    OBVIOUS
  <2>1. CASE p < d
    <3>1. p \in 1..Len(a) /\ p \in 1..(d-1)
      BY <1>1, <1>2, <2>1
    <3>2. (a \o b)[p] = a[p]
      BY <1>2, <1>3, <3>1
    <3> QED BY <1>2, <2>1, <3>1, <3>2
  <2>2. CASE ~(p < d)
    <3>1. (a \o b)[p] = b[p - (d-1)]
      BY <1>1, <1>2, <1>3, <2>2
    <3>2. p - (d-1) \in 1..(Len(s)-d) /\ (p - (d-1)) + d = p + 1
      BY <1>1, <2>2
    <3>3. b[p - (d-1)] = s[p+1]
      BY <1>3, <3>2
    <3> QED BY <2>2, <3>1, <3>3
  <2> QED BY <2>1, <2>2
<1> HIDE DEF r
<1>8. a \o b = r
  BY <1>4, <1>5, <1>6, <1>7, SeqEqual
<1> QED BY <1>8 DEF a, b, r, RemoveAt

(* h tells where in keys each member of s comes from, once the first j of  *)
(* the indexes are gone; behind the last removal all have moved by j.      *)
Places(h, keys, index, j) ==
    /\ h \in [1..(Len(keys)-j) -> 1..Len(keys)]
    /\ \A p, q \in 1..(Len(keys)-j) : p < q => h[p] < h[q]
    /\ \A n \in 1..Len(keys) :
           (\E p \in 1..(Len(keys)-j) : h[p] = n) <=> (\A q \in 1..j : index[q] # n)
    /\ \A p \in 1..(Len(keys)-j) : (j = 0 \/ p >= index[j] - (j-1)) => h[p] = p + j

Left(s, keys, index, j) ==
    /\ j # 0 => index[j] >= j
    /\ \E h : Places(h, keys, index, j) /\ s = [p \in 1..(Len(keys)-j) |-> keys[h[p]]]

LEMMA PlacesStep ==
  ASSUME NEW keys, Len(keys) \in Nat, NEW index, NEW j \in Nat, NEW h, Places(h, keys, index, j),
         NEW d \in 1..(Len(keys)-j), index[j+1] = d + j,
         j # 0 => index[j] \in Nat /\ index[j] < index[j+1] /\ index[j] >= j
  PROVE  Places([p \in 1..(Len(keys)-(j+1)) |-> IF p < d THEN h[p] ELSE h[p+1]], keys, index, j+1)
<1> DEFINE L == Len(keys)
           g == [p \in 1..(L-(j+1)) |-> IF p < d THEN h[p] ELSE h[p+1]]
<1> HIDE DEF L
<1>0. L = Len(keys) /\ L \in Nat /\ d \in Nat /\ d >= 1 /\ d <= L - j
  BY DEF L
<1>1. /\ h \in [1..(L-j) -> 1..L]
      /\ \A p, q \in 1..(L-j) : p < q => h[p] < h[q]
      /\ \A n \in 1..L : (\E p \in 1..(L-j) : h[p] = n) <=> (\A q \in 1..j : index[q] # n)
      /\ \A p \in 1..(L-j) : (j = 0 \/ p >= index[j] - (j-1)) => h[p] = p + j
  BY <1>0 DEF Places
<1>2. \A p \in 1..(L-j) : p >= d => h[p] = p + j
  BY <1>0, <1>1
<1>3. \A p \in 1..(L-(j+1)) : p \in 1..(L-j) /\ p + 1 \in 1..(L-j)
  BY <1>0
<1>4. g \in [1..(L-(j+1)) -> 1..L]
  BY <1>1, <1>3
<1>5. \A p \in 1..(L-(j+1)) : g[p] = IF p < d THEN h[p] ELSE h[p+1]
  OBVIOUS
<1> HIDE DEF g
<1>6. \A p, q \in 1..(L-(j+1)) : p < q => g[p] < g[q]
  <2> SUFFICES ASSUME NEW p \in 1..(L-(j+1)), NEW q \in 1..(L-(j+1)), p < q PROVE g[p] < g[q]
    OBVIOUS
  <2>1. p + 1 < q + 1 /\ p < q + 1
    OBVIOUS
  <2>2. CASE q < d
    BY <1>1, <1>3, <1>5, <2>2
  <2>3. CASE ~(q < d) /\ p < d
    BY <1>1, <1>3, <1>5, <2>1, <2>3
  <2>4. CASE ~(q < d) /\ ~(p < d)
    BY <1>1, <1>3, <1>5, <2>1, <2>4
  <2> QED BY <2>2, <2>3, <2>4
<1>7. \A p \in 1..(L-(j+1)) : p >= index[j+1] - ((j+1)-1) => g[p] = p + (j+1)
  <2> SUFFICES ASSUME NEW p \in 1..(L-(j+1)), p >= index[j+1] - ((j+1)-1) PROVE g[p] = p + (j+1)
    OBVIOUS
  <2>1. p >= d /\ p + 1 >= d
    BY <1>0
  <2>2. h[p+1] = (p + 1) + j
    BY <1>2, <1>3, <2>1
  <2> QED BY <1>0, <1>5, <2>1, <2>2
<1>8. ASSUME NEW n \in 1..L, NEW p \in 1..(L-(j+1)), g[p] = n
      PROVE  \A q \in 1..(j+1) : index[q] # n
  <2>1. PICK r \in 1..(L-j) : h[r] = n /\ r # d
    <3>1. CASE p < d
      <4>1. p \in 1..(L-j) /\ h[p] = n /\ p # d
        BY <1>0, <1>3, <1>5, <1>8, <3>1
      <4> QED BY <4>1
    <3>2. CASE ~(p < d)
      <4>1. p + 1 \in 1..(L-j) /\ h[p+1] = n /\ p + 1 # d
        BY <1>0, <1>3, <1>5, <1>8, <3>2
      <4> QED BY <4>1
    <3> QED BY <3>1, <3>2
  <2>2. \A q \in 1..j : index[q] # n
    BY <1>1, <2>1
  <2>3. h[d] = d + j
    BY <1>0, <1>2
  <2>4. h[r] # h[d]
    <3>1. h[r] \in 1..L /\ h[d] \in 1..L /\ d \in 1..(L-j)
      BY <1>0, <1>1
    <3>2. r < d \/ d < r
      BY <1>0, <2>1
    <3> QED BY <1>1, <3>1, <3>2
  <2>5. index[j+1] # n
    BY <1>0, <2>1, <2>3, <2>4
  <2> QED
    <3> SUFFICES ASSUME NEW q \in 1..(j+1) PROVE index[q] # n
      OBVIOUS
    <3>1. q = j + 1 \/ q \in 1..j
      OBVIOUS
    <3> QED BY <2>2, <2>5, <3>1
<1>9. ASSUME NEW n \in 1..L, \A q \in 1..(j+1) : index[q] # n
      PROVE  \E p \in 1..(L-(j+1)) : g[p] = n
  <2>1. PICK r \in 1..(L-j) : h[r] = n
    BY <1>1, <1>9
  <2>2. h[d] = d + j /\ h[d] # n
    <3>1. j + 1 \in 1..(j+1)
      OBVIOUS
    <3> QED BY <1>0, <1>2, <1>9, <3>1
  <2>3. CASE r < d
    <3>1. r \in 1..(L-(j+1))
      BY <1>0, <2>3
    <3> QED BY <1>5, <2>1, <2>3, <3>1
  <2>4. CASE r > d
    <3>1. r - 1 \in 1..(L-(j+1)) /\ ~(r - 1 < d) /\ (r - 1) + 1 = r
      BY <1>0, <2>4
    <3>2. g[r-1] = h[r]
      BY <1>5, <3>1
    <3> QED BY <2>1, <3>1, <3>2
  <2> QED BY <1>0, <2>1, <2>2, <2>3, <2>4
<1>10. \A n \in 1..L : (\E p \in 1..(L-(j+1)) : g[p] = n) <=> (\A q \in 1..(j+1) : index[q] # n)
  BY <1>8, <1>9
<1>11. Places(g, keys, index, j+1)
  BY <1>0, <1>4, <1>6, <1>7, <1>10 DEF Places
<1> QED BY <1>11 DEF g, L

IsLeft(f, keys, index, n) ==
    f = [j \in 0..n |-> IF j = 0 THEN keys ELSE RemoveAt(f[j-1], index[j] - (j-1))]

LEMMA LeftStep ==
  ASSUME NEW f, NEW keys, NEW index, NEW n \in Nat, IsLeft(f, keys, index, n)
  PROVE  \A j \in 0..n : f[j] = IF j = 0 THEN keys ELSE RemoveAt(f[j-1], index[j] - (j-1))
BY DEF IsLeft

LEMMA LeftExists ==
  ASSUME NEW keys, NEW index, NEW n \in Nat
  PROVE  \E f : IsLeft(f, keys, index, n)
<1> DEFINE A == {k \in Nat : \E f : IsLeft(f, keys, index, k)}
<1>1. 0 \in A
  <2> DEFINE f == [j \in 0..0 |-> keys]
  <2>1. f = [j \in 0..0 |-> IF j = 0 THEN keys ELSE RemoveAt(f[j-1], index[j] - (j-1))]
    OBVIOUS
  <2> HIDE DEF f
  <2>2. IsLeft(f, keys, index, 0)
    BY <2>1 DEF IsLeft
  <2> QED BY <2>2
<1>2. ASSUME NEW k \in Nat, k \in A PROVE k + 1 \in A
  <2>1. PICK f : IsLeft(f, keys, index, k)
    BY <1>2
  <2> DEFINE Step(h, j) == IF j = 0 THEN keys ELSE RemoveAt(h[j-1], index[j] - (j-1))
             g == [j \in 0..(k+1) |-> IF j <= k THEN f[j] ELSE Step(f, j)]
  <2>2. \A j \in 0..(k+1) : g[j] = Step(g, j)
    <3> SUFFICES ASSUME NEW j \in 0..(k+1) PROVE g[j] = Step(g, j)
      OBVIOUS
    <3>1. CASE j = 0
      <4>1. f[j] = keys
        BY <2>1, <3>1, LeftStep
      <4> QED BY <3>1, <4>1
    <3>2. CASE j # 0
      <4>1. j - 1 \in 0..k /\ j - 1 <= k /\ g[j-1] = f[j-1]
        BY <3>2
      <4>2. CASE j <= k
        <5>1. f[j] = Step(f, j)
          <6>1. j \in 0..k
            BY <4>2
          <6> QED BY <2>1, <6>1, LeftStep
        <5> QED BY <3>2, <4>1, <4>2, <5>1
      <4>3. CASE ~(j <= k)
        BY <3>2, <4>1, <4>3
      <4> QED BY <4>2, <4>3
    <3> QED BY <3>1, <3>2
  <2>3. g = [j \in 0..(k+1) |-> g[j]]
    OBVIOUS
  <2> HIDE DEF g
  <2>4. g = [j \in 0..(k+1) |-> Step(g, j)]
    BY <2>2, <2>3
  <2>5. IsLeft(g, keys, index, k+1)
    BY <2>4 DEF IsLeft
  <2> QED BY <2>5
<1> HIDE DEF A
<1>3. Nat \subseteq A
  BY <1>1, <1>2, SetInduction
<1> QED BY <1>3 DEF A

(* The indexes mean places in a sequence of length n, in ascending order. *)
Chosen(index, n) ==
    /\ index \in Seq(Nat)
    /\ \A j \in 1..Len(index) : index[j] \in 1..n
    /\ \A i, j \in 1..Len(index) : i < j => index[i] < index[j]

LEMMA LeftNext ==
  ASSUME NEW K, NEW keys \in Seq(K), NEW index, Chosen(index, Len(keys)),
         NEW j \in Nat, j + 1 <= Len(index), NEW s, Left(s, keys, index, j)
  PROVE  Left(RemoveAt(s, index[j+1] - j), keys, index, j+1)
<1> DEFINE L == Len(keys)
           d == index[j+1] - j
<1>1. L \in Nat /\ Len(index) \in Nat /\ j + 1 \in 1..Len(index) /\ (j # 0 => j \in 1..Len(index))
  BY DEF Chosen
<1>2. index[j+1] \in 1..L /\ (j # 0 => index[j] \in Nat /\ index[j] < index[j+1] /\ index[j] >= j)
  BY <1>1 DEF Chosen, Left
<1>3. d \in 1..(L-j) /\ index[j+1] = d + j /\ index[j+1] >= j + 1 /\ d \in Nat
  BY <1>1, <1>2
<1>4. PICK h : Places(h, keys, index, j) /\ s = [p \in 1..(L-j) |-> keys[h[p]]]
  BY DEF Left
<1> DEFINE g == [p \in 1..(L-(j+1)) |-> IF p < d THEN h[p] ELSE h[p+1]]
<1> HIDE DEF d
<1>5. Places(g, keys, index, j+1)
  BY <1>1, <1>2, <1>3, <1>4, PlacesStep
<1>6. h \in [1..(L-j) -> 1..L] /\ \A p \in 1..(L-j) : keys[h[p]] \in K
  <2>1. h \in [1..(L-j) -> 1..L]
    BY <1>4 DEF Places
  <2>2. \A n \in 1..L : keys[n] \in K
    OBVIOUS
  <2> HIDE DEF L
  <2> QED BY <2>1, <2>2
<1> HIDE DEF L
<1>7. s \in Seq(K) /\ Len(s) = L - j
  <2>1. L - j \in Nat
    BY <1>1, <1>3
  <2> QED BY <1>4, <1>6, <2>1
<1>8. RemoveAt(s, d) = [p \in 1..(Len(s)-1) |-> IF p < d THEN s[p] ELSE s[p+1]]
  BY <1>3, <1>7, RemoveAtIs
<1>9. \A p \in 1..(L-(j+1)) : (IF p < d THEN s[p] ELSE s[p+1]) = keys[g[p]]
  <2> SUFFICES ASSUME NEW p \in 1..(L-(j+1))
               PROVE  (IF p < d THEN s[p] ELSE s[p+1]) = keys[g[p]]
    OBVIOUS
  <2>1. p \in 1..(L-j) /\ p + 1 \in 1..(L-j)
    BY <1>1
  <2>2. s[p] = keys[h[p]] /\ s[p+1] = keys[h[p+1]]
    BY <1>4, <2>1 DEF L
  <2> QED BY <2>2
<1>10. Len(s) - 1 = L - (j+1)
  BY <1>1, <1>7
<1> HIDE DEF g
<1>11. RemoveAt(s, d) = [p \in 1..(L-(j+1)) |-> keys[g[p]]]
  BY <1>8, <1>9, <1>10
<1>12. L = Len(keys) /\ d = index[j+1] - j /\ j + 1 # 0
  BY <1>1 DEF L, d
<1>13. Left(RemoveAt(s, d), keys, index, j+1)
  BY <1>3, <1>5, <1>11, <1>12 DEF Left
<1> QED BY <1>12, <1>13

(* Removing each of the indexes removes the keys they meant at first. *)
LEMMA RemoveEachIs ==
  ASSUME NEW K, NEW keys \in Seq(K), NEW index, Chosen(index, Len(keys))
  PROVE  Left(RemoveEach(keys, index), keys, index, Len(index))
<1> DEFINE n == Len(index)
           F == CHOOSE f : f = [j \in 0..n |-> IF j = 0 THEN keys ELSE RemoveAt(f[j-1], index[j] - (j-1))]
           A == {k \in Nat : k <= n => Left(F[k], keys, index, k)}
<1>0. n \in Nat
  BY DEF Chosen
<1>1. IsLeft(F, keys, index, n)
  <2>1. \E f : f = [j \in 0..n |-> IF j = 0 THEN keys ELSE RemoveAt(f[j-1], index[j] - (j-1))]
    <3>1. PICK f : IsLeft(f, keys, index, n)
      BY <1>0, LeftExists
    <3>2. f = [j \in 0..n |-> IF j = 0 THEN keys ELSE RemoveAt(f[j-1], index[j] - (j-1))]
      BY <3>1 DEF IsLeft
    <3> QED BY <3>2, Zenon
  <2>2. F = [j \in 0..n |-> IF j = 0 THEN keys ELSE RemoveAt(F[j-1], index[j] - (j-1))]
    BY <2>1, Zenon
  <2> QED BY <2>2 DEF IsLeft
<1>2. RemoveEach(keys, index) = F[n]
  BY DEF RemoveEach
<1> HIDE DEF F
<1>3. \A j \in 0..n : F[j] = IF j = 0 THEN keys ELSE RemoveAt(F[j-1], index[j] - (j-1))
  BY <1>0, <1>1, LeftStep
<1>4. 0 \in A
  <2>1. F[0] = keys
    BY <1>0, <1>3
  <2> DEFINE h == [p \in 1..(Len(keys)-0) |-> p]
  <2>2. Len(keys) \in Nat /\ Len(keys) - 0 = Len(keys)
    OBVIOUS
  <2>3. Places(h, keys, index, 0)
    BY <2>2 DEF Places
  <2>4. keys = [p \in 1..(Len(keys)-0) |-> keys[h[p]]]
    BY <2>2
  <2> HIDE DEF h
  <2>5. Left(keys, keys, index, 0)
    BY <2>3, <2>4 DEF Left
  <2> QED BY <2>1, <2>5
<1>5. ASSUME NEW k \in Nat, k \in A PROVE k + 1 \in A
  <2> SUFFICES ASSUME k + 1 <= n PROVE Left(F[k+1], keys, index, k+1)
    OBVIOUS
  <2>1. Left(F[k], keys, index, k)
    BY <1>0, <1>5
  <2>2. F[k+1] = RemoveAt(F[k], index[k+1] - k)
    <3>1. k + 1 \in 0..n /\ (k + 1) - 1 = k /\ k + 1 # 0
      BY <1>0
    <3> QED BY <1>3, <3>1
  <2> QED BY <2>1, <2>2, LeftNext
<1> HIDE DEF A
<1>6. Nat \subseteq A
  BY <1>4, <1>5, SetInduction
<1> QED BY <1>0, <1>2, <1>6 DEF A

(* s is keys without the places in S. *)
Thinned(s, keys, S) ==
    /\ s \in Seq(Key) /\ Len(s) <= Len(keys)
    /\ \A p \in DOMAIN s : \E n \in DOMAIN keys : n \notin S /\ s[p] = keys[n]
    /\ \A n \in DOMAIN keys : n \notin S => \E p \in DOMAIN s : s[p] = keys[n]
    /\ \A p, q \in DOMAIN s :
           p < q => \E m, n \in DOMAIN keys : m < n /\ s[p] = keys[m] /\ s[q] = keys[n]

LEMMA RemoveEachThins ==
  ASSUME NEW keys \in Seq(Key), NEW index, Chosen(index, Len(keys)), NEW S,
         \A n \in 1..Len(keys) : n \in S <=> \E j \in 1..Len(index) : index[j] = n
  PROVE  Thinned(RemoveEach(keys, index), keys, S)
<1> DEFINE s == RemoveEach(keys, index)
           L == Len(keys)
           m == L - Len(index)
<1>1. PICK h : Places(h, keys, index, Len(index)) /\ s = [p \in 1..m |-> keys[h[p]]]
  BY RemoveEachIs DEF Left
<1>2. L \in Nat /\ Len(index) \in Nat /\ DOMAIN keys = 1..L /\ \A n \in 1..L : keys[n] \in Key
  BY DEF Chosen
<1>3. /\ h \in [1..m -> 1..L]
      /\ \A p, q \in 1..m : p < q => h[p] < h[q]
      /\ \A n \in 1..L : (\E p \in 1..m : h[p] = n) <=> (\A q \in 1..Len(index) : index[q] # n)
  BY <1>1 DEF Places
<1>4. m \in Nat /\ m <= L
  <2>1. m \in Int /\ m <= L
    BY <1>2
  <2>2. Len(index) # 0 => index[Len(index)] >= Len(index) /\ index[Len(index)] \in 1..L
    <3>1. Left(s, keys, index, Len(index))
      BY RemoveEachIs
    <3>2. Len(index) # 0 => Len(index) \in 1..Len(index)
      BY <1>2
    <3> QED BY <3>1, <3>2 DEF Left, Chosen
  <2> QED BY <1>2, <2>1, <2>2
<1> HIDE DEF s, L, m
<1>5. s \in Seq(Key) /\ Len(s) = m /\ DOMAIN s = 1..m
  <2>1. \A p \in 1..m : keys[h[p]] \in Key
    BY <1>2, <1>3
  <2> QED BY <1>1, <1>4, <2>1
<1>6. \A p \in 1..m : s[p] = keys[h[p]] /\ h[p] \in 1..L /\ h[p] \notin S
  <2> SUFFICES ASSUME NEW p \in 1..m PROVE s[p] = keys[h[p]] /\ h[p] \in 1..L /\ h[p] \notin S
    OBVIOUS
  <2>1. s[p] = keys[h[p]] /\ h[p] \in 1..L
    BY <1>1, <1>3
  <2>2. \A q \in 1..Len(index) : index[q] # h[p]
    BY <1>3, <2>1
  <2> QED BY <2>1, <2>2 DEF L
<1>7. ASSUME NEW n \in 1..L, n \notin S PROVE \E p \in 1..m : s[p] = keys[n]
  <2>1. \A q \in 1..Len(index) : index[q] # n
    BY <1>7 DEF L
  <2>2. PICK p \in 1..m : h[p] = n
    BY <1>3, <2>1
  <2> QED BY <1>6, <2>2
<1>8. Thinned(s, keys, S)
  <2>1. Len(s) <= Len(keys)
    BY <1>4, <1>5 DEF L
  <2>2. \A p \in DOMAIN s : \E n \in DOMAIN keys : n \notin S /\ s[p] = keys[n]
    BY <1>2, <1>5, <1>6
  <2>3. \A n \in DOMAIN keys : n \notin S => \E p \in DOMAIN s : s[p] = keys[n]
    BY <1>2, <1>5, <1>7
  <2>4. \A p, q \in DOMAIN s :
            p < q => \E x, y \in DOMAIN keys : x < y /\ s[p] = keys[x] /\ s[q] = keys[y]
    <3> SUFFICES ASSUME NEW p \in DOMAIN s, NEW q \in DOMAIN s, p < q
                 PROVE  \E x, y \in DOMAIN keys : x < y /\ s[p] = keys[x] /\ s[q] = keys[y]
      OBVIOUS
    <3>1. h[p] \in DOMAIN keys /\ h[q] \in DOMAIN keys /\ h[p] < h[q]
          /\ s[p] = keys[h[p]] /\ s[q] = keys[h[q]]
      BY <1>2, <1>3, <1>5, <1>6
    <3> QED BY <3>1
  <2> QED BY <1>5, <2>1, <2>2, <2>3, <2>4 DEF Thinned
<1> QED BY <1>8 DEF s

LEMMA AscendingIsChosen ==
  ASSUME NEW index, NEW S, NEW n \in Nat, Ascending(index, S, n)
  PROVE  /\ Chosen(index, n)
         /\ \A m \in 1..n : m \in S <=> \E j \in 1..Len(index) : index[j] = m
<1>1. DOMAIN index = 1..Len(index)
  BY DEF Ascending
<1> QED BY <1>1 DEF Ascending, Chosen

(* s2n_config_wipe_expired_ticket_crypto_keys wipes the expired keys, all  *)
(* of them and no other, however the removals move them.                   *)
LEMMA WipeIs ==
  ASSUME NEW keys \in Seq(Key), NEW t
  PROVE  Thinned(s2n_config_wipe_expired_ticket_crypto_keys(keys, t), keys,
                 {i \in DOMAIN keys : Expired(keys[i], t)})
<1> DEFINE S == {i \in DOMAIN keys : Expired(keys[i], t)}
           index == InOrder(S, Len(keys))
<1>1. s2n_config_wipe_expired_ticket_crypto_keys(keys, t) = RemoveEach(keys, index)
  BY DEF s2n_config_wipe_expired_ticket_crypto_keys, Where
<1>2. Len(keys) \in Nat
  OBVIOUS
<1> HIDE DEF S
<1>3. Ascending(index, S, Len(keys))
  BY <1>2, InOrderAscends
<1> HIDE DEF index
<1>4. /\ Chosen(index, Len(keys))
      /\ \A m \in 1..Len(keys) : m \in S <=> \E j \in 1..Len(index) : index[j] = m
  BY <1>2, <1>3, AscendingIsChosen
<1>5. Thinned(RemoveEach(keys, index), keys, S)
  BY <1>4, RemoveEachThins
<1> QED BY <1>1, <1>5 DEF S

(* What s2n_find_ticket_key may come to: r is its result. *)
Finds(r, keys, name, t) ==
    \/ r.left = keys /\ r.key = NoKey /\ \A i \in DOMAIN keys : keys[i].name # name
    \/ \E i \in DOMAIN keys : /\ keys[i].name = name /\ Expired(keys[i], t)
                              /\ r.key = NoKey /\ Thinned(r.left, keys, {i})
    \/ \E i \in DOMAIN keys : /\ keys[i].name = name /\ ~Expired(keys[i], t)
                              /\ r.key = keys[i] /\ r.left = keys

LEMMA FindIs ==
  ASSUME NEW keys \in Seq(Key), NEW name, NEW t
  PROVE  Finds(s2n_find_ticket_key(keys, name, t), keys, name, t)
<1> DEFINE S == {i \in DOMAIN keys : keys[i].name = name}
           named == InOrder(S, Len(keys))
           r == s2n_find_ticket_key(keys, name, t)
<1>1. r = IF named = <<>> THEN [left |-> keys, key |-> NoKey]
          ELSE IF Expired(keys[named[1]], t)
          THEN [left |-> RemoveEach(keys, <<named[1]>>), key |-> NoKey]
          ELSE [left |-> keys, key |-> keys[named[1]]]
  BY DEF s2n_find_ticket_key, Where
<1>2. Len(keys) \in Nat /\ DOMAIN keys = 1..Len(keys)
  OBVIOUS
<1>3. \A i : i \in S <=> i \in DOMAIN keys /\ keys[i].name = name
  OBVIOUS
<1> HIDE DEF S, r
<1>4. Ascending(named, S, Len(keys))
  BY <1>2, InOrderAscends
<1> HIDE DEF named
<1>5. named \in Seq(Nat) /\ DOMAIN named = 1..Len(named)
  BY <1>4 DEF Ascending
<1>6. CASE named = <<>>
  <2>1. \A i \in DOMAIN keys : keys[i].name # name
    BY <1>2, <1>3, <1>4, <1>6 DEF Ascending
  <2> QED BY <1>1, <1>6, <2>1 DEF Finds, r
<1>7. CASE named # <<>>
  <2> DEFINE i == named[1]
  <2>1. 1 \in DOMAIN named
    BY <1>5, <1>7
  <2>2. i \in DOMAIN keys /\ keys[i].name = name
    BY <1>2, <1>3, <1>4, <2>1 DEF Ascending
  <2> HIDE DEF i
  <2>3. CASE Expired(keys[i], t)
    <3>1. r = [left |-> RemoveEach(keys, <<i>>), key |-> NoKey]
      BY <1>1, <1>7, <2>3 DEF i
    <3>2. Chosen(<<i>>, Len(keys)) /\ \A m \in 1..Len(keys) : m \in {i} <=> \E j \in 1..Len(<<i>>) : <<i>>[j] = m
      <4>1. i \in Nat /\ i \in 1..Len(keys)
        BY <1>2, <2>2
      <4>2. <<i>> \in Seq(Nat) /\ Len(<<i>>) = 1 /\ <<i>>[1] = i
        BY <4>1
      <4> QED BY <4>1, <4>2 DEF Chosen
    <3>3. Thinned(RemoveEach(keys, <<i>>), keys, {i})
      BY <3>2, RemoveEachThins
    <3>4. r.left = RemoveEach(keys, <<i>>) /\ r.key = NoKey
      BY <3>1
    <3> QED BY <2>2, <2>3, <3>3, <3>4 DEF Finds, r
  <2>4. CASE ~Expired(keys[i], t)
    <3>1. r = [left |-> keys, key |-> keys[i]]
      BY <1>1, <1>7, <2>4 DEF i
    <3>2. r.left = keys /\ r.key = keys[i]
      BY <3>1
    <3> QED BY <2>2, <2>4, <3>2 DEF Finds, r
  <2> QED BY <2>3, <2>4
<1> QED BY <1>6, <1>7

(* s is keys with k put in somewhere. *)
Inserted(s, keys, k) ==
    /\ s \in Seq(Key)
    /\ \E i \in 1..(Len(keys)+1) :
           s = [p \in 1..(Len(keys)+1) |-> IF p < i THEN keys[p] ELSE IF p = i THEN k ELSE keys[p-1]]

LEMMA StoreIs ==
  ASSUME NEW keys \in Seq(Key), NEW k \in Key
  PROVE  Inserted(s2n_config_store_ticket_key(keys, k), keys, k)
<1> DEFINE S == {j \in DOMAIN keys : keys[j].intro < k.intro}
           L == Len(keys)
           i == Cardinality(S) + 1
           a == SubSeq(keys, 1, i-1)
           b == SubSeq(keys, i, L)
           r == [p \in 1..(L+1) |-> IF p < i THEN keys[p] ELSE IF p = i THEN k ELSE keys[p-1]]
<1>1. L \in Nat /\ DOMAIN keys = 1..L
  OBVIOUS
<1>2. i \in 1..(L+1) /\ i \in Nat
  <2>1. IsFiniteSet(1..L) /\ Cardinality(1..L) = L
    BY <1>1, FS_Interval
  <2>2. S \subseteq 1..L
    BY <1>1
  <2> HIDE DEF S
  <2>3. IsFiniteSet(S) /\ Cardinality(S) <= L
    BY <2>1, <2>2, FS_Subset
  <2>4. Cardinality(S) \in Nat
    BY <2>3, FS_CardinalityType
  <2> QED BY <1>1, <2>3, <2>4
<1>3. s2n_config_store_ticket_key(keys, k) = (a \o <<k>>) \o b
  BY DEF s2n_config_store_ticket_key, InsertAt
<1> HIDE DEF i
<1>4. a \in Seq(Key) /\ Len(a) = i - 1 /\ \A p \in 1..(i-1) : a[p] = keys[p]
  BY <1>1, <1>2
<1>5. b \in Seq(Key) /\ Len(b) = L - i + 1 /\ \A p \in 1..(L-i+1) : b[p] = keys[p+i-1]
  BY <1>1, <1>2
<1> HIDE DEF a, b
<1>6. <<k>> \in Seq(Key) /\ Len(<<k>>) = 1 /\ <<k>>[1] = k
  OBVIOUS
<1> DEFINE c == a \o <<k>>
<1>7. c \in Seq(Key) /\ Len(c) = i /\ c[i] = k /\ \A p \in 1..(i-1) : c[p] = keys[p]
  <2>1. c \in Seq(Key) /\ Len(c) = Len(a) + 1
    BY <1>4, <1>6, ConcatProperties
  <2>2. \A p \in 1..Len(c) : c[p] = IF p <= Len(a) THEN a[p] ELSE <<k>>[p - Len(a)]
    BY <1>4, <1>6, ConcatProperties
  <2>3. Len(c) = i /\ i \in 1..Len(c) /\ ~(i <= Len(a)) /\ i - Len(a) = 1
    BY <1>2, <1>4, <2>1
  <2>4. c[i] = k
    BY <1>6, <2>2, <2>3
  <2>5. \A p \in 1..(i-1) : p \in 1..Len(c) /\ p <= Len(a)
    BY <1>2, <1>4, <2>3
  <2> QED BY <1>4, <2>1, <2>2, <2>3, <2>4, <2>5
<1> HIDE DEF c
<1>8. (c \o b) \in Seq(Key) /\ Len(c \o b) = L + 1
      /\ \A p \in 1..(L+1) : (c \o b)[p] = IF p <= i THEN c[p] ELSE b[p - i]
  <2>0. c \in Seq(Key) /\ b \in Seq(Key)
    BY <1>5, <1>7
  <2>1. (c \o b) \in Seq(Key) /\ Len(c \o b) = Len(c) + Len(b)
    BY <2>0, ConcatProperties
  <2>2. \A p \in 1..Len(c \o b) : (c \o b)[p] = IF p <= Len(c) THEN c[p] ELSE b[p - Len(c)]
    BY <2>0, ConcatProperties
  <2>3. Len(c) + Len(b) = L + 1
    BY <1>1, <1>2, <1>5, <1>7
  <2> QED BY <1>7, <2>1, <2>2, <2>3
<1>9. \A p \in 1..(L+1) : (c \o b)[p] = IF p < i THEN keys[p] ELSE IF p = i THEN k ELSE keys[p-1]
  <2> SUFFICES ASSUME NEW p \in 1..(L+1)
               PROVE  (c \o b)[p] = IF p < i THEN keys[p] ELSE IF p = i THEN k ELSE keys[p-1]
    OBVIOUS
  <2>1. CASE p < i
    BY <1>2, <1>7, <1>8, <2>1
  <2>2. CASE p = i
    BY <1>2, <1>7, <1>8, <2>2
  <2>3. CASE p > i
    <3>1. p - i \in 1..(L-i+1) /\ (p - i) + i - 1 = p - 1 /\ ~(p <= i) /\ ~(p < i) /\ p # i
      BY <1>1, <1>2, <2>3
    <3>2. b[p-i] = keys[p-1]
      BY <1>5, <3>1
    <3> QED BY <1>8, <3>1, <3>2
  <2>4. p \in Nat /\ i \in Nat
    BY <1>1, <1>2
  <2>5. p < i \/ p = i \/ p > i
    BY <2>4
  <2> QED BY <2>1, <2>2, <2>3, <2>5, Zenon
<1>10. r \in Seq(Key) /\ Len(r) = L + 1 /\ \A p \in 1..(L+1) : r[p] = (c \o b)[p]
  <2>1. \A p \in 1..(L+1) : (IF p < i THEN keys[p] ELSE IF p = i THEN k ELSE keys[p-1]) \in Key
    BY <1>1, <1>2
  <2>2. L + 1 \in Nat
    BY <1>1
  <2> HIDE DEF L
  <2>3. r \in Seq(Key)
    BY <2>1, <2>2
  <2>4. Len(r) = L + 1
    BY <2>2
  <2>5. \A p \in 1..(L+1) : r[p] = IF p < i THEN keys[p] ELSE IF p = i THEN k ELSE keys[p-1]
    OBVIOUS
  <2> HIDE DEF r
  <2> QED BY <1>9, <2>3, <2>4, <2>5
<1> HIDE DEF r, L
<1>11. c \o b = r
  BY <1>8, <1>10, SeqEqual
<1>12. s2n_config_store_ticket_key(keys, k) = r
  BY <1>3, <1>11 DEF c
<1> QED BY <1>2, <1>10, <1>12 DEF Inserted, r, L

-----------------------------------------------------------------------------
(* Choosing a key by weight.                                               *)

IsSum(f, w, n) == f = [i \in 0..n |-> IF i = 0 THEN 0 ELSE f[i-1] + w[i]]

LEMMA SumStep ==
  ASSUME NEW f, NEW w, NEW n \in Nat, IsSum(f, w, n)
  PROVE  \A i \in 0..n : f[i] = IF i = 0 THEN 0 ELSE f[i-1] + w[i]
BY DEF IsSum

LEMMA SumExists ==
  ASSUME NEW w, NEW n \in Nat
  PROVE  \E f : IsSum(f, w, n)
<1> DEFINE A == {k \in Nat : \E f : IsSum(f, w, k)}
<1>1. 0 \in A
  <2> DEFINE f == [i \in 0..0 |-> 0]
  <2>1. f = [i \in 0..0 |-> IF i = 0 THEN 0 ELSE f[i-1] + w[i]]
    OBVIOUS
  <2> HIDE DEF f
  <2>2. IsSum(f, w, 0)
    BY <2>1 DEF IsSum
  <2> QED BY <2>2
<1>2. ASSUME NEW k \in Nat, k \in A PROVE k + 1 \in A
  <2>1. PICK f : IsSum(f, w, k)
    BY <1>2
  <2> DEFINE Step(h, i) == IF i = 0 THEN 0 ELSE h[i-1] + w[i]
             g == [i \in 0..(k+1) |-> IF i <= k THEN f[i] ELSE Step(f, i)]
  <2>2. \A i \in 0..(k+1) : g[i] = Step(g, i)
    <3> SUFFICES ASSUME NEW i \in 0..(k+1) PROVE g[i] = Step(g, i)
      OBVIOUS
    <3>1. CASE i = 0
      <4>1. f[i] = 0
        BY <2>1, <3>1, SumStep
      <4> QED BY <3>1, <4>1
    <3>2. CASE i # 0
      <4>1. i - 1 \in 0..k /\ i - 1 <= k /\ g[i-1] = f[i-1]
        BY <3>2
      <4>2. CASE i <= k
        <5>1. f[i] = Step(f, i)
          <6>1. i \in 0..k
            BY <4>2
          <6> QED BY <2>1, <6>1, SumStep
        <5> QED BY <3>2, <4>1, <4>2, <5>1
      <4>3. CASE ~(i <= k)
        BY <3>2, <4>1, <4>3
      <4> QED BY <4>2, <4>3
    <3> QED BY <3>1, <3>2
  <2>3. g = [i \in 0..(k+1) |-> g[i]]
    OBVIOUS
  <2> HIDE DEF g
  <2>4. g = [i \in 0..(k+1) |-> Step(g, i)]
    BY <2>2, <2>3
  <2>5. IsSum(g, w, k+1)
    BY <2>4 DEF IsSum
  <2> QED BY <2>5
<1> HIDE DEF A
<1>3. Nat \subseteq A
  BY <1>1, <1>2, SetInduction
<1> QED BY <1>3 DEF A

(* The running sums of positive weights climb to their total. *)
LEMMA TotalIs ==
  ASSUME NEW w \in Seq(Nat \ {0})
  PROVE  \E f \in [0..Len(w) -> Nat] :
            /\ f[0] = 0 /\ Total(w) = f[Len(w)]
            /\ \A i \in 1..Len(w) : f[i] = f[i-1] + w[i]
            /\ \A i \in 0..Len(w) : f[i] <= f[Len(w)]
<1> DEFINE n == Len(w)
           f == CHOOSE s : s = [i \in 0..n |-> IF i = 0 THEN 0 ELSE s[i-1] + w[i]]
<1>0. n \in Nat /\ \A i \in 1..n : w[i] \in Nat
  OBVIOUS
<1>1. Total(w) = f[n]
  BY DEF Total
<1>2. f = [i \in 0..n |-> IF i = 0 THEN 0 ELSE f[i-1] + w[i]]
  <2>1. PICK s : IsSum(s, w, n)
    BY <1>0, SumExists
  <2>2. s = [i \in 0..n |-> IF i = 0 THEN 0 ELSE s[i-1] + w[i]]
    BY <2>1 DEF IsSum
  <2>3. \E s2 : s2 = [i \in 0..n |-> IF i = 0 THEN 0 ELSE s2[i-1] + w[i]]
    BY <2>2, Zenon
  <2> QED BY <2>3, Zenon
<1> HIDE DEF f, n
<1>3. IsSum(f, w, n)
  BY <1>2 DEF IsSum
<1>4. f[0] = 0 /\ \A i \in 1..n : f[i] = f[i-1] + w[i]
  BY <1>0, <1>3, SumStep
<1>5. \A i \in 0..n : f[i] \in Nat
  <2> DEFINE A == {k \in Nat : k <= n => f[k] \in Nat}
  <2>1. 0 \in A
    BY <1>4
  <2>2. ASSUME NEW k \in Nat, k \in A PROVE k + 1 \in A
    <3> SUFFICES ASSUME k + 1 <= n PROVE f[k+1] \in Nat
      OBVIOUS
    <3>1. k + 1 \in 1..n /\ (k + 1) - 1 = k /\ k <= n
      BY <1>0
    <3>2. f[k+1] = f[k] + w[k+1] /\ w[k+1] \in Nat
      BY <1>0, <1>4, <3>1
    <3> QED BY <2>2, <3>1, <3>2
  <2> HIDE DEF A
  <2>3. Nat \subseteq A
    BY <2>1, <2>2, SetInduction
  <2> QED BY <1>0, <2>3 DEF A
<1>6. f \in [0..n -> Nat]
  <2>1. f = [i \in 0..n |-> f[i]]
    BY <1>2
  <2> QED BY <1>5, <2>1
<1>7. \A i \in 0..n : f[i] <= f[n]
  <2> DEFINE A == {k \in Nat : k <= n => f[n - k] <= f[n]}
  <2>1. 0 \in A
    BY <1>0, <1>5
  <2>2. ASSUME NEW k \in Nat, k \in A PROVE k + 1 \in A
    <3> SUFFICES ASSUME k + 1 <= n PROVE f[n - (k+1)] <= f[n]
      OBVIOUS
    <3>1. n - k \in 1..n /\ n - k \in 0..n /\ n - (k+1) \in 0..n /\ (n - k) - 1 = n - (k+1) /\ n \in 0..n
      BY <1>0
    <3>2. f[n-k] = f[n - (k+1)] + w[n-k] /\ w[n-k] \in Nat
      BY <1>0, <1>4, <3>1
    <3>3. f[n-k] \in Nat /\ f[n - (k+1)] \in Nat /\ f[n] \in Nat /\ f[n-k] <= f[n]
      BY <1>5, <2>2, <3>1
    <3> QED BY <3>2, <3>3
  <2> HIDE DEF A
  <2>3. Nat \subseteq A
    BY <2>1, <2>2, SetInduction
  <2>4. ASSUME NEW i \in 0..n PROVE f[i] <= f[n]
    <3>1. n - i \in Nat /\ n - i <= n /\ n - (n - i) = i
      BY <1>0
    <3>2. n - i \in A
      BY <2>3, <3>1
    <3> QED BY <3>1, <3>2 DEF A
  <2> QED BY <2>4
<1> QED BY <1>1, <1>4, <1>6, <1>7 DEF n

(* Products. *)
LEMMA Minus == \A a, b, x \in Int : (a - b) * x = a * x - b * x
OBVIOUS
LEMMA Plus == \A a, b, x \in Int : (a + b) * x = a * x + b * x /\ x * (a + b) = x * a + x * b
OBVIOUS
LEMMA Product == \A a, b \in Int : a * b \in Int /\ (a >= 0 /\ b >= 0 => a * b >= 0)
OBVIOUS
LEMMA Cancel ==
  ASSUME NEW a \in Int, NEW b \in Int, NEW x \in Int, x > 0
  PROVE  (a * x >= b * x => a >= b) /\ (a * x < b * x => a < b)
<1>1. CASE a < b
  <2>1. (b - a) * x = b * x - a * x /\ (b - a) * x > 0
    BY <1>1
  <2> QED BY <1>1, <2>1
<1>2. CASE a >= b
  <2>1. (a - b) * x = a * x - b * x /\ (a - b) * x >= 0
    BY <1>2
  <2> QED BY <1>2, <2>1
<1> QED BY <1>1, <1>2
LEMMA Grows ==
  ASSUME NEW a \in Int, NEW b \in Int, NEW x \in Int, x >= 0, a <= b
  PROVE  a * x <= b * x /\ x * a <= x * b
<1>1. (b - a) * x = b * x - a * x /\ x * (b - a) = x * b - x * a
  BY Minus
<1>2. (b - a) * x >= 0 /\ x * (b - a) >= 0
  <2>1. b - a \in Int /\ b - a >= 0
    OBVIOUS
  <2> QED BY <2>1, Product
<1>3. a * x \in Int /\ b * x \in Int /\ x * a \in Int /\ x * b \in Int
  BY Product
<1> QED BY <1>1, <1>2, <1>3

(* The next exact sum, and the rounded one. *)
LEMMA NearNext ==
  ASSUME NEW p \in Int, NEW q \in Int, NEW x \in Int, NEW y \in Int, NEW E \in Int,
         NEW d \in Int, NEW e \in Int, NEW pw \in Int,
         p - q >= pw - E, p - q <= pw + E, x = y + pw, q >= y - d, q <= y + d, e = d + E
  PROVE  p >= x - e /\ p <= x + e
OBVIOUS

Positive(w, n) == w \in Seq(Nat \ {0}) /\ n \in Nat /\ n = Len(w)
Climbs(f, w, n) == f \in [0..n -> Nat] /\ f[0] = 0 /\ \A i \in 1..n : f[i] = f[i-1] + w[i]
Ascends(c, n) == c \in [1..n -> Nat] /\ \A i \in 1..n : Before(c, i) \in Nat /\ Before(c, i) <= c[i]
Rounded(c, w, n, T) ==
    \A i \in 1..n : /\ (c[i] - Before(c, i)) * T >= Precision * w[i] - Slack * T
                    /\ (c[i] - Before(c, i)) * T <= Precision * w[i] + Slack * T
Near(c, f, i, T) ==
    /\ c[i] * T >= Precision * f[i] - i * (Slack * T)
    /\ c[i] * T <= Precision * f[i] + i * (Slack * T)

LEMMA SumsClimb ==
  ASSUME NEW w, NEW n, Positive(w, n), NEW c \in Sums(w)
  PROVE  Ascends(c, n) /\ Rounded(c, w, n, Total(w))
<1>0. Precision \in Nat /\ Slack \in Nat /\ n \in Nat /\ n = Len(w) /\ n * Slack \in Nat
  BY DoubleAssumption DEF Positive
<1>1. c \in [1..n -> 0..(Precision + n * Slack)]
  BY <1>0 DEF Sums
<1>2. c \in [1..n -> Nat]
  BY <1>0, <1>1
<1>3. Rounded(c, w, n, Total(w)) /\ \A i \in 1..n : Before(c, i) <= c[i]
  BY <1>0 DEF Sums, Rounded
<1>4. ASSUME NEW i \in 1..n PROVE Before(c, i) \in Nat
  <2>1. CASE i = 1
    BY <2>1 DEF Before
  <2>2. CASE i # 1
    <3>1. i - 1 \in 1..n
      BY <1>0, <2>2
    <3>2. c[i-1] \in Nat
      BY <1>2, <3>1
    <3> QED BY <2>2, <3>2 DEF Before
  <2> QED BY <2>1, <2>2
<1> QED BY <1>2, <1>3, <1>4 DEF Ascends

(* The counts climb. *)
LEMMA AscendsAll ==
  ASSUME NEW n \in Nat, NEW c, Ascends(c, n), NEW i \in 1..n, NEW j \in 1..n, i <= j
  PROVE  c[i] <= c[j]
<1>1. \A m \in 1..n : c[m] \in Nat
  BY DEF Ascends
<1> DEFINE A == {k \in Nat : i + k <= n => c[i] <= c[i + k]}
<1>2. 0 \in A
  <2>1. i + 0 = i /\ c[i] \in Nat
    BY <1>1
  <2> QED BY <2>1
<1>3. ASSUME NEW k \in Nat, k \in A PROVE k + 1 \in A
  <2> SUFFICES ASSUME i + (k + 1) <= n PROVE c[i] <= c[i + (k + 1)]
    OBVIOUS
  <2> DEFINE m == i + (k + 1)
  <2>1. m \in 1..n /\ m # 1 /\ m - 1 = i + k /\ i + k <= n /\ i + k \in 1..n
    OBVIOUS
  <2>2. c[i] <= c[i + k]
    BY <1>3, <2>1
  <2> HIDE DEF m, A
  <2>3. Before(c, m) = c[i + k]
    BY <2>1 DEF Before
  <2>4. c[i + k] <= c[m]
    BY <2>1, <2>3 DEF Ascends
  <2>5. c[i] \in Nat /\ c[i + k] \in Nat /\ c[m] \in Nat
    BY <1>1, <2>1
  <2>6. c[i] <= c[m]
    BY <2>2, <2>4, <2>5
  <2> QED BY <2>6 DEF m
<1> HIDE DEF A
<1>4. Nat \subseteq A
  BY <1>2, <1>3, SetInduction
<1>5. j - i \in Nat /\ i + (j - i) = j /\ i + (j - i) <= n
  OBVIOUS
<1>6. j - i \in A
  BY <1>4, <1>5
<1> QED BY <1>5, <1>6 DEF A

(* One step of the two sums. *)
LEMMA SumsMove ==
  ASSUME NEW w, NEW n, Positive(w, n), NEW c, Ascends(c, n), NEW T \in Nat, Rounded(c, w, n, T),
         NEW f, Climbs(f, w, n), NEW i \in 1..n
  PROVE  /\ c[i] * T - Before(c, i) * T >= Precision * w[i] - Slack * T
         /\ c[i] * T - Before(c, i) * T <= Precision * w[i] + Slack * T
         /\ c[i] * T \in Int /\ Before(c, i) * T \in Int /\ Precision * w[i] \in Int /\ Slack * T \in Int
         /\ Precision * f[i] \in Int /\ Precision * f[i-1] \in Int
         /\ Precision * f[i] = Precision * f[i-1] + Precision * w[i]
         /\ i * (Slack * T) \in Int /\ (i-1) * (Slack * T) \in Int
         /\ i * (Slack * T) = (i-1) * (Slack * T) + Slack * T
<1> DEFINE E == Slack * T
<1>0. Precision \in Int /\ Slack \in Int /\ T \in Int /\ n \in Nat
  BY DoubleAssumption DEF Positive
<1>1. E \in Int
  BY <1>0, Product
<1>2. c[i] \in Int /\ Before(c, i) \in Int
  BY DEF Ascends
<1>3. w[i] \in Int
  BY DEF Positive
<1>4. f[i] \in Int /\ f[i-1] \in Int /\ f[i] = f[i-1] + w[i]
  <2>1. i \in 0..n /\ i - 1 \in 0..n
    BY <1>0
  <2>2. f[i] \in Nat /\ f[i-1] \in Nat
    BY <2>1 DEF Climbs
  <2> QED BY <2>2 DEF Climbs
<1>5. i \in Int /\ i - 1 \in Int /\ (i - 1) + 1 = i
  BY <1>0
<1> HIDE DEF E
<1>6. (c[i] - Before(c, i)) * T = c[i] * T - Before(c, i) * T
  BY <1>0, <1>2, Minus
<1>7. c[i] * T \in Int /\ Before(c, i) * T \in Int /\ Precision * w[i] \in Int
  BY <1>0, <1>2, <1>3, Product
<1>8. Precision * f[i] \in Int /\ Precision * f[i-1] \in Int /\ i * E \in Int /\ (i-1) * E \in Int
  BY <1>0, <1>1, <1>4, <1>5, Product
<1>9. Precision * (f[i-1] + w[i]) = Precision * f[i-1] + Precision * w[i]
  BY <1>0, <1>3, <1>4, Plus
<1>10. ((i - 1) + 1) * E = (i-1) * E + 1 * E
  BY <1>1, <1>5, Plus
<1>11. 1 * E = E
  BY <1>1
<1>12. (c[i] - Before(c, i)) * T >= Precision * w[i] - E /\ (c[i] - Before(c, i)) * T <= Precision * w[i] + E
  BY DEF Rounded, E
<1>13. i * E = (i-1) * E + E
  BY <1>5, <1>10, <1>11
<1>14. Precision * f[i] = Precision * f[i-1] + Precision * w[i]
  BY <1>4, <1>9
<1>15. c[i] * T - Before(c, i) * T >= Precision * w[i] - E /\ c[i] * T - Before(c, i) * T <= Precision * w[i] + E
  BY <1>6, <1>12
<1> QED BY <1>1, <1>7, <1>8, <1>13, <1>14, <1>15 DEF E

(* The counts stay close to the exact sums. *)
LEMMA SumsAreNear ==
  ASSUME NEW w, NEW n, Positive(w, n), NEW c, Ascends(c, n), NEW T \in Nat, Rounded(c, w, n, T),
         NEW f, Climbs(f, w, n)
  PROVE  \A i \in 1..n : Near(c, f, i, T)
<1> DEFINE A == {k \in Nat : k + 1 <= n => Near(c, f, k + 1, T)}
           E == Slack * T
<1>0. n \in Nat /\ Precision \in Int /\ E \in Int
  BY DoubleAssumption, Product DEF Positive
<1>1. 0 \in A
  <2> SUFFICES ASSUME 1 <= n PROVE Near(c, f, 1, T)
    OBVIOUS
  <2>1. 1 \in 1..n /\ 1 - 1 = 0
    BY <1>0
  <2>2. Before(c, 1) = 0 /\ f[0] = 0
    BY DEF Before, Climbs
  <2> HIDE DEF E
  <2>3. 0 * T = 0 /\ Precision * 0 = 0 /\ 0 * E = 0
    BY <1>0
  <2>4. /\ c[1] * T - Before(c, 1) * T >= Precision * w[1] - E
        /\ c[1] * T - Before(c, 1) * T <= Precision * w[1] + E
        /\ c[1] * T \in Int /\ Precision * w[1] \in Int
        /\ Precision * f[1] \in Int /\ Precision * f[1] = Precision * f[1-1] + Precision * w[1]
        /\ 1 * E \in Int /\ 1 * E = (1-1) * E + E
    BY <2>1, SumsMove DEF E
  <2>5. c[1] * T - 0 >= Precision * w[1] - E /\ c[1] * T - 0 <= Precision * w[1] + E
        /\ Precision * f[1] = 0 + Precision * w[1] /\ 1 * E = 0 + E
    BY <2>1, <2>2, <2>3, <2>4
  <2>6. c[1] * T >= Precision * f[1] - 1 * E /\ c[1] * T <= Precision * f[1] + 1 * E
    BY <1>0, <2>4, <2>5
  <2> QED BY <2>6 DEF Near, E
<1>2. ASSUME NEW k \in Nat, k \in A PROVE k + 1 \in A
  <2> SUFFICES ASSUME (k + 1) + 1 <= n PROVE Near(c, f, (k + 1) + 1, T)
    OBVIOUS
  <2> DEFINE i == (k + 1) + 1
             h == k + 1
  <2>1. i \in 1..n /\ i - 1 = h /\ h \in 1..n /\ i # 1 /\ k + 1 <= n
    BY <1>0
  <2>2. Near(c, f, h, T)
    BY <1>2, <2>1
  <2> HIDE DEF i, h, A, E
  <2>3. Before(c, i) = c[h]
    BY <2>1 DEF Before
  <2>4. c[h] * T >= Precision * f[h] - h * E /\ c[h] * T <= Precision * f[h] + h * E
    BY <2>2 DEF Near, E
  <2>5. /\ c[i] * T - c[h] * T >= Precision * w[i] - E
        /\ c[i] * T - c[h] * T <= Precision * w[i] + E
        /\ c[i] * T \in Int /\ c[h] * T \in Int /\ Precision * w[i] \in Int
        /\ Precision * f[i] \in Int /\ Precision * f[h] \in Int
        /\ Precision * f[i] = Precision * f[h] + Precision * w[i]
        /\ i * E \in Int /\ h * E \in Int /\ i * E = h * E + E
    BY <2>1, <2>3, SumsMove DEF E
  <2>6. c[i] * T >= Precision * f[i] - i * E /\ c[i] * T <= Precision * f[i] + i * E
    BY <1>0, <2>4, <2>5, NearNext
  <2> QED BY <2>6 DEF i, E, Near
<1> HIDE DEF A
<1>3. Nat \subseteq A
  BY <1>1, <1>2, SetInduction
<1>4. ASSUME NEW i \in 1..n PROVE Near(c, f, i, T)
  <2>1. i - 1 \in Nat /\ (i - 1) + 1 = i /\ i <= n
    BY <1>0
  <2>2. i - 1 \in A
    BY <1>3, <2>1
  <2> QED BY <2>1, <2>2 DEF A
<1> QED BY <1>4

(* A key that may encrypt has a positive weight. *)
LEMMA WeightIsPositive ==
  ASSUME NEW k \in Key, NEW t \in Nat, MayEncrypt(k, t)
  PROVE  Weight(k, t) \in Nat /\ Weight(k, t) > 0
<1> DEFINE half == EncryptDecryptLifetime \div 2
           a == k.intro
<1>1. EncryptDecryptLifetime \in Nat /\ EncryptDecryptLifetime % 2 = 0 /\ MaxTime \in Nat
  BY LifetimeAssumption
<1>2. half \in Nat /\ half + half = EncryptDecryptLifetime
  BY <1>1
<1>3. a \in Nat
  BY <1>1 DEF Key
<1>4. a < t /\ t < a + EncryptDecryptLifetime
  BY DEF MayEncrypt
<1>5. Weight(k, t) = IF t < a + half THEN t - a ELSE half - (t - (a + half))
  BY DEF Weight
<1> HIDE DEF half, a
<1>6. CASE t < a + half
  BY <1>3, <1>4, <1>5, <1>6
<1>7. CASE ~(t < a + half)
  BY <1>2, <1>3, <1>4, <1>5, <1>7
<1> QED BY <1>6, <1>7

(* EncryptKeys lists the keys that may encrypt. *)
LEMMA EncryptKeysAre ==
  ASSUME NEW t, config.ticket_keys \in Seq(Key)
  PROVE  /\ EncryptKeys(t) \in Seq(Nat)
         /\ \A i \in 1..Len(EncryptKeys(t)) :
                /\ EncryptKeys(t)[i] \in DOMAIN config.ticket_keys
                /\ MayEncrypt(config.ticket_keys[EncryptKeys(t)[i]], t)
         /\ \A n \in DOMAIN config.ticket_keys :
                MayEncrypt(config.ticket_keys[n], t) => \E i \in 1..Len(EncryptKeys(t)) : EncryptKeys(t)[i] = n
<1> DEFINE keys == config.ticket_keys
           S == {i \in DOMAIN keys : MayEncrypt(keys[i], t)}
           w == InOrder(S, Len(keys))
           e == EncryptKeys(t)
<1>1. e = Reverse(w)
  BY DEF EncryptKeys, Where
<1>2. Len(keys) \in Nat /\ DOMAIN keys = 1..Len(keys)
  OBVIOUS
<1>3. \A i : i \in S <=> i \in DOMAIN keys /\ MayEncrypt(keys[i], t)
  OBVIOUS
<1> HIDE DEF S, e, keys
<1>4. Ascending(w, S, Len(keys))
  BY <1>2, InOrderAscends
<1> HIDE DEF w
<1>5. w \in Seq(Nat) /\ DOMAIN w = 1..Len(w) /\ Len(w) \in Nat
  BY <1>4 DEF Ascending
<1>6. e = [i \in 1..Len(w) |-> w[(Len(w) - i) + 1]]
  BY <1>1 DEF Reverse
<1>7. \A i \in 1..Len(w) : (Len(w) - i) + 1 \in 1..Len(w) /\ (Len(w) - ((Len(w) - i) + 1)) + 1 = i
  BY <1>5
<1>8. e \in Seq(Nat) /\ Len(e) = Len(w) /\ \A i \in 1..Len(w) : e[i] = w[(Len(w) - i) + 1]
  <2>1. \A i \in 1..Len(w) : w[(Len(w) - i) + 1] \in Nat
    BY <1>5, <1>7
  <2> QED BY <1>5, <1>6, <2>1
<1>9. \A i \in 1..Len(e) : e[i] \in DOMAIN keys /\ MayEncrypt(keys[e[i]], t)
  BY <1>3, <1>4, <1>5, <1>7, <1>8 DEF Ascending
<1>10. ASSUME NEW n \in DOMAIN keys, MayEncrypt(keys[n], t)
       PROVE  \E i \in 1..Len(e) : e[i] = n
  <2>1. n \in S /\ n \in 1..Len(keys)
    BY <1>2, <1>3, <1>10
  <2>2. PICK j \in 1..Len(w) : w[j] = n
    BY <1>4, <1>5, <2>1 DEF Ascending
  <2> DEFINE i == (Len(w) - j) + 1
  <2>3. i \in 1..Len(w) /\ (Len(w) - i) + 1 = j
    BY <1>7
  <2> HIDE DEF i
  <2>4. e[i] = n
    BY <1>8, <2>2, <2>3
  <2> QED BY <1>8, <2>3, <2>4
<1> QED BY <1>8, <1>9, <1>10 DEF e, keys

(* The weights of the keys that may encrypt, one for each. *)
LEMMA WeightsAre ==
  ASSUME NEW t \in Nat, config.ticket_keys \in Seq(Key)
  PROVE  Weights(t) \in Seq(Nat \ {0}) /\ Len(Weights(t)) = Len(EncryptKeys(t))
<1> DEFINE e == EncryptKeys(t)
           N == Len(e)
           keys == config.ticket_keys
<1>1. /\ e \in Seq(Nat) /\ N \in Nat /\ DOMAIN e = 1..N
      /\ \A i \in 1..N : e[i] \in DOMAIN keys /\ MayEncrypt(keys[e[i]], t)
  BY EncryptKeysAre
<1>2. Weights(t) = [i \in 1..N |-> Weight(keys[e[i]], t)]
  BY <1>1 DEF Weights
<1> HIDE DEF e, N
<1>3. ASSUME NEW i \in 1..N PROVE Weight(keys[e[i]], t) \in Nat \ {0}
  <2>1. keys[e[i]] \in Key /\ MayEncrypt(keys[e[i]], t)
    BY <1>1
  <2> HIDE DEF keys
  <2>2. Weight(keys[e[i]], t) \in Nat /\ Weight(keys[e[i]], t) > 0
    BY <2>1, WeightIsPositive
  <2> QED BY <2>2
<1> HIDE DEF keys
<1>4. [i \in 1..N |-> Weight(keys[e[i]], t)] \in Seq(Nat \ {0})
  BY <1>1, <1>3
<1>5. Len([i \in 1..N |-> Weight(keys[e[i]], t)]) = N
  BY <1>1
<1> QED BY <1>2, <1>4, <1>5 DEF N, e

(* One random number, and the first sum that is above it. *)
LEMMA FirstIsPicked ==
  ASSUME NEW n \in Nat, NEW c \in [1..n -> Nat], NEW i \in 1..n, NEW random \in Nat,
         c[i] > random, \A j \in 1..(i-1) : c[j] <= random
  PROVE  Picked(c, random) = {i}
<1>1. \A j : j \in Picked(c, random) <=>
                j \in 1..n /\ c[j] > random /\ \A l \in 1..(j-1) : c[l] <= random
  BY DEF Picked
<1>2. i \in Picked(c, random)
  BY <1>1
<1>3. ASSUME NEW j \in Picked(c, random) PROVE j = i
  <2>1. j \in 1..n /\ c[j] > random /\ \A l \in 1..(j-1) : c[l] <= random
    BY <1>1
  <2>2. c[i] \in Nat /\ c[j] \in Nat
    BY <2>1
  <2>3. ~(j < i)
    <3> SUFFICES ASSUME j < i PROVE FALSE
      OBVIOUS
    <3>1. j \in 1..(i-1)
      BY <2>1
    <3> QED BY <2>1, <2>2, <3>1
  <2>4. ~(i < j)
    <3> SUFFICES ASSUME i < j PROVE FALSE
      OBVIOUS
    <3>1. i \in 1..(j-1)
      BY <2>1
    <3> QED BY <2>1, <2>2, <3>1
  <2> QED BY <2>1, <2>3, <2>4
<1> QED BY <1>2, <1>3

LEMMA LeastIsPicked ==
  ASSUME NEW n \in Nat, NEW c \in [1..n -> Nat], NEW random \in Nat, NEW m \in 1..n, c[m] > random
  PROVE  \E i \in 1..n : Picked(c, random) = {i}
<1> DEFINE A == {i \in 1..n : c[i] > random}
<1>1. A \subseteq Nat /\ A # {}
  OBVIOUS
<1>2. PICK i \in A : \A j \in A : i <= j
  BY <1>1, LeastNatural
<1>3. i \in 1..n /\ c[i] > random
  OBVIOUS
<1>4. ASSUME NEW j \in 1..(i-1) PROVE c[j] <= random
  <2>1. j \in 1..n /\ ~(i <= j)
    BY <1>3
  <2>2. c[j] \in Nat /\ j \notin A
    BY <1>2, <2>1
  <2> QED BY <2>1, <2>2
<1> HIDE DEF A
<1>5. Picked(c, random) = {i}
  BY <1>3, <1>4, FirstIsPicked
<1> QED BY <1>3, <1>5

(* SelectionCovers for any weights. *)
UpTo(f, n, T) == \A m \in 0..n : f[m] <= T
HasShare(w, n, T, i) == Precision * w[i] > n * Slack * T

LEMMA SomeKeyIsPicked ==
  ASSUME NEW w, NEW n, Positive(w, n), n >= 2, NEW c, Ascends(c, n), NEW T \in Nat, T > 0,
         Rounded(c, w, n, T), NEW f, Climbs(f, w, n), T = f[n],
         NEW random \in 0..(Precision - n * Slack - 1)
  PROVE  \E i \in 1..n : Picked(c, random) = {i}
<1> DEFINE E == Slack * T
           P == Precision
<1>0. P \in Int /\ Slack \in Int /\ n \in Nat /\ n \in 1..n /\ E \in Int /\ n * Slack \in Int /\ T \in Int
  BY DoubleAssumption, Product DEF Positive
<1>1. \A i \in 1..n : c[i] \in Nat
  BY DEF Ascends
<1>2. c[n] * T >= P * T - n * E
  <2>1. Near(c, f, n, T)
    BY <1>0, SumsAreNear
  <2> QED BY <2>1 DEF Near
<1>3. (n * Slack) * T = n * E
  <2> HIDE DEF P
  <2> QED BY <1>0
<1> HIDE DEF E, P
<1>4. (P - n * Slack) * T = P * T - (n * Slack) * T
  BY <1>0, Minus
<1>5. c[n] * T >= (P - n * Slack) * T
  BY <1>2, <1>3, <1>4
<1>6. P - n * Slack \in Int /\ c[n] \in Int
  BY <1>0, <1>1
<1>7. c[n] >= P - n * Slack
  BY <1>0, <1>5, <1>6, Cancel
<1>8. random \in Nat /\ random < P - n * Slack
  BY <1>0 DEF P
<1>9. c[n] > random
  BY <1>6, <1>7, <1>8
<1>10. c \in [1..n -> Nat]
  BY DEF Ascends
<1> QED BY <1>0, <1>8, <1>9, <1>10, LeastIsPicked

LEMMA SharedKeyIsPicked ==
  ASSUME NEW w, NEW n, Positive(w, n), n >= 2, NEW c, Ascends(c, n), NEW T \in Nat, T > 0,
         Rounded(c, w, n, T), NEW f, Climbs(f, w, n), UpTo(f, n, T),
         NEW i \in 1..n, HasShare(w, n, T, i)
  PROVE  \E random \in Random : Picked(c, random) = {i}
<1> DEFINE E == Slack * T
           P == Precision
           b == Before(c, i)
<1>0. P \in Nat /\ Slack \in Nat /\ n \in Nat /\ E \in Nat /\ T \in Int /\ n * Slack \in Int
  BY DoubleAssumption, Product DEF Positive
<1>1. b \in Nat /\ b <= c[i] /\ c[i] \in Nat
  BY DEF Ascends
<1>2. w[i] \in Nat
  BY DEF Positive
<1>3. (n * Slack) * T = n * E
  <2> HIDE DEF P, b
  <2> QED BY <1>0
<1> HIDE DEF E, P, b
<1>4. P * w[i] > n * E /\ P * w[i] \in Int /\ n * E \in Int /\ E <= n * E
  <2>1. P * w[i] \in Int /\ n * E \in Int
    BY <1>0, <1>2, Product
  <2>2. 1 * E <= n * E /\ 1 * E = E
    BY <1>0, Grows
  <2>3. P * w[i] > n * E
    BY <1>3 DEF P, HasShare
  <2> QED BY <2>1, <2>2, <2>3
<1>5. (c[i] - b) * T >= P * w[i] - E
  BY DEF Rounded, P, E, b
<1>6. c[i] > b
  <2>1. (c[i] - b) * T \in Int /\ c[i] - b \in Int /\ 0 * T = 0 /\ c[i] - b >= 0
    BY <1>0, <1>1, Product
  <2>2. (c[i] - b) * T > 0
    BY <1>0, <1>4, <1>5, <2>1
  <2>3. c[i] - b # 0
    BY <2>1, <2>2
  <2> QED BY <1>1, <2>1, <2>3
<1>7. b < P
  <2>1. CASE i = 1
    <3>1. b = 0
      BY <2>1 DEF b, Before
    <3>2. P # 0
      <4> SUFFICES ASSUME P = 0 PROVE FALSE
        OBVIOUS
      <4>1. P * w[i] = 0
        BY <1>2
      <4> QED BY <1>0, <1>4, <4>1
    <3> QED BY <1>0, <3>1, <3>2
  <2>2. CASE i # 1
    <3> DEFINE h == i - 1
    <3>1. h \in 1..n /\ h \in 0..n /\ i \in 0..n /\ h <= n /\ h \in Int
      BY <1>0, <2>2
    <3>2. b = c[h] /\ c[h] \in Int
      BY <1>1, <2>2 DEF b, Before
    <3>3. f[i] <= T /\ f[i] \in Int /\ f[h] \in Int
      BY <3>1 DEF Climbs, UpTo
    <3>4. c[h] * T <= P * f[h] + h * E
      <4>1. Near(c, f, h, T)
        BY <3>1, SumsAreNear
      <4> QED BY <4>1 DEF Near, P, E
    <3>5. P * f[i] = P * f[h] + P * w[i]
      BY <3>1, SumsMove DEF P
    <3> HIDE DEF h
    <3>6. h * E <= n * E /\ h * E \in Int
      BY <1>0, <3>1, Grows, Product
    <3>7. P * f[i] <= P * T
      BY <1>0, <3>3, Grows
    <3>8. c[h] * T \in Int /\ P * f[h] \in Int /\ P * f[i] \in Int /\ P * T \in Int
      BY <1>0, <3>2, <3>3, Product
    <3>9. c[h] * T < P * T
      BY <1>4, <3>4, <3>5, <3>6, <3>7, <3>8
    <3>10. P \in Int
      BY <1>0
    <3>11. c[h] < P
      BY <1>0, <3>2, <3>9, <3>10, Cancel
    <3> QED BY <3>2, <3>11
  <2> QED BY <2>1, <2>2
<1>8. ASSUME NEW j \in 1..(i-1) PROVE c[j] <= b
  <2>1. i # 1 /\ i - 1 \in 1..n /\ j \in 1..n /\ j <= i - 1
    BY <1>0
  <2>2. b = c[i-1]
    BY <2>1 DEF b, Before
  <2> QED BY <1>0, <2>1, <2>2, AscendsAll
<1>9. Picked(c, b) = {i}
  <2>1. c \in [1..n -> Nat]
    BY DEF Ascends
  <2> QED BY <1>0, <1>1, <1>6, <1>8, <2>1, FirstIsPicked
<1>10. b \in Random
  BY <1>0, <1>1, <1>7 DEF Random, P
<1> QED BY <1>9, <1>10

LEMMA EveryKeyCovered ==
  ASSUME NEW w, NEW n, Positive(w, n), n >= 2, NEW c \in Sums(w)
  PROVE  /\ \A random \in 0..(Precision - n * Slack - 1) : \E i \in 1..n : Picked(c, random) = {i}
         /\ \A i \in 1..n : Precision * w[i] > n * Slack * Total(w)
                                => \E random \in Random : Picked(c, random) = {i}
<1> DEFINE T == Total(w)
<1>1. PICK f : Climbs(f, w, n) /\ T = f[n] /\ UpTo(f, n, T)
  BY TotalIs DEF Positive, Climbs, UpTo
<1>2. T \in Nat /\ T > 0
  <2>1. n \in Nat /\ 1 \in 1..n /\ 1 \in 0..n /\ n \in 0..n /\ 1 - 1 = 0
    BY DEF Positive
  <2>2. w[1] \in Nat /\ w[1] > 0
    BY <2>1 DEF Positive
  <2>3. f[1] = f[0] + w[1] /\ f[0] = 0 /\ f[1] <= T
    BY <1>1, <2>1 DEF Climbs, UpTo
  <2>4. f[1] \in Nat /\ f[n] \in Nat
    BY <1>1, <2>1 DEF Climbs
  <2> HIDE DEF T
  <2> QED BY <1>1, <2>2, <2>3, <2>4
<1>3. Ascends(c, n) /\ Rounded(c, w, n, T)
  BY SumsClimb
<1> HIDE DEF T
<1>4. \A random \in 0..(Precision - n * Slack - 1) : \E i \in 1..n : Picked(c, random) = {i}
  BY <1>1, <1>2, <1>3, SomeKeyIsPicked
<1>5. ASSUME NEW i \in 1..n, HasShare(w, n, T, i)
      PROVE  \E random \in Random : Picked(c, random) = {i}
  BY <1>1, <1>2, <1>3, <1>5, SharedKeyIsPicked
<1> QED BY <1>4, <1>5 DEF T, HasShare

(* What is returned may encrypt. *)
LEMMA ReturnedMayEncrypt ==
  ASSUME NEW t \in Nat, config.ticket_keys \in Seq(Key),
         NEW k \in s2n_get_ticket_encrypt_decrypt_key(t), k # NoKey
  PROVE  \E n \in DOMAIN config.ticket_keys : k = config.ticket_keys[n] /\ MayEncrypt(k, t)
<1> DEFINE e == EncryptKeys(t)
           N == Len(e)
           keys == config.ticket_keys
<1>1. /\ N \in Nat
      /\ \A i \in 1..N : e[i] \in DOMAIN keys /\ MayEncrypt(keys[e[i]], t)
  BY EncryptKeysAre
<1> SUFFICES \E i \in 1..N : k = keys[e[i]]
  BY <1>1
<1>2. CASE N = 0
  BY <1>2 DEF s2n_get_ticket_encrypt_decrypt_key
<1>3. CASE N = 1
  <2>1. k = keys[e[1]]
    BY <1>3 DEF s2n_get_ticket_encrypt_decrypt_key
  <2> QED BY <1>3, <2>1
<1>4. CASE N # 0 /\ N # 1
  <2>1. k \in s2n_compute_weight_of_encrypt_decrypt_keys(t)
    BY <1>4 DEF s2n_get_ticket_encrypt_decrypt_key
  <2>2. PICK c \in Sums(Weights(t)), random \in Random :
            k \in IF Picked(c, random) = {} THEN {NoKey}
                  ELSE {config.ticket_keys[EncryptKeys(t)[i]] : i \in Picked(c, random)}
    BY <2>1 DEF s2n_compute_weight_of_encrypt_decrypt_keys
  <2>3. PICK i \in Picked(c, random) : k = keys[e[i]]
    BY <2>2
  <2>4. i \in DOMAIN c
    BY DEF Picked
  <2>5. DOMAIN c = 1..Len(Weights(t))
    BY DEF Sums
  <2>6. Len(Weights(t)) = N
    BY WeightsAre
  <2> QED BY <2>3, <2>4, <2>5, <2>6
<1> QED BY <1>2, <1>3, <1>4

-----------------------------------------------------------------------------
(* What every change of the store preserves.                               *)

Distinct(keys) ==
    \A i, j \in DOMAIN keys :
        i # j => keys[i].name # keys[j].name /\ keys[i].material # keys[j].material
Hashed(keys, hashes) == \A i \in DOMAIN keys : keys[i].material \in hashes

(* The key of a TLS 1.3 ticket stays as long as it may be needed. *)
Holds(keys, t) ==
    \E i \in DOMAIN keys : /\ keys[i].name = t.name /\ keys[i].material = t.material
                           /\ t.chosen < keys[i].intro + EncryptDecryptLifetime
Kept(t, keys, at) ==
    (t.version = 13 /\ t.live /\ at < t.chosen + DecryptLifetime) => Holds(keys, t)

(* s is keys without some that have expired. *)
Wiped(s, keys, at) ==
    \E S : Thinned(s, keys, S) /\ \A n \in DOMAIN keys : n \in S => Expired(keys[n], at)

LEMMA NoKeyIsNoKey == NoKey \notin Key
<1> SUFFICES ASSUME NoKey \in Key PROVE FALSE
  OBVIOUS
<1>1. DOMAIN NoKey = {"name", "material", "intro"}
  BY DEF Key
<1>2. DOMAIN NoKey = {"none"}
  BY DEF NoKey
<1> QED BY <1>1, <1>2

LEMMA WipedItself ==
  ASSUME NEW keys \in Seq(Key), NEW at
  PROVE  Wiped(keys, keys, at)
<1>1. Len(keys) \in Nat /\ DOMAIN keys = 1..Len(keys)
  OBVIOUS
<1>2. Thinned(keys, keys, {})
  BY <1>1 DEF Thinned
<1> QED BY <1>2 DEF Wiped

(* A search leaves the store as it was, or wipes an expired key. *)
LEMMA FindWipes ==
  ASSUME NEW keys \in Seq(Key), NEW name, NEW at
  PROVE  Wiped(s2n_find_ticket_key(keys, name, at).left, keys, at)
<1> DEFINE r == s2n_find_ticket_key(keys, name, at)
<1>1. Finds(r, keys, name, at)
  BY FindIs
<1> HIDE DEF r
<1> DEFINE s == r.left
<1>2. s = keys \/ \E i \in DOMAIN keys : Expired(keys[i], at) /\ Thinned(s, keys, {i})
  BY <1>1 DEF Finds
<1> HIDE DEF s
<1> SUFFICES Wiped(s, keys, at)
  BY DEF r, s
<1>3. CASE s = keys
  BY <1>3, WipedItself
<1>4. CASE \E i \in DOMAIN keys : Expired(keys[i], at) /\ Thinned(s, keys, {i})
  <2>1. PICK i \in DOMAIN keys : Expired(keys[i], at) /\ Thinned(s, keys, {i})
    BY <1>4
  <2>2. \A n \in DOMAIN keys : n \in {i} => Expired(keys[n], at)
    BY <2>1
  <2> QED BY <2>1, <2>2, Zenon DEF Wiped
<1> QED BY <1>2, <1>3, <1>4

LEMMA WipedKeeps ==
  ASSUME NEW keys \in Seq(Key), NEW s, NEW at \in Nat, Wiped(s, keys, at)
  PROVE  /\ s \in Seq(Key)
         /\ Distinct(keys) => Distinct(s)
         /\ \A h : Hashed(keys, h) => Hashed(s, h)
         /\ \A t \in Ticket, x, y \in Nat : at <= y /\ x <= y /\ Kept(t, keys, x) => Kept(t, s, y)
<1>1. PICK S : Thinned(s, keys, S) /\ \A n \in DOMAIN keys : n \in S => Expired(keys[n], at)
  BY DEF Wiped
<1>2. s \in Seq(Key) /\ DOMAIN s = 1..Len(s) /\ Len(s) \in Nat /\ DOMAIN keys = 1..Len(keys) /\ Len(keys) \in Nat
  BY <1>1 DEF Thinned
<1>3. ASSUME Distinct(keys) PROVE Distinct(s)
  <2> SUFFICES ASSUME NEW p \in DOMAIN s, NEW q \in DOMAIN s, p # q
               PROVE  s[p].name # s[q].name /\ s[p].material # s[q].material
    BY DEF Distinct
  <2>1. p < q \/ q < p
    BY <1>2
  <2>2. CASE p < q
    <3>1. PICK m, n \in DOMAIN keys : m < n /\ s[p] = keys[m] /\ s[q] = keys[n]
      BY <1>1, <2>2 DEF Thinned
    <3>2. m # n
      BY <1>2, <3>1
    <3> QED BY <1>3, <3>1, <3>2 DEF Distinct
  <2>3. CASE q < p
    <3>1. PICK m, n \in DOMAIN keys : m < n /\ s[q] = keys[m] /\ s[p] = keys[n]
      BY <1>1, <2>3 DEF Thinned
    <3>2. m # n
      BY <1>2, <3>1
    <3> QED BY <1>3, <3>1, <3>2 DEF Distinct
  <2> QED BY <2>1, <2>2, <2>3
<1>4. ASSUME NEW h, Hashed(keys, h) PROVE Hashed(s, h)
  BY <1>1, <1>4 DEF Thinned, Hashed
<1>5. ASSUME NEW t \in Ticket, NEW x \in Nat, NEW y \in Nat, at <= y, x <= y, Kept(t, keys, x)
      PROVE  Kept(t, s, y)
  <2> SUFFICES ASSUME t.version = 13, t.live, y < t.chosen + DecryptLifetime PROVE Holds(s, t)
    BY DEF Kept
  <2>1. t.chosen \in Nat /\ DecryptLifetime \in Nat /\ EncryptDecryptLifetime \in Nat /\ MaxTime \in Nat
    BY LifetimeAssumption DEF Ticket, Time
  <2>2. x < t.chosen + DecryptLifetime
    BY <1>5, <2>1
  <2>3. PICK i \in DOMAIN keys : /\ keys[i].name = t.name /\ keys[i].material = t.material
                                 /\ t.chosen < keys[i].intro + EncryptDecryptLifetime
    BY <1>5, <2>2 DEF Kept, Holds
  <2>4. keys[i].intro \in Nat
    <3>1. keys[i] \in Key
      BY <1>2
    <3> QED BY <2>1, <3>1 DEF Key
  <2>5. ~Expired(keys[i], at)
    BY <1>5, <2>1, <2>3, <2>4 DEF Expired
  <2>6. PICK p \in DOMAIN s : s[p] = keys[i]
    BY <1>1, <2>5 DEF Thinned
  <2> QED BY <2>3, <2>6 DEF Holds
<1> QED BY <1>2, <1>3, <1>4, <1>5

LEMMA InsertedKeeps ==
  ASSUME NEW keys \in Seq(Key), NEW k \in Key, NEW s, Inserted(s, keys, k), NEW h,
         Distinct(keys), Hashed(keys, h), k.material \notin h,
         \A i \in DOMAIN keys : keys[i].name # k.name
  PROVE  /\ s \in Seq(Key) /\ Distinct(s) /\ Hashed(s, h \cup {k.material})
         /\ \A t : Holds(keys, t) => Holds(s, t)
<1> DEFINE L == Len(keys)
<1>1. L \in Nat /\ DOMAIN keys = 1..L
  OBVIOUS
<1>2. PICK i \in 1..(L+1) :
          s = [p \in 1..(L+1) |-> IF p < i THEN keys[p] ELSE IF p = i THEN k ELSE keys[p-1]]
  BY DEF Inserted
<1>3. s \in Seq(Key) /\ DOMAIN s = 1..(L+1)
  BY <1>2 DEF Inserted
<1> HIDE DEF L
<1>4. \A p \in 1..(L+1) : s[p] = IF p < i THEN keys[p] ELSE IF p = i THEN k ELSE keys[p-1]
  BY <1>2
<1> DEFINE From(p) == IF p < i THEN p ELSE p - 1
<1>5. \A p \in 1..(L+1) : p # i => From(p) \in 1..L /\ s[p] = keys[From(p)]
  BY <1>1, <1>4
<1>6. \A p, q \in 1..(L+1) : p # i /\ q # i /\ p # q => From(p) # From(q)
  BY <1>1
<1>7. s[i] = k
  BY <1>1, <1>4
<1>8. \A n \in 1..L : \E p \in 1..(L+1) : s[p] = keys[n]
  <2> SUFFICES ASSUME NEW n \in 1..L PROVE \E p \in 1..(L+1) : s[p] = keys[n]
    OBVIOUS
  <2>1. CASE n < i
    <3>1. n \in 1..(L+1)
      BY <1>1
    <3> QED BY <1>4, <2>1, <3>1
  <2>2. CASE ~(n < i)
    <3>1. n + 1 \in 1..(L+1) /\ ~(n + 1 < i) /\ n + 1 # i /\ (n + 1) - 1 = n
      BY <1>1, <2>2
    <3>2. s[n+1] = keys[n]
      BY <1>4, <3>1
    <3> QED BY <3>1, <3>2
  <2> QED BY <2>1, <2>2
<1> HIDE DEF From
<1>9. Distinct(s)
  <2> SUFFICES ASSUME NEW p \in 1..(L+1), NEW q \in 1..(L+1), p # q
               PROVE  s[p].name # s[q].name /\ s[p].material # s[q].material
    BY <1>3 DEF Distinct
  <2>1. CASE p # i /\ q # i
    BY <1>1, <1>5, <1>6, <2>1 DEF Distinct
  <2>2. CASE p = i
    BY <1>1, <1>5, <1>7, <2>2 DEF Hashed
  <2>3. CASE q = i
    BY <1>1, <1>5, <1>7, <2>3 DEF Hashed
  <2> QED BY <2>1, <2>2, <2>3
<1>10. Hashed(s, h \cup {k.material})
  <2> SUFFICES ASSUME NEW p \in 1..(L+1) PROVE s[p].material \in h \cup {k.material}
    BY <1>3 DEF Hashed
  <2> QED BY <1>1, <1>5, <1>7 DEF Hashed
<1>11. ASSUME NEW t, Holds(keys, t) PROVE Holds(s, t)
  BY <1>1, <1>3, <1>8, <1>11 DEF Holds
<1> QED BY <1>3, <1>9, <1>10, <1>11

StoreInv(cfg) == Distinct(cfg.ticket_keys) /\ Hashed(cfg.ticket_keys, cfg.ticket_key_hashes)

(* No step that leaves the store in place takes a key that a ticket needs. *)
Carries(old, new, at, later) ==
    /\ new \in Config /\ StoreInv(new)
    /\ \A t \in Ticket : Kept(t, old.ticket_keys, at) => Kept(t, new.ticket_keys, later)

LEMMA ConfigIs ==
  ASSUME NEW cfg \in Config
  PROVE  cfg.ticket_keys \in Seq(Key) /\ cfg.ticket_key_hashes \subseteq Materials
BY DEF Config

LEMMA WipedCarries ==
  ASSUME NEW old \in Config, StoreInv(old), NEW s, NEW at \in Nat, NEW later \in Nat, at <= later,
         Wiped(s, old.ticket_keys, at)
  PROVE  Carries(old, [old EXCEPT !.ticket_keys = s], at, later)
<1> DEFINE new == [old EXCEPT !.ticket_keys = s]
<1>1. old.ticket_keys \in Seq(Key)
  BY ConfigIs
<1>2. /\ s \in Seq(Key) /\ Distinct(s) /\ Hashed(s, old.ticket_key_hashes)
      /\ \A t \in Ticket : Kept(t, old.ticket_keys, at) => Kept(t, s, later)
  BY <1>1, WipedKeeps DEF StoreInv
<1>3. new \in Config /\ new.ticket_keys = s /\ new.ticket_key_hashes = old.ticket_key_hashes
  BY <1>2 DEF Config
<1> HIDE DEF new
<1>4. Carries(old, new, at, later)
  BY <1>2, <1>3 DEF Carries, StoreInv
<1> QED BY <1>4 DEF new

LEMMA AddCarries ==
  ASSUME config \in Config, StoreInv(config), now \in 1..MaxTime,
         NEW name \in Names, NEW material \in Materials, NEW intro \in IntroTimes,
         s2n_config_add_ticket_crypto_key(name, material, intro)
  PROVE  Carries(config, config', now, now)
<1> DEFINE keys == s2n_config_wipe_expired_ticket_crypto_keys(config.ticket_keys, now)
           k == [name |-> name, material |-> material, intro |-> IntroTimestamp(intro)]
           S == {i \in DOMAIN config.ticket_keys : Expired(config.ticket_keys[i], now)}
<1>0. now \in Nat /\ MaxTime \in Nat
  BY LifetimeAssumption
<1>1. config.ticket_keys \in Seq(Key) /\ config.ticket_key_hashes \subseteq Materials
  BY ConfigIs
<1>2. Thinned(keys, config.ticket_keys, S)
  BY <1>1, WipeIs
<1>3. \A i \in DOMAIN config.ticket_keys : i \in S <=> Expired(config.ticket_keys[i], now)
  OBVIOUS
<1>4. config' = IF Refused(keys, name, material)
                THEN [config EXCEPT !.ticket_keys = keys]
                ELSE [config EXCEPT !.ticket_keys = s2n_config_store_ticket_key(keys, k),
                                    !.ticket_key_hashes = HashesBefore(keys) \cup {material}]
  BY DEF s2n_config_add_ticket_crypto_key
<1>5. k \in Key /\ k.name = name /\ k.material = material
  <2>1. IntroTimestamp(intro) \in 1..MaxTime
    BY TimeAssumption DEF IntroTimestamp
  <2> QED BY <2>1 DEF Key
<1> HIDE DEF keys, k, S
<1>6. Wiped(keys, config.ticket_keys, now)
  BY <1>2, <1>3 DEF Wiped
<1>7. /\ keys \in Seq(Key) /\ Distinct(keys) /\ Hashed(keys, config.ticket_key_hashes)
      /\ \A t \in Ticket : Kept(t, config.ticket_keys, now) => Kept(t, keys, now)
  BY <1>0, <1>1, <1>6, WipedKeeps DEF StoreInv
<1>8. CASE Refused(keys, name, material)
  <2>1. config' = [config EXCEPT !.ticket_keys = keys]
    BY <1>4, <1>8
  <2> QED BY <1>0, <1>6, <2>1, WipedCarries
<1>9. CASE ~Refused(keys, name, material)
  <2> DEFINE s == s2n_config_store_ticket_key(keys, k)
  <2>1. Inserted(s, keys, k)
    BY <1>5, <1>7, StoreIs
  <2>2. HashesBefore(keys) = config.ticket_key_hashes /\ material \notin config.ticket_key_hashes
    <3>1. Len(keys) \in Nat /\ ~(Len(keys) >= MaxTicketKeys) /\ material \notin HashesBefore(keys)
      BY <1>7, <1>9 DEF Refused
    <3>2. ~(Len(keys) >= MaxTicketKeyHashes)
      BY <3>1, LimitAssumption
    <3> QED BY <3>1, <3>2 DEF HashesBefore
  <2>3. \A i \in DOMAIN keys : keys[i].name # name
    <3> DEFINE r == s2n_find_ticket_key(keys, name, now)
    <3>1. r.key = NoKey
      BY <1>9 DEF Refused
    <3>2. Finds(r, keys, name, now)
      BY <1>7, FindIs
    <3> HIDE DEF r
    <3>3. \A i \in DOMAIN keys : keys[i] \in Key /\ ~Expired(keys[i], now)
      <4> SUFFICES ASSUME NEW i \in DOMAIN keys PROVE keys[i] \in Key /\ ~Expired(keys[i], now)
        OBVIOUS
      <4>1. PICK n \in DOMAIN config.ticket_keys : n \notin S /\ keys[i] = config.ticket_keys[n]
        BY <1>2 DEF Thinned
      <4> QED BY <1>3, <1>7, <4>1
    <3> QED BY <3>1, <3>2, <3>3, NoKeyIsNoKey DEF Finds
  <2> HIDE DEF s
  <2>4. /\ s \in Seq(Key) /\ Distinct(s) /\ Hashed(s, config.ticket_key_hashes \cup {material})
        /\ \A t : Holds(keys, t) => Holds(s, t)
    BY <1>5, <1>7, <2>1, <2>2, <2>3, InsertedKeeps
  <2>5. config' = [config EXCEPT !.ticket_keys = s,
                                 !.ticket_key_hashes = config.ticket_key_hashes \cup {material}]
    BY <1>4, <1>9, <2>2 DEF s
  <2>6. config' \in Config /\ config'.ticket_keys = s
        /\ config'.ticket_key_hashes = config.ticket_key_hashes \cup {material}
    BY <1>1, <2>4, <2>5 DEF Config
  <2>7. \A t \in Ticket : Kept(t, keys, now) => Kept(t, s, now)
    BY <2>4 DEF Kept
  <2> QED BY <1>7, <2>4, <2>6, <2>7 DEF Carries, StoreInv
<1> QED BY <1>8, <1>9

LEMMA KeyStepCarries ==
  ASSUME config \in Config, StoreInv(config), now \in 1..MaxTime, KeyNext
  PROVE  /\ now' \in 1..MaxTime /\ now <= now' /\ config' \in Config /\ StoreInv(config')
         /\ (config'.use_tickets \/ config'.use_session_cache) => Carries(config, config', now, now')
<1>0. now \in Nat /\ MaxTime \in Nat /\ now <= now
  BY LifetimeAssumption
<1>1. config.ticket_keys \in Seq(Key) /\ Wiped(config.ticket_keys, config.ticket_keys, now)
  BY ConfigIs, WipedItself
<1>2. \A later \in Nat : now <= later => Carries(config, config, now, later)
  <2> SUFFICES ASSUME NEW later \in Nat, now <= later PROVE Carries(config, config, now, later)
    OBVIOUS
  <2>1. Carries(config, [config EXCEPT !.ticket_keys = config.ticket_keys], now, later)
    BY <1>0, <1>1, WipedCarries
  <2>2. [config EXCEPT !.ticket_keys = config.ticket_keys] = config
    BY DEF Config
  <2> QED BY <2>1, <2>2
<1>3. CASE Tick
  <2>1. now' \in 1..MaxTime /\ now <= now' /\ now' \in Nat /\ config' = config
    BY <1>0, <1>3 DEF Tick
  <2>2. Carries(config, config', now, now')
    BY <1>2, <2>1
  <2> QED BY <2>1, <2>2 DEF Carries
<1>4. ASSUME NEW n \in Names, NEW m \in Materials, NEW i \in IntroTimes,
             s2n_config_add_ticket_crypto_key(n, m, i)
      PROVE  now' = now /\ Carries(config, config', now, now)
  <2>1. now' = now
    BY <1>4 DEF s2n_config_add_ticket_crypto_key
  <2> QED BY <1>4, <2>1, AddCarries
<1>5. ASSUME NEW n \in Names, FindKey(n)
      PROVE  now' = now /\ Carries(config, config', now, now)
  <2> DEFINE s == s2n_find_ticket_key(config.ticket_keys, n, now).left
  <2>1. now' = now /\ config' = [config EXCEPT !.ticket_keys = s]
    BY <1>5 DEF FindKey
  <2>2. Wiped(s, config.ticket_keys, now)
    BY <1>1, FindWipes
  <2> HIDE DEF s
  <2> QED BY <1>0, <2>1, <2>2, WipedCarries
<1> DEFINE On(cfg) == cfg.use_tickets \/ cfg.use_session_cache
<1>6. ASSUME NEW b \in BOOLEAN,
             s2n_config_set_session_tickets_onoff(b) \/ s2n_config_set_session_cache_onoff(b)
      PROVE  now' = now /\ config' \in Config /\ StoreInv(config')
             /\ (On(config') => Carries(config, config', now, now))
  <2>1. now' = now
    BY <1>6 DEF s2n_config_set_session_tickets_onoff, s2n_config_set_session_cache_onoff
  <2>2. \/ /\ config' \in Config /\ config'.ticket_keys = config.ticket_keys
           /\ config'.ticket_key_hashes = config.ticket_key_hashes
        \/ /\ config' \in Config /\ config'.ticket_keys = <<>> /\ config'.ticket_key_hashes = {}
           /\ ~On(config')
    <3>1. Freed \in Config /\ Freed.ticket_keys = <<>> /\ Freed.ticket_key_hashes = {}
          /\ Freed.use_tickets = config.use_tickets /\ Freed.use_session_cache = config.use_session_cache
      <4>1. <<>> \in Seq(Key) /\ {} \in SUBSET Materials
        OBVIOUS
      <4> DEFINE g == [config EXCEPT !.ticket_keys = <<>>]
      <4>2. g \in Config /\ g.ticket_keys = <<>> /\ g.use_tickets = config.use_tickets
            /\ g.use_session_cache = config.use_session_cache
        BY <4>1 DEF Config
      <4>3. Freed = [g EXCEPT !.ticket_key_hashes = {}]
        BY DEF Freed
      <4> HIDE DEF g
      <4> QED BY <4>1, <4>2, <4>3 DEF Config
    <3>2. CASE s2n_config_set_session_tickets_onoff(b)
      <4>1. CASE b \/ config.use_session_cache
        <5>1. config' = [config EXCEPT !.use_tickets = b]
          BY <3>2, <4>1 DEF s2n_config_set_session_tickets_onoff
        <5> QED BY <5>1 DEF Config
      <4>2. CASE ~(b \/ config.use_session_cache)
        <5>1. config' = [Freed EXCEPT !.use_tickets = b]
          BY <3>2, <4>2 DEF s2n_config_set_session_tickets_onoff
        <5> QED BY <3>1, <4>2, <5>1 DEF Config
      <4> QED BY <4>1, <4>2
    <3>3. CASE s2n_config_set_session_cache_onoff(b)
      <4>1. CASE b \/ config.use_tickets
        <5>1. config' = [config EXCEPT !.use_session_cache = b]
          BY <3>3, <4>1 DEF s2n_config_set_session_cache_onoff
        <5> QED BY <5>1 DEF Config
      <4>2. CASE ~(b \/ config.use_tickets)
        <5>1. config' = [Freed EXCEPT !.use_session_cache = b]
          BY <3>3, <4>2 DEF s2n_config_set_session_cache_onoff
        <5> QED BY <3>1, <4>2, <5>1 DEF Config
      <4> QED BY <4>1, <4>2
    <3> QED BY <1>6, <3>2, <3>3
  <2>3. StoreInv(config')
    BY <2>2 DEF StoreInv, Distinct, Hashed
  <2>4. On(config') => Carries(config, config', now, now)
    BY <2>2, <2>3 DEF Carries
  <2> QED BY <2>1, <2>2, <2>3, <2>4
<1> HIDE DEF On
<1>7. \/ Tick
      \/ \E n \in Names, m \in Materials, i \in IntroTimes : s2n_config_add_ticket_crypto_key(n, m, i)
      \/ \E b \in BOOLEAN : s2n_config_set_session_tickets_onoff(b) \/ s2n_config_set_session_cache_onoff(b)
      \/ \E n \in Names : FindKey(n)
  BY DEF KeyNext
<1>8. CASE \E n \in Names, m \in Materials, i \in IntroTimes : s2n_config_add_ticket_crypto_key(n, m, i)
  BY <1>0, <1>4, <1>8 DEF Carries
<1>9. CASE \E b \in BOOLEAN : s2n_config_set_session_tickets_onoff(b) \/ s2n_config_set_session_cache_onoff(b)
  BY <1>0, <1>6, <1>9 DEF On
<1>10. CASE \E n \in Names : FindKey(n)
  BY <1>0, <1>5, <1>10 DEF Carries
<1> QED BY <1>3, <1>7, <1>8, <1>9, <1>10

-----------------------------------------------------------------------------
(* The invariant.                                                          *)

MaybeTicket == Ticket \cup {NoTicket}
Stamped(t, at) == t.version = 13 => t.chosen <= t.issued /\ t.issued <= at /\ t.expires <= t.bound
(* A connection resumes from a ticket that has not expired. *)
PskOk(r) ==
    r.chosen_psk # NoTicket =>
        r.chosen_psk.expires <= r.chosen_psk.bound /\ r.established < r.chosen_psk.expires
CacheOk(e) == e # NoTicket => e.version = 12

Inv ==
    /\ TypeOK
    /\ StoreInv(config)
    /\ \A t \in tickets : Stamped(t, now) /\ Kept(t, config.ticket_keys, now)
    /\ \A c \in Connections : PskOk(conn[c]) /\ CacheOk(cache[c])

(* A step of connection c. *)
Fresh(t, cfg, at) == t \in Ticket /\ Holds(cfg.ticket_keys, t) /\ Stamped(t, at)
Shape(c) ==
    /\ now' \in 1..MaxTime /\ now <= now'
    /\ Carries(config, config', now, now')
    /\ tickets' = tickets \/ \E t : tickets' = tickets \cup {t} /\ Fresh(t, config', now')
    /\ conn' = conn \/ \E r \in Conn : conn' = [conn EXCEPT ![c] = r] /\ PskOk(r)
    /\ cache' = cache \/ \E d \in Connections, e \in MaybeTicket :
                             cache' = [cache EXCEPT ![d] = e] /\ CacheOk(e)

LEMMA ShapeKeeps ==
  ASSUME Inv, NEW c \in Connections, Shape(c)
  PROVE  Inv'
<1>1. /\ now \in 1..MaxTime /\ config \in Config /\ conn \in [Connections -> Conn]
      /\ tickets \subseteq Ticket /\ cache \in [Connections -> MaybeTicket]
  BY DEF Inv, TypeOK, KeysTypeOK, MaybeTicket
<1>2. /\ now' \in 1..MaxTime /\ now <= now' /\ config' \in Config /\ StoreInv(config')
      /\ \A t \in Ticket : Kept(t, config.ticket_keys, now) => Kept(t, config'.ticket_keys, now')
  BY DEF Shape, Carries
<1>3. now \in Nat /\ now' \in Nat
  BY <1>1, <1>2, LifetimeAssumption
<1>4. ASSUME NEW t \in tickets
      PROVE  Stamped(t, now') /\ Kept(t, config'.ticket_keys, now')
  <2>1. t \in Ticket /\ Stamped(t, now) /\ Kept(t, config.ticket_keys, now)
    BY <1>1 DEF Inv
  <2>2. t.issued \in Nat
    BY <2>1 DEF Ticket, Time
  <2>3. Stamped(t, now')
    BY <1>2, <1>3, <2>1, <2>2 DEF Stamped
  <2> QED BY <1>2, <2>1, <2>3
<1>5. /\ tickets' \subseteq Ticket
      /\ \A t \in tickets' : Stamped(t, now') /\ Kept(t, config'.ticket_keys, now')
  <2>1. CASE tickets' = tickets
    BY <1>1, <1>4, <2>1
  <2>2. CASE tickets' # tickets
    <3>1. PICK t : tickets' = tickets \cup {t} /\ Fresh(t, config', now')
      BY <2>2 DEF Shape
    <3>2. t \in Ticket /\ Stamped(t, now') /\ Kept(t, config'.ticket_keys, now')
      BY <3>1 DEF Fresh, Kept
    <3> QED BY <1>1, <1>4, <3>1, <3>2
  <2> QED BY <2>1, <2>2
<1>6. conn' \in [Connections -> Conn] /\ \A d \in Connections : PskOk(conn'[d])
  <2>0. \A d \in Connections : PskOk(conn[d])
    BY DEF Inv
  <2>1. CASE conn' = conn
    BY <1>1, <2>0, <2>1
  <2>2. CASE conn' # conn
    <3>1. PICK r \in Conn : conn' = [conn EXCEPT ![c] = r] /\ PskOk(r)
      BY <2>2 DEF Shape
    <3>2. conn' \in [Connections -> Conn]
      BY <1>1, <3>1
    <3>3. ASSUME NEW d \in Connections PROVE PskOk(conn'[d])
      <4>1. conn'[d] = r \/ conn'[d] = conn[d]
        BY <1>1, <3>1
      <4> QED BY <2>0, <3>1, <4>1
    <3> QED BY <3>2, <3>3
  <2> QED BY <2>1, <2>2
<1>7. cache' \in [Connections -> MaybeTicket] /\ \A d \in Connections : CacheOk(cache'[d])
  <2>0. \A d \in Connections : CacheOk(cache[d])
    BY DEF Inv
  <2>1. CASE cache' = cache
    BY <1>1, <2>0, <2>1
  <2>2. CASE cache' # cache
    <3>1. PICK f \in Connections, e \in MaybeTicket :
              cache' = [cache EXCEPT ![f] = e] /\ CacheOk(e)
      BY <2>2 DEF Shape
    <3>2. cache' \in [Connections -> MaybeTicket]
      BY <1>1, <3>1
    <3>3. ASSUME NEW d \in Connections PROVE CacheOk(cache'[d])
      <4>1. cache'[d] = e \/ cache'[d] = cache[d]
        BY <1>1, <3>1
      <4> QED BY <2>0, <3>1, <4>1
    <3> QED BY <3>2, <3>3
  <2> QED BY <2>1, <2>2
<1> QED BY <1>2, <1>5, <1>6, <1>7 DEF Inv, TypeOK, KeysTypeOK, MaybeTicket

LEMMA InitInv == Init => Inv
<1> SUFFICES ASSUME Init PROVE Inv
  OBVIOUS
<1>1. /\ now = StartTime /\ tickets = {}
      /\ conn = [c \in Connections |-> NewConn(c)] /\ cache = [c \in Connections |-> NoTicket]
      /\ config = [use_tickets |-> FALSE, use_session_cache |-> FALSE,
                   ticket_keys |-> <<>>, ticket_key_hashes |-> {}]
  BY DEF Init, KeyInit
<1>2. now \in 1..MaxTime
  BY <1>1, TimeAssumption
<1>3. config \in Config /\ config.ticket_keys = <<>>
  <2>1. <<>> \in Seq(Key) /\ {} \in SUBSET Materials
    OBVIOUS
  <2> QED BY <1>1, <2>1 DEF Config
<1>4. StoreInv(config)
  BY <1>3 DEF StoreInv, Distinct, Hashed
<1>5. \A c \in Connections : NewConn(c) \in Conn /\ PskOk(NewConn(c))
  BY DEF NewConn, Conn, PskOk, Time
<1>6. conn \in [Connections -> Conn] /\ \A c \in Connections : PskOk(conn[c])
  BY <1>1, <1>5
<1>7. cache \in [Connections -> Ticket \cup {NoTicket}] /\ \A c \in Connections : CacheOk(cache[c])
  BY <1>1 DEF CacheOk
<1> QED BY <1>1, <1>2, <1>3, <1>4, <1>6, <1>7 DEF Inv, TypeOK, KeysTypeOK

LEMMA KeysChangeInv == Inv /\ KeysChange => Inv'
<1> SUFFICES ASSUME Inv, KeysChange PROVE Inv'
  OBVIOUS
<1>1. /\ now \in 1..MaxTime /\ config \in Config /\ conn \in [Connections -> Conn] /\ StoreInv(config)
      /\ tickets \subseteq Ticket /\ cache \in [Connections -> Ticket \cup {NoTicket}]
  BY DEF Inv, TypeOK, KeysTypeOK
<1>2. KeyNext /\ conn' = conn /\ cache' = cache
  BY DEF KeysChange
<1>3. /\ now' \in 1..MaxTime /\ now <= now' /\ config' \in Config /\ StoreInv(config')
      /\ (config'.use_tickets \/ config'.use_session_cache) => Carries(config, config', now, now')
  BY <1>1, <1>2, KeyStepCarries
<1>4. now \in Nat /\ now' \in Nat
  BY <1>1, <1>3, LifetimeAssumption
<1>5. \A t \in tickets : t \in Ticket /\ t.issued \in Nat /\ Stamped(t, now) /\ Kept(t, config.ticket_keys, now)
  BY <1>1 DEF Inv, Ticket, Time
<1>6. /\ tickets' \subseteq Ticket
      /\ \A t \in tickets' : Stamped(t, now') /\ Kept(t, config'.ticket_keys, now')
  <2>1. CASE config'.use_tickets \/ config'.use_session_cache
    <3>1. tickets' = tickets
      BY <2>1 DEF KeysChange
    <3> QED BY <1>1, <1>3, <1>4, <1>5, <2>1, <3>1 DEF Carries, Stamped
  <2>2. CASE ~(config'.use_tickets \/ config'.use_session_cache)
    <3>1. tickets' = {[t EXCEPT !.live = FALSE] : t \in tickets}
      BY <2>2 DEF KeysChange
    <3>2. ASSUME NEW u \in tickets'
          PROVE  u \in Ticket /\ Stamped(u, now') /\ Kept(u, config'.ticket_keys, now')
      <4>1. PICK t \in tickets : u = [t EXCEPT !.live = FALSE]
        BY <3>1
      <4>2. t \in Ticket /\ t.issued \in Nat /\ Stamped(t, now)
        BY <1>5
      <4>3. u \in Ticket /\ u.live = FALSE /\ u.version = t.version /\ u.chosen = t.chosen /\ u.issued = t.issued
            /\ u.expires = t.expires /\ u.bound = t.bound
        BY <4>1, <4>2 DEF Ticket
      <4>4. Stamped(u, now')
        BY <1>3, <1>4, <4>2, <4>3 DEF Stamped
      <4> QED BY <4>3, <4>4 DEF Kept
    <3> QED BY <3>2
  <2> QED BY <2>1, <2>2
<1>7. \A c \in Connections : PskOk(conn'[c]) /\ CacheOk(cache'[c])
  BY <1>2 DEF Inv
<1> QED BY <1>1, <1>2, <1>3, <1>6, <1>7 DEF Inv, TypeOK, KeysTypeOK

-----------------------------------------------------------------------------
(* The steps of a connection.                                              *)

LEMMA MinOfTwo ==
  ASSUME NEW a \in Nat, NEW b \in Nat
  PROVE  Min({a, b}) \in {a, b} /\ Min({a, b}) <= a /\ Min({a, b}) <= b
<1>1. \E x \in {a, b} : \A y \in {a, b} : x <= y
  OBVIOUS
<1> QED BY <1>1 DEF Min

(* A ticket is sealed with a key that may encrypt when it is chosen. *)
LEMMA SealedIs ==
  ASSUME Inv, NEW c \in Connections, NEW at \in Nat, NEW expires \in Nat, NEW bound \in Nat,
         NEW t \in s2n_encrypt_session_ticket(c, now, at, expires, bound)
  PROVE  /\ t \in Ticket /\ t.version = conn[c].version /\ t.chosen = now /\ t.issued = at
         /\ t.expires = expires /\ t.bound = bound /\ Holds(config.ticket_keys, t)
<1>1. now \in Nat /\ config.ticket_keys \in Seq(Key) /\ conn[c] \in Conn
  BY LifetimeAssumption, ConfigIs DEF Inv, TypeOK, KeysTypeOK
<1>2. PICK k \in s2n_get_ticket_encrypt_decrypt_key(now) \ {NoKey} :
          t = [version |-> conn[c].version, name |-> k.name, material |-> k.material,
               issued |-> at, expires |-> expires, chosen |-> now,
               bound |-> bound, live |-> TRUE]
  BY DEF s2n_encrypt_session_ticket
<1>3. \E i \in DOMAIN config.ticket_keys : k = config.ticket_keys[i] /\ MayEncrypt(k, now)
  BY <1>1, ReturnedMayEncrypt
<1>4. PICK i \in DOMAIN config.ticket_keys : k = config.ticket_keys[i] /\ MayEncrypt(k, now)
  BY <1>3
<1>5. k \in Key
  BY <1>1, <1>4
<1>6. conn[c].version \in {12, 13} /\ k.name \in Names /\ k.material \in Materials
  BY <1>1, <1>5 DEF Conn, Key, Time
<1>7. t \in Ticket
  BY <1>1, <1>2, <1>6 DEF Ticket, Time
<1>8. t.version = conn[c].version /\ t.chosen = now /\ t.issued = at /\ t.expires = expires /\ t.bound = bound
      /\ t.name = k.name /\ t.material = k.material
  BY <1>2
<1>9. now < k.intro + EncryptDecryptLifetime
  BY <1>4 DEF MayEncrypt
<1> QED BY <1>4, <1>7, <1>8, <1>9 DEF Holds

(* Looking for a key carries the store on. *)
LEMMA KeysAfterCarries ==
  ASSUME Inv, NEW t, NEW later \in Nat, now <= later
  PROVE  Carries(config, config, now, later) /\ Carries(config, KeysAfter(t, now), now, later)
<1> DEFINE s == s2n_find_ticket_key(config.ticket_keys, t.name, now).left
<1>1. config \in Config /\ StoreInv(config) /\ now \in Nat
  BY LifetimeAssumption DEF Inv, TypeOK, KeysTypeOK
<1>2. config.ticket_keys \in Seq(Key)
  BY <1>1, ConfigIs
<1>3. Wiped(s, config.ticket_keys, now) /\ Wiped(config.ticket_keys, config.ticket_keys, now)
  BY <1>2, FindWipes, WipedItself
<1>4. KeysAfter(t, now) = [config EXCEPT !.ticket_keys = s]
  BY DEF KeysAfter
<1> HIDE DEF s
<1>5. config = [config EXCEPT !.ticket_keys = config.ticket_keys]
  BY <1>1 DEF Config
<1>6. Carries(config, [config EXCEPT !.ticket_keys = config.ticket_keys], now, later)
  BY <1>1, <1>3, WipedCarries
<1> QED BY <1>1, <1>3, <1>4, <1>5, <1>6, WipedCarries

LEMMA Basics ==
  ASSUME Inv
  PROVE  /\ now \in 1..MaxTime /\ now \in Nat /\ MaxTime \in Nat /\ config \in Config
         /\ config.ticket_keys \in Seq(Key)
         /\ conn \in [Connections -> Conn] /\ tickets \subseteq Ticket
         /\ cache \in [Connections -> MaybeTicket]
         /\ Carries(config, config, now, now)
<1>1. /\ now \in 1..MaxTime /\ now \in Nat /\ MaxTime \in Nat /\ config \in Config
      /\ conn \in [Connections -> Conn] /\ tickets \subseteq Ticket
      /\ cache \in [Connections -> MaybeTicket]
  BY LifetimeAssumption DEF Inv, TypeOK, KeysTypeOK, MaybeTicket
<1>2. now <= now
  BY <1>1
<1> QED BY <1>1, <1>2, ConfigIs, KeysAfterCarries

LEMMA NewConnIs ==
  ASSUME NEW c \in Connections
  PROVE  NewConn(c) \in Conn /\ NewConn(c).phase = "none" /\ NewConn(c).version = 12
         /\ NewConn(c).chosen_psk = NoTicket
BY DEF NewConn, Conn, Time

(* Only the connection changes, with the clock and what a search wipes. *)
LEMMA ConnShape ==
  ASSUME Inv, NEW c \in Connections, NEW r \in Conn, PskOk(r), conn' = [conn EXCEPT ![c] = r],
         now' \in {now, now + 1}, now' <= MaxTime,
         config' = config \/ \E t : config' = KeysAfter(t, now),
         tickets' = tickets, cache' = cache
  PROVE  Shape(c)
<1>1. now' \in 1..MaxTime /\ now <= now' /\ now' \in Nat
  BY Basics
<1>2. Carries(config, config', now, now')
  <2>1. \A t : Carries(config, config, now, now') /\ Carries(config, KeysAfter(t, now), now, now')
    BY <1>1, KeysAfterCarries
  <2> QED BY <2>1
<1>3. \E x \in Conn : conn' = [conn EXCEPT ![c] = x] /\ PskOk(x)
  OBVIOUS
<1> QED BY <1>1, <1>2, <1>3, Zenon DEF Shape

LEMMA TicketRecvShape ==
  ASSUME Inv, NEW c \in Connections, NEW t \in Offerable(12), NEW sid \in Connections,
         s2n_client_session_ticket_recv(c, t, sid)
  PROVE  Shape(c)
<1> DEFINE status == IF ~config.use_tickets THEN "NO_TICKET"
                     ELSE IF t # NoTicket THEN "DECRYPT_TICKET"
                     ELSE IF s2n_config_is_encrypt_decrypt_key_available(now) THEN "NEW_TICKET"
                     ELSE "NO_TICKET"
           r == [NewConn(c) EXCEPT !.phase = "hello", !.offered = t, !.sid = sid,
                                   !.session_ticket_status = status]
<1>1. conn' = [conn EXCEPT ![c] = r]
      /\ now' = now /\ config' = config /\ tickets' = tickets /\ cache' = cache
  BY DEF s2n_client_session_ticket_recv, Set
<1>2. status \in {"NO_TICKET", "DECRYPT_TICKET", "NEW_TICKET"} /\ (status = "DECRYPT_TICKET" => t # NoTicket)
  OBVIOUS
<1>3. t \in MaybeTicket /\ (t # NoTicket => t.version = 12)
  BY Basics DEF Offerable, MaybeTicket
<1> HIDE DEF status
<1>4. r \in Conn /\ r.chosen_psk = NoTicket
  BY <1>2, <1>3 DEF NewConn, Conn, Time, MaybeTicket
<1> HIDE DEF r
<1>5. PskOk(r)
  BY <1>4 DEF PskOk
<1>6. now' \in {now, now + 1} /\ now' <= MaxTime
  BY <1>1, Basics
<1> QED BY <1>1, <1>4, <1>5, <1>6, ConnShape

LEMMA SetTypeShape ==
  ASSUME Inv, NEW c \in Connections, s2n_conn_set_handshake_type(c)
  PROVE  Shape(c)
<1>1. PICK at \in {t \in {now, now + 1} : t <= MaxTime} :
          (ResumesTicket(c, at) \/ RefusesTicket(c, at) \/ LooksUpCache(c, at)) /\ now' = at
  BY DEF s2n_conn_set_handshake_type
<1>2. now' \in {now, now + 1} /\ now' <= MaxTime /\ tickets' = tickets /\ cache' = cache
  BY <1>1 DEF s2n_conn_set_handshake_type
<1>3. conn[c] \in Conn /\ PskOk(conn[c]) /\ NoTicket \in MaybeTicket
  BY Basics DEF Inv, MaybeTicket
<1>4. CASE ResumesTicket(c, at)
  <2> DEFINE rep == Replaces(conn[c].offered, at)
             r == [conn[c] EXCEPT
                     !.phase = "keys", !.resumed = TRUE, !.offered = NoTicket,
                     !.session_ticket_status = IF rep THEN "NEW_TICKET" ELSE @,
                     !.with_session_ticket = rep]
  <2>1. conn' = [conn EXCEPT ![c] = r] /\ config' = KeysAfter(conn[c].offered, now)
    BY <1>4 DEF ResumesTicket, Set
  <2>2. rep \in BOOLEAN
    BY DEF Replaces, DecryptOnly, s2n_config_is_encrypt_decrypt_key_available
  <2> HIDE DEF rep
  <2>3. r \in Conn /\ r.chosen_psk = conn[c].chosen_psk /\ r.established = conn[c].established
    BY <1>3, <2>2 DEF Conn
  <2> HIDE DEF r
  <2>4. PskOk(r)
    BY <1>3, <2>3 DEF PskOk
  <2> QED BY <1>2, <2>1, <2>3, <2>4, ConnShape
<1>5. CASE RefusesTicket(c, at)
  <2> DEFINE new == \E i \in DOMAIN config.ticket_keys : MayEncrypt(config.ticket_keys[i], at)
             r == [conn[c] EXCEPT
                     !.phase = "typed", !.sid = c, !.offered = NoTicket,
                     !.session_ticket_status = IF new THEN "NEW_TICKET" ELSE @,
                     !.with_session_ticket = new]
  <2>1. conn' = [conn EXCEPT ![c] = r] /\ config' = KeysAfter(conn[c].offered, now)
    BY <1>5 DEF RefusesTicket, Set
  <2>2. new \in BOOLEAN
    OBVIOUS
  <2> HIDE DEF new
  <2>3. r \in Conn /\ r.chosen_psk = conn[c].chosen_psk /\ r.established = conn[c].established
    BY <1>3, <2>2 DEF Conn
  <2> HIDE DEF r
  <2>4. PskOk(r)
    BY <1>3, <2>3 DEF PskOk
  <2> QED BY <1>2, <2>1, <2>3, <2>4, ConnShape
<1>6. CASE LooksUpCache(c, at)
  <2> DEFINE nst == config.use_tickets /\ conn[c].session_ticket_status = "NEW_TICKET"
             entry == IF config.use_session_cache THEN cache[conn[c].sid] ELSE NoTicket
             found == entry # NoTicket /\ s2n_decrypt_session_cache(c, entry, now, at)
             r == [conn[c] EXCEPT
                     !.phase = IF found THEN "keys" ELSE "typed", !.resumed = found,
                     !.sid = IF found THEN @ ELSE c, !.offered = NoTicket,
                     !.with_session_ticket = nst]
  <2>1. conn' = [conn EXCEPT ![c] = r] /\ config' = IF entry = NoTicket THEN config ELSE KeysAfter(entry, now)
    BY <1>6 DEF LooksUpCache, Set
  <2>2. nst \in BOOLEAN
    BY Basics DEF Config
  <2>3. found \in BOOLEAN
    BY DEF s2n_decrypt_session_cache, Opens
  <2> HIDE DEF nst, found, entry
  <2>4. r \in Conn /\ r.chosen_psk = conn[c].chosen_psk /\ r.established = conn[c].established
    BY <1>3, <2>2, <2>3 DEF Conn
  <2> HIDE DEF r
  <2>5. PskOk(r)
    BY <1>3, <2>4 DEF PskOk
  <2>6. config' = config \/ \E t : config' = KeysAfter(t, now)
    BY <2>1
  <2> QED BY <1>2, <2>1, <2>4, <2>5, <2>6, ConnShape
<1> QED BY <1>1, <1>4, <1>5, <1>6

(* A connection may move on to another phase. *)
LEMMA PhaseOnly ==
  ASSUME Inv, NEW c \in Connections, NEW x \in {"keys", "done", "failed"}
  PROVE  [conn[c] EXCEPT !.phase = x] \in Conn /\ PskOk([conn[c] EXCEPT !.phase = x])
<1> DEFINE r == [conn[c] EXCEPT !.phase = x]
<1>1. conn[c] \in Conn /\ PskOk(conn[c])
  BY Basics DEF Inv
<1>2. r \in Conn /\ r.chosen_psk = conn[c].chosen_psk /\ r.established = conn[c].established
  BY <1>1 DEF Conn
<1> HIDE DEF r
<1>3. PskOk(r)
  BY <1>1, <1>2 DEF PskOk
<1> QED BY <1>2, <1>3 DEF r

(* A step that changes the connection and perhaps the cache or the tickets. *)
LEMMA StillShape ==
  ASSUME Inv, NEW c \in Connections, NEW r \in Conn, PskOk(r), conn' = [conn EXCEPT ![c] = r],
         now' = now, config' = config,
         tickets' = tickets \/ \E t : tickets' = tickets \cup {t} /\ Fresh(t, config, now),
         cache' = cache \/ \E d \in Connections, e \in MaybeTicket :
                               cache' = [cache EXCEPT ![d] = e] /\ CacheOk(e)
  PROVE  Shape(c)
<1>1. now' \in 1..MaxTime /\ now <= now' /\ Carries(config, config', now, now')
  BY Basics
<1>2. \E x \in Conn : conn' = [conn EXCEPT ![c] = x] /\ PskOk(x)
  OBVIOUS
<1>3. tickets' = tickets \/ \E t : tickets' = tickets \cup {t} /\ Fresh(t, config', now')
  OBVIOUS
<1> QED BY <1>1, <1>2, <1>3, Zenon DEF Shape

LEMMA StoreShape ==
  ASSUME Inv, NEW c \in Connections, s2n_store_to_cache(c)
  PROVE  Shape(c)
<1>1. conn[c].phase = "typed" /\ conn[c].version = 12 /\ now' = now /\ config' = config /\ tickets' = tickets
  BY DEF s2n_store_to_cache
<1>2. conn[c].sid \in Connections /\ NoTicket \in MaybeTicket /\ CacheOk(NoTicket)
  BY Basics DEF Conn, MaybeTicket, CacheOk
<1>3. CASE conn' = [conn EXCEPT ![c] = [conn[c] EXCEPT !.phase = "keys"]] /\ cache' = cache
  BY <1>1, <1>3, PhaseOnly, StillShape
<1>4. ASSUME NEW t \in s2n_encrypt_session_ticket(c, now, now, 0, 0),
             cache' = [cache EXCEPT ![conn[c].sid] = t],
             conn' = [conn EXCEPT ![c] = [conn[c] EXCEPT !.phase = "keys"]]
      PROVE  Shape(c)
  <2>1. now \in Nat
    BY Basics
  <2>2. t \in MaybeTicket /\ CacheOk(t)
    BY <1>1, <2>1, SealedIs DEF MaybeTicket, CacheOk
  <2>3. \E d \in Connections, e \in MaybeTicket : cache' = [cache EXCEPT ![d] = e] /\ CacheOk(e)
    BY <1>2, <1>4, <2>2
  <2> QED BY <1>1, <1>4, <2>3, PhaseOnly, StillShape
<1>5. CASE /\ conn' = [conn EXCEPT ![c] = [conn[c] EXCEPT !.phase = "failed"]]
           /\ cache' = [cache EXCEPT ![conn[c].sid] = NoTicket]
  <2>1. \E d \in Connections, e \in MaybeTicket : cache' = [cache EXCEPT ![d] = e] /\ CacheOk(e)
    BY <1>2, <1>5
  <2> QED BY <1>1, <1>5, <2>1, PhaseOnly, StillShape
<1> QED BY <1>3, <1>4, <1>5 DEF s2n_store_to_cache, Set

LEMMA NstShape ==
  ASSUME Inv, NEW c \in Connections, s2n_server_nst_send(c)
  PROVE  Shape(c)
<1>1. conn[c].phase = "keys" /\ now' = now /\ config' = config
  BY DEF s2n_server_nst_send
<1>2. conn[c].sid \in Connections /\ NoTicket \in MaybeTicket /\ CacheOk(NoTicket) /\ now \in Nat
  BY Basics DEF Conn, MaybeTicket, CacheOk
<1>3. CASE NstFails(c)
  <2>1. /\ conn' = [conn EXCEPT ![c] = [conn[c] EXCEPT !.phase = "failed"]] /\ tickets' = tickets
        /\ cache' = cache \/ cache' = [cache EXCEPT ![conn[c].sid] = NoTicket]
    BY <1>3 DEF NstFails, Set
  <2>2. cache' = cache \/ \E d \in Connections, e \in MaybeTicket :
                              cache' = [cache EXCEPT ![d] = e] /\ CacheOk(e)
    BY <1>2, <2>1
  <2> QED BY <1>1, <2>1, <2>2, PhaseOnly, StillShape
<1>4. CASE NstEmpty(c)
  BY <1>1, <1>4, PhaseOnly, StillShape DEF NstEmpty, Set
<1>5. CASE NstSent(c)
  <2>1. /\ conn' = [conn EXCEPT ![c] = [conn[c] EXCEPT !.phase = "done"]] /\ cache' = cache
        /\ \E t \in s2n_encrypt_session_ticket(c, now, now, 0, 0) : tickets' = tickets \cup {t}
    BY <1>5 DEF NstSent, Set
  <2>2. \A t \in s2n_encrypt_session_ticket(c, now, now, 0, 0) : Fresh(t, config, now)
    <3> SUFFICES ASSUME NEW t \in s2n_encrypt_session_ticket(c, now, now, 0, 0) PROVE Fresh(t, config, now)
      OBVIOUS
    <3>1. t \in Ticket /\ t.chosen = now /\ t.issued = now /\ t.expires = 0 /\ t.bound = 0
          /\ Holds(config.ticket_keys, t)
      BY <1>2, SealedIs
    <3> QED BY <1>2, <3>1 DEF Fresh, Stamped
  <2> QED BY <1>1, <2>1, <2>2, PhaseOnly, StillShape
<1> QED BY <1>3, <1>4, <1>5 DEF s2n_server_nst_send

LEMMA NoNstShape ==
  ASSUME Inv, NEW c \in Connections, NoNst(c)
  PROVE  Shape(c)
BY PhaseOnly, StillShape DEF NoNst, Set

LEMMA WipeShape ==
  ASSUME Inv, NEW c \in Connections, s2n_connection_wipe(c)
  PROVE  Shape(c)
<1>1. PskOk(NewConn(c))
  BY NewConnIs DEF PskOk
<1> QED BY <1>1, NewConnIs, StillShape DEF s2n_connection_wipe, Set

LEMMA ChoosePskShape ==
  ASSUME Inv, NEW c \in Connections, NEW t \in Offerable(13), s2n_offered_psk_list_choose_psk(c, t)
  PROVE  Shape(c)
<1>1. PICK at \in {x \in {now, now + 1} : x <= MaxTime} :
          LET psk == Chooses(c, t, at)
          IN  /\ Set(c, [NewConn(c) EXCEPT
                     !.phase = "done", !.version = 13, !.resumed = psk,
                     !.chosen_psk = IF psk THEN t ELSE NoTicket, !.established = at])
              /\ now' = at
  BY DEF s2n_offered_psk_list_choose_psk
<1> DEFINE psk == Chooses(c, t, at)
           r == [NewConn(c) EXCEPT
                     !.phase = "done", !.version = 13, !.resumed = psk,
                     !.chosen_psk = IF psk THEN t ELSE NoTicket, !.established = at]
<1>2. conn' = [conn EXCEPT ![c] = r] /\ now' = at
  BY <1>1 DEF Set
<1>3. now' \in {now, now + 1} /\ now' <= MaxTime /\ tickets' = tickets /\ cache' = cache
      /\ (config' = config \/ config' = KeysAfter(t, now)) /\ at \in Nat
  BY <1>2, Basics DEF s2n_offered_psk_list_choose_psk
<1>4. psk \in BOOLEAN
  BY DEF Chooses
<1>5. t \in MaybeTicket
  BY Basics DEF Offerable, MaybeTicket
<1>6. psk => t # NoTicket /\ at < t.expires /\ t.expires <= t.bound
  <2> SUFFICES ASSUME psk PROVE t # NoTicket /\ at < t.expires /\ t.expires <= t.bound
    OBVIOUS
  <2>1. t # NoTicket /\ Opens(c, t, now, at)
    BY DEF Chooses
  <2>2. t \in tickets /\ t.version = 13 /\ t \in Ticket
    BY <2>1, Basics DEF Offerable
  <2>3. t.expires > at
    BY <2>1, <2>2 DEF Opens, s2n_deserialize_resumption_state, s2n_tls13_deserialize_session_state
  <2>4. Stamped(t, now)
    BY <2>2 DEF Inv
  <2>5. t.expires \in Nat
    BY <2>2 DEF Ticket, Time
  <2> QED BY <1>3, <2>1, <2>2, <2>3, <2>4, <2>5 DEF Stamped
<1> HIDE DEF psk
<1>7. r \in Conn /\ r.established = at /\ r.chosen_psk = IF psk THEN t ELSE NoTicket
  BY <1>3, <1>4, <1>5 DEF NewConn, Conn, Time, MaybeTicket
<1> HIDE DEF r
<1>8. PskOk(r)
  BY <1>6, <1>7 DEF PskOk
<1> QED BY <1>2, <1>3, <1>7, <1>8, ConnShape

LEMMA Tls13NstShape ==
  ASSUME Inv, NEW c \in Connections, NEW lifetime \in KeyingLifetimes, s2n_tls13_server_nst_send(c, lifetime)
  PROVE  Shape(c)
<1> DEFINE psk == conn[c].chosen_psk
           Expires(at) == KeyingMaterialExpiration(c, at, lifetime)
           Bound(at) == IF psk = NoTicket THEN Expires(at) ELSE psk.bound
<1>1. PICK at \in {x \in {now, now + 1} : x <= MaxTime} :
          /\ \E t \in s2n_encrypt_session_ticket(c, now, at, Expires(at), Bound(at)) :
                 tickets' = tickets \cup {t}
          /\ now' = at
  BY DEF s2n_tls13_server_nst_send
<1>2. conn' = conn /\ config' = config /\ cache' = cache
  BY DEF s2n_tls13_server_nst_send
<1>3. at \in Nat /\ at \in 1..MaxTime /\ now <= at /\ lifetime \in Nat
  BY Basics, TicketAssumption
<1>4. psk \in Ticket \cup {NoTicket}
  <2>1. conn[c] \in Conn
    BY Basics
  <2> QED BY <2>1 DEF Conn
<1>5. psk # NoTicket => psk.expires \in Nat /\ psk.bound \in Nat
  BY <1>4 DEF Ticket, Time
<1>6. Expires(at) \in Nat /\ Bound(at) \in Nat /\ Expires(at) <= Bound(at)
  <2>1. at + lifetime \in Nat
    BY <1>3
  <2>2. Expires(at) \in Nat
    <3>1. CASE psk = NoTicket
      BY <2>1, <3>1 DEF KeyingMaterialExpiration
    <3>2. CASE psk # NoTicket
      <4>1. Min({psk.expires, at + lifetime}) \in {psk.expires, at + lifetime}
        BY <1>5, <2>1, <3>2, MinOfTwo
      <4>2. Expires(at) = Min({psk.expires, at + lifetime})
        BY <3>2 DEF KeyingMaterialExpiration
      <4> QED BY <1>5, <2>1, <3>2, <4>1, <4>2
    <3> QED BY <3>1, <3>2
  <2>3. Expires(at) <= Bound(at)
    <3>1. CASE psk = NoTicket
      BY <2>2, <3>1
    <3>2. CASE psk # NoTicket
      <4>1. Min({psk.expires, at + lifetime}) <= psk.expires
        BY <1>5, <2>1, <3>2, MinOfTwo
      <4>2. Expires(at) = Min({psk.expires, at + lifetime}) /\ Bound(at) = psk.bound
        BY <3>2 DEF KeyingMaterialExpiration
      <4>3. psk.expires <= psk.bound
        BY <3>2 DEF Inv, PskOk
      <4> QED BY <1>5, <2>2, <3>2, <4>1, <4>2, <4>3
    <3> QED BY <3>1, <3>2
  <2> QED BY <1>5, <2>2, <2>3
<1> HIDE DEF Expires, Bound
<1>7. PICK t \in s2n_encrypt_session_ticket(c, now, at, Expires(at), Bound(at)) : tickets' = tickets \cup {t}
  BY <1>1
<1>8. t \in Ticket /\ t.chosen = now /\ t.issued = at /\ t.expires = Expires(at) /\ t.bound = Bound(at)
      /\ Holds(config.ticket_keys, t)
  BY <1>3, <1>6, SealedIs
<1>9. Fresh(t, config', now')
  BY <1>1, <1>2, <1>3, <1>6, <1>8, Basics DEF Fresh, Stamped
<1>10. Carries(config, config', now, now')
  BY <1>1, <1>2, <1>3, KeysAfterCarries
<1> QED BY <1>1, <1>2, <1>3, <1>7, <1>9, <1>10, Zenon DEF Shape

-----------------------------------------------------------------------------
(* The theorems.                                                           *)

LEMMA ForgetInv == ASSUME Inv, NEW u \in tickets, Forget(u) PROVE Inv'
<1>1. tickets' \subseteq tickets /\ now' = now /\ config' = config /\ conn' = conn /\ cache' = cache
  BY DEF Forget
<1> QED BY <1>1 DEF Inv, TypeOK, KeysTypeOK

LEMMA EvictShape ==
  ASSUME Inv, NEW c \in Connections, Evict(c)
  PROVE  Shape(c)
<1>1. now' = now /\ config' = config /\ conn' = conn /\ tickets' = tickets
      /\ cache' = [cache EXCEPT ![c] = NoTicket]
  BY DEF Evict
<1>2. NoTicket \in MaybeTicket /\ CacheOk(NoTicket)
  BY DEF MaybeTicket, CacheOk
<1>3. now' \in 1..MaxTime /\ now <= now' /\ Carries(config, config', now, now')
  BY <1>1, Basics
<1>4. \E d \in Connections, e \in MaybeTicket : cache' = [cache EXCEPT ![d] = e] /\ CacheOk(e)
  BY <1>1, <1>2
<1> QED BY <1>1, <1>3, <1>4, Zenon DEF Shape

LEMMA NextInv == Inv /\ [Next]_vars => Inv'
<1> SUFFICES ASSUME Inv, [Next]_vars PROVE Inv'
  OBVIOUS
<1>1. CASE KeysChange
  BY <1>1, KeysChangeInv
<1>2. ASSUME NEW c \in Connections,
             \/ \E t \in Offerable(12), sid \in Connections : s2n_client_session_ticket_recv(c, t, sid)
             \/ s2n_conn_set_handshake_type(c)
             \/ s2n_store_to_cache(c)
             \/ s2n_server_nst_send(c)
             \/ NoNst(c)
             \/ \E t \in Offerable(13) : s2n_offered_psk_list_choose_psk(c, t)
             \/ \E l \in KeyingLifetimes : s2n_tls13_server_nst_send(c, l)
             \/ s2n_connection_wipe(c)
      PROVE  Shape(c)
  BY <1>2, TicketRecvShape, SetTypeShape, StoreShape, NstShape, NoNstShape, ChoosePskShape,
     Tls13NstShape, WipeShape
<1>3. CASE UNCHANGED vars
  BY <1>3 DEF vars, Inv, TypeOK, KeysTypeOK
<1>4. CASE Next /\ ~KeysChange /\ ~(\E u \in tickets : Forget(u))
  <2>1. PICK c \in Connections : Shape(c)
    BY <1>2, <1>4, EvictShape DEF Next
  <2> QED BY <2>1, ShapeKeeps
<1>5. CASE \E u \in tickets : Forget(u)
  BY <1>5, ForgetInv
<1> QED BY <1>1, <1>3, <1>4, <1>5

LEMMA AlwaysInv == Spec => []Inv
BY InitInv, NextInv, PTL DEF Spec

(* The connections, tickets, cache and keys have their types: the readings *)
(* of the clock and the identifiers that tls/s2n_resume.c stores.          *)
THEOREM TypeCorrect == Spec => []TypeOK
<1>1. Inv => TypeOK
  BY DEF Inv
<1> QED BY <1>1, AlwaysInv, PTL

(* s2n_compute_weight_of_encrypt_decrypt_keys: however the doubles are     *)
(* rounded, one key is picked unless the random number is one of the last  *)
(* few, and every key whose share is not lost in the rounding is picked by *)
(* some number.                                                            *)
THEOREM EveryKeyCanBePicked == Spec => []SelectionCovers
<1>1. Inv => SelectionCovers
  <2> SUFFICES ASSUME Inv PROVE SelectionCovers
    OBVIOUS
  <2> DEFINE w == Weights(now)
             n == Len(w)
  <2>1. now \in Nat /\ config.ticket_keys \in Seq(Key)
    BY Basics
  <2>2. w \in Seq(Nat \ {0})
    BY <2>1, WeightsAre
  <2> HIDE DEF w
  <2>3. n \in Nat
    BY <2>2
  <2>4. ASSUME n >= 2, NEW c \in Sums(w)
        PROVE  /\ \A random \in 0..(Precision - n * Slack - 1) : \E i \in 1..n : Picked(c, random) = {i}
               /\ \A i \in 1..n : Precision * w[i] > n * Slack * Total(w)
                                      => \E random \in Random : Picked(c, random) = {i}
    <3> HIDE DEF n
    <3>1. Positive(w, n)
      BY <2>2, <2>3 DEF n, Positive
    <3> QED BY <2>4, <3>1, EveryKeyCovered
  <2> QED BY <2>4 DEF SelectionCovers, w
<1> QED BY <1>1, AlwaysInv, PTL

(* s2n_config_add_ticket_crypto_key and the removals by index: a name and  *)
(* a keying material belong to one key only.                               *)
THEOREM KeysAreDistinct == Spec => []KeysDistinct
<1>1. Inv => KeysDistinct
  BY DEF Inv, StoreInv, Distinct, KeysDistinct
<1> QED BY <1>1, AlwaysInv, PTL

LEMMA MinOfThree ==
  ASSUME NEW a \in Nat, NEW b \in Nat, NEW c \in Nat
  PROVE  Min({a, b, c}) \in Nat /\ Min({a, b, c}) <= a /\ Min({a, b, c}) <= b /\ Min({a, b, c}) <= c
<1>1. \E x \in {a, b, c} : \A y \in {a, b, c} : x <= y
  <2>1. PICK x \in {a, b} : x <= a /\ x <= b
    OBVIOUS
  <2>2. CASE x <= c
    BY <2>1, <2>2
  <2>3. CASE ~(x <= c)
    BY <2>1, <2>3
  <2> QED BY <2>2, <2>3
<1> DEFINE m == Min({a, b, c})
<1>2. m \in {a, b, c} /\ \A y \in {a, b, c} : m <= y
  BY <1>1 DEF Min
<1> QED BY <1>2

(* The key of a name is found if it is there and has not expired. *)
LEMMA FindsKept ==
  ASSUME NEW keys \in Seq(Key), Distinct(keys), NEW i \in DOMAIN keys, NEW at, ~Expired(keys[i], at)
  PROVE  s2n_find_ticket_key(keys, keys[i].name, at).key = keys[i] /\ keys[i] # NoKey
<1> DEFINE r == s2n_find_ticket_key(keys, keys[i].name, at)
<1>1. Finds(r, keys, keys[i].name, at)
  BY FindIs
<1> HIDE DEF r
<1>2. \A j \in DOMAIN keys : keys[j].name = keys[i].name => j = i
  BY DEF Distinct
<1>3. keys[i] \in Key
  OBVIOUS
<1>4. r.key = keys[i]
  BY <1>1, <1>2 DEF Finds
<1> QED BY <1>3, <1>4, NoKeyIsNoKey DEF r

(* A TLS 1.3 ticket opens for as long as s2n_generate_ticket_lifetime told *)
(* the client, unless the store is freed: no removal by index, no new key  *)
(* and no lookup in between takes the key it needs.                        *)
THEOREM LifetimesAreHonoured == Spec => []LifetimeHonoured
<1>1. Inv => LifetimeHonoured
  <2> SUFFICES ASSUME Inv, NEW t \in tickets, t.version = 13, t.live,
                      now < t.chosen + s2n_generate_ticket_lifetime, now < t.expires,
                      NEW c \in Connections
               PROVE  Opens(c, t, now, now)
    BY DEF LifetimeHonoured
  <2> DEFINE keys == config.ticket_keys
             m == s2n_generate_ticket_lifetime
  <2>1. /\ DecryptLifetime \in Nat /\ SessionStateLifetime \in Nat /\ OneWeek \in Nat
        /\ EncryptDecryptLifetime \in Nat
    BY LifetimeAssumption, TicketAssumption
  <2>2. m \in Nat /\ m <= DecryptLifetime /\ m <= OneWeek
    BY <2>1, MinOfThree DEF s2n_generate_ticket_lifetime
  <2> HIDE DEF m
  <2>3. t \in Ticket /\ now \in Nat /\ keys \in Seq(Key) /\ Distinct(keys)
        /\ Stamped(t, now) /\ Kept(t, keys, now)
    BY Basics DEF Inv, StoreInv
  <2>4. t.chosen \in Nat /\ t.issued \in Nat /\ t.expires \in Nat
    BY <2>3 DEF Ticket, Time
  <2>5. now < t.chosen + m
    BY DEF m
  <2>6. now < t.chosen + DecryptLifetime /\ now < t.chosen + OneWeek
    BY <2>1, <2>2, <2>3, <2>4, <2>5
  <2> HIDE DEF keys
  <2>7. PICK i \in DOMAIN keys : /\ keys[i].name = t.name /\ keys[i].material = t.material
                                 /\ t.chosen < keys[i].intro + EncryptDecryptLifetime
    BY <2>3, <2>6 DEF Kept, Holds
  <2>8. keys[i].intro \in Nat
    <3>1. keys[i] \in Key
      BY <2>3
    <3> QED BY <3>1, Basics DEF Key
  <2>9. ~Expired(keys[i], now)
    BY <2>1, <2>3, <2>4, <2>6, <2>7, <2>8 DEF Expired
  <2>10. s2n_find_ticket_key(keys, t.name, now).key = keys[i] /\ keys[i] # NoKey
    BY <2>3, <2>7, <2>9, FindsKept
  <2>11. t.issued <= now /\ now - t.issued <= OneWeek
    BY <2>1, <2>3, <2>4, <2>6 DEF Stamped
  <2>12. s2n_deserialize_resumption_state(c, t, now)
    BY <2>3, <2>4, <2>11 DEF s2n_deserialize_resumption_state, s2n_tls13_deserialize_session_state
  <2> QED BY <2>7, <2>10, <2>12 DEF Opens, keys
<1> QED BY <1>1, AlwaysInv, PTL

(* s2n_tls13_serialize_keying_material_expiration: what one full handshake *)
(* agreed on ends, in every ticket made from it and every connection       *)
(* resumed from them, when the first ticket of the chain was to expire.    *)
THEOREM ChainsAreBounded == Spec => []ChainBounded
<1>1. Inv => ChainBounded
  <2> SUFFICES ASSUME Inv PROVE ChainBounded
    OBVIOUS
  <2>1. \A t \in tickets : t.version = 13 => t.expires <= t.bound
    BY DEF Inv, Stamped
  <2>2. ASSUME NEW c \in Connections, conn[c].chosen_psk # NoTicket
        PROVE  conn[c].established < conn[c].chosen_psk.bound
    <3>1. conn[c] \in Conn /\ PskOk(conn[c])
      BY Basics DEF Inv
    <3>2. conn[c].established \in Nat /\ conn[c].chosen_psk \in Ticket
      BY <2>2, <3>1 DEF Conn, Time
    <3>3. conn[c].chosen_psk.expires \in Nat /\ conn[c].chosen_psk.bound \in Nat
      BY <3>2 DEF Ticket, Time
    <3> QED BY <2>2, <3>1, <3>2, <3>3 DEF PskOk
  <2> QED BY <2>1, <2>2 DEF ChainBounded
<1> QED BY <1>1, AlwaysInv, PTL

=============================================================================
