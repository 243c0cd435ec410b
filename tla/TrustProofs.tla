---------------------------- MODULE TrustProofs ----------------------------
(***************************************************************************)
(* Only certificates that deserve it are accepted, whatever the tables of  *)
(* certificates, the worlds and the order of the calls.                    *)
(***************************************************************************)
EXTENDS Trust, TLAPS, FiniteSetTheorems, WellFoundedInduction

\* A set of naturals that is not empty has a least member.
LEMMA LeastNatural ==
    ASSUME NEW T, T \subseteq Nat, T # {}
    PROVE  \E x \in T : \A y \in T : x <= y
  <1> DEFINE R == OpToRel(<, Nat)
  <1>1. IsWellFoundedOn(R, Nat) BY NatLessThanWellFounded
  <1>2. \A x, y \in Nat : y < x => <<y, x>> \in R BY DEF OpToRel
  <1> HIDE DEF R
  <1>3. PICK x \in T : \A y \in T : ~ (<<y, x>> \in R) BY <1>1, WFMin
  <1>4. ASSUME NEW y \in T PROVE x <= y
    <2>1. x \in Nat /\ y \in Nat OBVIOUS
    <2>2. ~(y < x) BY <1>2, <1>3, <2>1
    <2> QED BY <2>1, <2>2
  <1> QED BY <1>4

\* What holds of zero and of the next number holds of all.
LEMMA SetInduction ==
    ASSUME NEW S, 0 \in S, \A n \in Nat : n \in S => n + 1 \in S
    PROVE  Nat \subseteq S
  <1> DEFINE T == Nat \ S
  <1> SUFFICES ASSUME T # {} PROVE FALSE OBVIOUS
  <1>1. PICK x \in T : \A y \in T : x <= y BY LeastNatural
  <1>2. x # 0 /\ x - 1 \in Nat /\ x - 1 \notin T BY <1>1
  <1> QED BY <1>1, <1>2

\* f is a function of the numbers up to n.
IsTrail(f, n) == f = [i \in 0..n |-> f[i]]

-----------------------------------------------------------------------------
(***************************************************************************)
(* The path X509_verify_cert builds.                                       *)
(***************************************************************************)
Leading(certs, t) == IF InTime(certs[1], t) THEN <<certs[1]>> ELSE <<>>

IsPathRun(f, store, certs, t, n) ==
    f = [i \in 0..n |-> IF i = 0 THEN Leading(certs, t) ELSE Lengthened(store, certs, t, f[i - 1])]

\* What the runs that build a path are, step by step (X509_verify_cert).
LEMMA PathRunAt ==
    ASSUME NEW f, NEW store, NEW certs, NEW t, NEW n \in Nat, IsPathRun(f, store, certs, t, n)
    PROVE  /\ f[0] = Leading(certs, t)
           /\ \A i \in 1..n : f[i] = Lengthened(store, certs, t, f[i - 1])
  <1> DEFINE V(i) == IF i = 0 THEN Leading(certs, t) ELSE Lengthened(store, certs, t, f[i - 1])
  <1>1. f = [i \in 0..n |-> V(i)] BY DEF IsPathRun
  <1>2. V(0) = Leading(certs, t) OBVIOUS
  <1>3. \A i \in 1..n : V(i) = Lengthened(store, certs, t, f[i - 1]) OBVIOUS
  <1> HIDE DEF V
  <1>4. \A i \in 0..n : f[i] = V(i) BY <1>1
  <1> QED BY <1>2, <1>3, <1>4

\* What is built step by step is such a run.
LEMMA PathRunFrom ==
    ASSUME NEW f, NEW store, NEW certs, NEW t, NEW n \in Nat,
           IsTrail(f, n), f[0] = Leading(certs, t),
           \A i \in 1..n : f[i] = Lengthened(store, certs, t, f[i - 1])
    PROVE  IsPathRun(f, store, certs, t, n)
  <1> DEFINE V(i) == IF i = 0 THEN Leading(certs, t) ELSE Lengthened(store, certs, t, f[i - 1])
  <1>1. ASSUME NEW i \in 0..n PROVE f[i] = V(i)
    <2>1. CASE i = 0 BY <2>1
    <2>2. CASE i # 0
      <3>1. i \in 1..n BY <2>2
      <3>2. f[i] = Lengthened(store, certs, t, f[i - 1]) BY <3>1
      <3> QED BY <2>2, <3>2
    <2> QED BY <2>1, <2>2
  <1> HIDE DEF V
  <1>2. f = [i \in 0..n |-> V(i)] BY <1>1 DEF IsTrail
  <1> QED BY <1>2 DEF IsPathRun, V

\* There is one of every length.
LEMMA PathRunExists ==
    ASSUME NEW store, NEW certs, NEW t, NEW n \in Nat
    PROVE  \E f : IsPathRun(f, store, certs, t, n)
  <1> DEFINE S == {k \in Nat : \E f : IsPathRun(f, store, certs, t, k)}
  <1>1. 0 \in S
    <2> DEFINE f == [i \in 0..0 |-> Leading(certs, t)]
    <2>1. IsTrail(f, 0) /\ f[0] = Leading(certs, t) BY DEF IsTrail
    <2> HIDE DEF f
    <2>2. IsPathRun(f, store, certs, t, 0) BY <2>1, PathRunFrom
    <2> QED BY <2>2
  <1>2. ASSUME NEW k \in Nat, k \in S PROVE k + 1 \in S
    <2>1. PICK f : IsPathRun(f, store, certs, t, k) BY <1>2
    <2>2. f[0] = Leading(certs, t) /\ \A i \in 1..k : f[i] = Lengthened(store, certs, t, f[i - 1])
      BY <2>1, PathRunAt
    <2> DEFINE g == [i \in 0..(k + 1) |-> IF i <= k THEN f[i] ELSE Lengthened(store, certs, t, f[k])]
    <2>3. IsTrail(g, k + 1) /\ g[0] = Leading(certs, t) BY <2>2 DEF IsTrail
    <2>4. \A i \in 1..(k + 1) : g[i] = Lengthened(store, certs, t, g[i - 1])
      <3> SUFFICES ASSUME NEW i \in 1..(k + 1) PROVE g[i] = Lengthened(store, certs, t, g[i - 1]) OBVIOUS
      <3>1. g[i - 1] = f[i - 1] OBVIOUS
      <3>2. CASE i <= k BY <2>2, <3>1, <3>2
      <3>3. CASE ~(i <= k)
        <4>1. i = k + 1 BY <3>3
        <4>2. i - 1 = k /\ g[i] = Lengthened(store, certs, t, f[k]) BY <4>1
        <4> QED BY <3>1, <4>1, <4>2
      <3> QED BY <3>2, <3>3
    <2> HIDE DEF g
    <2>5. IsPathRun(g, store, certs, t, k + 1) BY <2>3, <2>4, PathRunFrom
    <2> QED BY <2>5
  <1> HIDE DEF S
  <1>3. Nat \subseteq S BY <1>1, <1>2, SetInduction
  <1> QED BY <1>3 DEF S

\* So LongestPath is the last of its run.
LEMMA LongestPathIs ==
    ASSUME NEW store, NEW certs, NEW t, Len(certs) \in Nat
    PROVE  \E f : /\ f[0] = Leading(certs, t)
                  /\ \A i \in 1..(Len(certs) + 1) : f[i] = Lengthened(store, certs, t, f[i - 1])
                  /\ LongestPath(store, certs, t) = f[Len(certs) + 1]
  <1> DEFINE N == Len(certs) + 1
             F == CHOOSE f : f = [i \in 0..(Len(certs) + 1) |->
                                    IF i = 0 THEN (IF InTime(certs[1], t) THEN <<certs[1]>> ELSE <<>>)
                                    ELSE Lengthened(store, certs, t, f[i - 1])]
  <1>1. LongestPath(store, certs, t) = F[Len(certs) + 1] BY Zenon DEF LongestPath
  <1>2. \E f : f = [i \in 0..(Len(certs) + 1) |->
                      IF i = 0 THEN (IF InTime(certs[1], t) THEN <<certs[1]>> ELSE <<>>)
                      ELSE Lengthened(store, certs, t, f[i - 1])]
    <2>1. N \in Nat OBVIOUS
    <2> HIDE DEF N
    <2>2. \E f : IsPathRun(f, store, certs, t, N) BY <2>1, PathRunExists
    <2> QED BY <2>2, Zenon DEF IsPathRun, Leading, N
  <1>3. F = [i \in 0..(Len(certs) + 1) |->
               IF i = 0 THEN (IF InTime(certs[1], t) THEN <<certs[1]>> ELSE <<>>)
               ELSE Lengthened(store, certs, t, F[i - 1])] BY <1>2, Zenon
  <1>4. IsPathRun(F, store, certs, t, N) BY <1>3, Zenon DEF IsPathRun, Leading
  <1> HIDE DEF F
  <1>5. N \in Nat OBVIOUS
  <1>6. F[0] = Leading(certs, t) /\ \A i \in 1..N : F[i] = Lengthened(store, certs, t, F[i - 1])
    BY <1>4, <1>5, PathRunAt
  <1> QED BY <1>1, <1>6
-----------------------------------------------------------------------------
(***************************************************************************)
(* A path leads from the first certificate sent over certificates known,   *)
(* in their time and each issued by the next.                              *)
(***************************************************************************)
Known(store, certs) == ToSet(certs) \cup store.certs

Leads(p, certs, t) ==
    /\ p[1] = certs[1]
    /\ \A i \in 1..Len(p) : InTime(p[i], t)
    /\ \A i \in 1..(Len(p) - 1) : Issued(p[i + 1], p[i])

GoodPath(p, store, certs, t) ==
    p \in Seq(Known(store, certs)) /\ (p # <<>> => Leads(p, certs, t))

\* One more certificate.
LEMMA AppendedLeads ==
    ASSUME NEW K, NEW p \in Seq(K), NEW certs, NEW t, p # <<>>, Leads(p, certs, t),
           NEW i \in K, Issued(i, p[Len(p)]), InTime(i, t)
    PROVE  Append(p, i) \in Seq(K) /\ Leads(Append(p, i), certs, t)
  <1> DEFINE q == Append(p, i)
             n == Len(p)
  <1>1. /\ n \in Nat /\ n > 0 /\ q \in Seq(K) /\ Len(q) = n + 1 /\ q[n + 1] = i
        /\ \A j \in 1..n : q[j] = p[j]
    OBVIOUS
  <1>2. /\ p[1] = certs[1] /\ \A j \in 1..n : InTime(p[j], t)
        /\ \A j \in 1..(n - 1) : Issued(p[j + 1], p[j])
    BY DEF Leads
  <1>3. Issued(i, p[n]) OBVIOUS
  <1> HIDE DEF q, n
  <1>4. q[1] = certs[1] BY <1>1, <1>2
  <1>5. ASSUME NEW j \in 1..(n + 1) PROVE InTime(q[j], t)
    <2>1. CASE j = n + 1 BY <1>1, <2>1
    <2>2. CASE j # n + 1
      <3>1. j \in 1..n BY <1>1, <2>2
      <3> QED BY <1>1, <1>2, <3>1
    <2> QED BY <2>1, <2>2
  <1>6. ASSUME NEW j \in 1..n PROVE Issued(q[j + 1], q[j])
    <2>1. CASE j = n BY <1>1, <1>3, <2>1
    <2>2. CASE j # n
      <3>1. j \in 1..(n - 1) /\ j + 1 \in 1..n BY <1>1, <2>2
      <3> QED BY <1>1, <1>2, <3>1
    <2> QED BY <2>1, <2>2
  <1>7. Len(q) - 1 = n BY <1>1
  <1>8. Leads(q, certs, t) BY <1>1, <1>4, <1>5, <1>6, <1>7 DEF Leads
  <1> QED BY <1>1, <1>8 DEF q

\* What grows stays a path.
LEMMA LengthenedGood ==
    ASSUME NEW store, NEW certs, NEW t, NEW p, GoodPath(p, store, certs, t)
    PROVE  GoodPath(Lengthened(store, certs, t, p), store, certs, t)
  <1> DEFINE c == p[Len(p)]
             K == Known(store, certs)
             trusted == Issuers(store.certs, c, t)
             sent == Issuers(ToSet(certs), c, t)
             q == Lengthened(store, certs, t, p)
             x == CHOOSE i \in trusted : TRUE
             y == CHOOSE i \in sent : TRUE
  <1>1. q = IF p = <<>> \/ Anchor(store, c) THEN p
            ELSE IF trusted # {} THEN Append(p, x)
            ELSE IF sent # {} THEN Append(p, y)
            ELSE <<>>
    BY Zenon DEF Lengthened
  <1>2. trusted # {} => x \in trusted OBVIOUS
  <1>3. sent # {} => y \in sent OBVIOUS
  <1>4. \A i \in trusted \cup sent : i \in K /\ Issued(i, c) /\ InTime(i, t) BY DEF Issuers, Known
  <1>5. p \in Seq(K) /\ (p # <<>> => Leads(p, certs, t)) BY DEF GoodPath
  <1>6. ASSUME NEW i, i \in K, Issued(i, c), InTime(i, t), p # <<>>
        PROVE  GoodPath(Append(p, i), store, certs, t)
    BY <1>5, <1>6, AppendedLeads DEF GoodPath
  <1>7. GoodPath(<<>>, store, certs, t) BY DEF GoodPath
  <1>8. GoodPath(p, store, certs, t) OBVIOUS
  <1> HIDE DEF c, K, trusted, sent, q, x, y
  <1>9. p # <<>> /\ trusted # {} => GoodPath(Append(p, x), store, certs, t) BY <1>2, <1>4, <1>6
  <1>10. p # <<>> /\ sent # {} => GoodPath(Append(p, y), store, certs, t) BY <1>3, <1>4, <1>6
  <1>11. GoodPath(q, store, certs, t) BY <1>1, <1>7, <1>8, <1>9, <1>10
  <1> QED BY <1>11 DEF q

\* The path that is built in the end.
LEMMA LongestGood ==
    ASSUME NEW store, NEW A, NEW certs \in Seq(A), certs # <<>>, NEW t
    PROVE  GoodPath(LongestPath(store, certs, t), store, certs, t)
  <1>1. Len(certs) \in Nat /\ 1 \in 1..Len(certs) OBVIOUS
  <1>2. PICK f : /\ f[0] = Leading(certs, t)
                 /\ \A i \in 1..(Len(certs) + 1) : f[i] = Lengthened(store, certs, t, f[i - 1])
                 /\ LongestPath(store, certs, t) = f[Len(certs) + 1]
    BY <1>1, LongestPathIs
  <1> DEFINE N == Len(certs) + 1
             S == {k \in Nat : k <= N => GoodPath(f[k], store, certs, t)}
  <1>3. N \in Nat BY <1>1
  <1>4. GoodPath(Leading(certs, t), store, certs, t)
    <2>1. certs[1] \in Known(store, certs) BY <1>1 DEF Known, ToSet
    <2>2. CASE InTime(certs[1], t)
      <3> DEFINE p == <<certs[1]>>
      <3>1. p \in Seq(Known(store, certs)) /\ Len(p) = 1 /\ p[1] = certs[1] BY <2>1
      <3> HIDE DEF p
      <3>2. Leads(p, certs, t) BY <2>2, <3>1 DEF Leads
      <3>3. GoodPath(p, store, certs, t) BY <3>1, <3>2 DEF GoodPath
      <3> QED BY <2>2, <3>3 DEF p, Leading
    <2>3. CASE ~InTime(certs[1], t) BY <2>3 DEF Leading, GoodPath
    <2> QED BY <2>2, <2>3
  <1> HIDE DEF N
  <1>5. 0 \in S BY <1>2, <1>4
  <1>6. ASSUME NEW k \in Nat, k \in S PROVE k + 1 \in S
    <2> SUFFICES ASSUME k + 1 <= N PROVE GoodPath(f[k + 1], store, certs, t) OBVIOUS
    <2>1. k + 1 \in 1..N /\ (k + 1) - 1 = k /\ GoodPath(f[k], store, certs, t) BY <1>3, <1>6
    <2>2. f[k + 1] = Lengthened(store, certs, t, f[k]) BY <1>2, <2>1 DEF N
    <2> QED BY <2>1, <2>2, LengthenedGood
  <1> HIDE DEF S
  <1>7. Nat \subseteq S BY <1>5, <1>6, SetInduction
  <1>8. GoodPath(f[N], store, certs, t) BY <1>3, <1>7 DEF S
  <1> QED BY <1>2, <1>8 DEF N

-----------------------------------------------------------------------------
(***************************************************************************)
(* What Certified collects is closed: whom a member issued is a member.    *)
(***************************************************************************)
Anchors(store, certs, t) == {c \in Known(store, certs) : Anchor(store, c) /\ InTime(c, t)}
Closed(S, known, t) == \A c \in known : InTime(c, t) /\ (\E i \in S : Issued(i, c)) => c \in S

IsCertRun(f, A, known, t, n) ==
    f = [i \in 0..n |-> IF i = 0 THEN A ELSE Raised(known, t, f[i - 1])]

\* The same for the run of Certified, from the anchors down.
LEMMA CertRunAt ==
    ASSUME NEW f, NEW A, NEW known, NEW t, NEW n \in Nat, IsCertRun(f, A, known, t, n)
    PROVE  f[0] = A /\ \A i \in 1..n : f[i] = Raised(known, t, f[i - 1])
  <1> DEFINE V(i) == IF i = 0 THEN A ELSE Raised(known, t, f[i - 1])
  <1>1. f = [i \in 0..n |-> V(i)] BY DEF IsCertRun
  <1>2. V(0) = A OBVIOUS
  <1>3. \A i \in 1..n : V(i) = Raised(known, t, f[i - 1]) OBVIOUS
  <1> HIDE DEF V
  <1>4. \A i \in 0..n : f[i] = V(i) BY <1>1
  <1> QED BY <1>2, <1>3, <1>4

\* What is raised step by step is such a run.
LEMMA CertRunFrom ==
    ASSUME NEW f, NEW A, NEW known, NEW t, NEW n \in Nat, IsTrail(f, n), f[0] = A,
           \A i \in 1..n : f[i] = Raised(known, t, f[i - 1])
    PROVE  IsCertRun(f, A, known, t, n)
  <1> DEFINE V(i) == IF i = 0 THEN A ELSE Raised(known, t, f[i - 1])
  <1>1. ASSUME NEW i \in 0..n PROVE f[i] = V(i)
    <2>1. CASE i = 0 BY <2>1
    <2>2. CASE i # 0
      <3>1. i \in 1..n BY <2>2
      <3>2. f[i] = Raised(known, t, f[i - 1]) BY <3>1
      <3> QED BY <2>2, <3>2
    <2> QED BY <2>1, <2>2
  <1> HIDE DEF V
  <1>2. f = [i \in 0..n |-> V(i)] BY <1>1 DEF IsTrail
  <1> QED BY <1>2 DEF IsCertRun, V

\* There is one of every length.
LEMMA CertRunExists ==
    ASSUME NEW A, NEW known, NEW t, NEW n \in Nat
    PROVE  \E f : IsCertRun(f, A, known, t, n)
  <1> DEFINE S == {k \in Nat : \E f : IsCertRun(f, A, known, t, k)}
  <1>1. 0 \in S
    <2> DEFINE f == [i \in 0..0 |-> A]
    <2>1. IsTrail(f, 0) /\ f[0] = A BY DEF IsTrail
    <2> HIDE DEF f
    <2>2. IsCertRun(f, A, known, t, 0) BY <2>1, CertRunFrom
    <2> QED BY <2>2
  <1>2. ASSUME NEW k \in Nat, k \in S PROVE k + 1 \in S
    <2>1. PICK f : IsCertRun(f, A, known, t, k) BY <1>2
    <2>2. f[0] = A /\ \A i \in 1..k : f[i] = Raised(known, t, f[i - 1]) BY <2>1, CertRunAt
    <2> DEFINE g == [i \in 0..(k + 1) |-> IF i <= k THEN f[i] ELSE Raised(known, t, f[k])]
    <2>3. IsTrail(g, k + 1) /\ g[0] = A BY <2>2 DEF IsTrail
    <2>4. \A i \in 1..(k + 1) : g[i] = Raised(known, t, g[i - 1])
      <3> SUFFICES ASSUME NEW i \in 1..(k + 1) PROVE g[i] = Raised(known, t, g[i - 1]) OBVIOUS
      <3>1. g[i - 1] = f[i - 1] OBVIOUS
      <3>2. CASE i <= k BY <2>2, <3>1, <3>2
      <3>3. CASE ~(i <= k)
        <4>1. i = k + 1 BY <3>3
        <4>2. i - 1 = k /\ g[i] = Raised(known, t, f[k]) BY <4>1
        <4> QED BY <3>1, <4>1, <4>2
      <3> QED BY <3>2, <3>3
    <2> HIDE DEF g
    <2> DEFINE m == k + 1
    <2>5. m \in Nat OBVIOUS
    <2>6. IsTrail(g, m) /\ g[0] = A /\ \A i \in 1..m : g[i] = Raised(known, t, g[i - 1]) BY <2>3, <2>4
    <2> HIDE DEF m
    <2>7. IsCertRun(g, A, known, t, m) BY <2>5, <2>6, CertRunFrom
    <2> QED BY <2>5, <2>7 DEF m
  <1> HIDE DEF S
  <1>3. Nat \subseteq S BY <1>1, <1>2, SetInduction
  <1> QED BY <1>3 DEF S

\* So Certified is the last of its run.
LEMMA CertifiedIs ==
    ASSUME NEW store, NEW certs, NEW t, Cardinality(Known(store, certs)) \in Nat
    PROVE  \E f : /\ f[0] = Anchors(store, certs, t)
                  /\ \A i \in 1..Cardinality(Known(store, certs)) :
                        f[i] = Raised(Known(store, certs), t, f[i - 1])
                  /\ Certified(store, certs, t) = f[Cardinality(Known(store, certs))]
  <1> DEFINE K == ToSet(certs) \cup store.certs
             N == Cardinality(K)
             A == {c \in K : Anchor(store, c) /\ InTime(c, t)}
             F == CHOOSE f : f = [i \in 0..Cardinality(K) |-> IF i = 0 THEN A ELSE Raised(K, t, f[i - 1])]
  <1>1. Certified(store, certs, t) = F[Cardinality(K)] BY Zenon DEF Certified
  <1>2. \E f : f = [i \in 0..Cardinality(K) |-> IF i = 0 THEN A ELSE Raised(K, t, f[i - 1])]
    <2>1. N \in Nat BY DEF Known
    <2> HIDE DEF N, K, A
    <2>2. \E f : IsCertRun(f, A, K, t, N) BY <2>1, CertRunExists
    <2> QED BY <2>2, Zenon DEF IsCertRun, N
  <1>3. F = [i \in 0..Cardinality(K) |-> IF i = 0 THEN A ELSE Raised(K, t, F[i - 1])] BY <1>2, Zenon
  <1>4. IsCertRun(F, A, K, t, N) BY <1>3, Zenon DEF IsCertRun
  <1>5. N \in Nat /\ K = Known(store, certs) /\ A = Anchors(store, certs, t) BY DEF Known, Anchors
  <1> HIDE DEF F, K, A, N
  <1>6. F[0] = A /\ \A i \in 1..N : F[i] = Raised(K, t, F[i - 1]) BY <1>4, <1>5, CertRunAt
  <1> QED BY <1>1, <1>5, <1>6 DEF N

\* Raising twice as often as there are certificates adds nothing new.
LEMMA CertifiedClosed ==
    ASSUME NEW store, NEW certs, NEW t, IsFiniteSet(Known(store, certs))
    PROVE  /\ Anchors(store, certs, t) \subseteq Certified(store, certs, t)
           /\ Closed(Certified(store, certs, t), Known(store, certs), t)
  <1> DEFINE K == Known(store, certs)
             N == Cardinality(K)
             A == Anchors(store, certs, t)
  <1>1. N \in Nat BY FS_CardinalityType
  <1>2. PICK f : /\ f[0] = A /\ \A i \in 1..N : f[i] = Raised(K, t, f[i - 1])
                 /\ Certified(store, certs, t) = f[N]
    BY <1>1, CertifiedIs
  <1>3. A \subseteq K BY DEF Anchors
  <1>4. IsFiniteSet(K) OBVIOUS
  <1> DEFINE P(i) == /\ A \subseteq f[i] /\ f[i] \subseteq K
                     /\ Closed(f[i], K, t) \/ Cardinality(f[i]) >= i
             S == {k \in Nat : k <= N => P(k)}
  <1> HIDE DEF K, N, A
  <1>5. 0 \in S
    <2>1. f[0] \subseteq K BY <1>2, <1>3
    <2>2. Cardinality(f[0]) \in Nat BY <1>4, <2>1, FS_Subset, FS_CardinalityType
    <2> QED BY <1>2, <1>3, <2>2
  <1>6. ASSUME NEW k \in Nat, k \in S PROVE k + 1 \in S
    <2> SUFFICES ASSUME k + 1 <= N PROVE P(k + 1) OBVIOUS
    <2> DEFINE U == f[k]
               V == f[k + 1]
    <2>1. k + 1 \in 1..N /\ (k + 1) - 1 = k /\ P(k) BY <1>1, <1>6
    <2>2. V = Raised(K, t, U) BY <1>2, <2>1
    <2>3. A \subseteq U /\ U \subseteq K /\ (Closed(U, K, t) \/ Cardinality(U) >= k) BY <2>1
    <2> HIDE DEF U, V
    <2>4. U \subseteq V /\ V \subseteq K BY <2>2, <2>3 DEF Raised
    <2>5. IsFiniteSet(V) /\ IsFiniteSet(U) BY <1>4, <2>3, <2>4, FS_Subset
    <2>6. CASE Closed(U, K, t)
      <3>1. V = U BY <2>2, <2>6 DEF Raised, Closed
      <3> QED BY <2>3, <2>4, <2>6, <3>1 DEF U, V
    <2>7. CASE ~Closed(U, K, t)
      <3>1. V # U BY <2>2, <2>7 DEF Raised, Closed
      <3>2. U \in SUBSET V BY <2>4
      <3>3. Cardinality(U) <= Cardinality(V) /\ Cardinality(U) # Cardinality(V)
        BY <2>5, <3>1, <3>2, FS_Subset
      <3>5. Cardinality(U) \in Nat /\ Cardinality(V) \in Nat BY <2>5, FS_CardinalityType
      <3>4. Cardinality(V) >= k + 1 BY <2>3, <2>7, <3>3, <3>5
      <3> QED BY <2>3, <2>4, <3>4 DEF U, V
    <2> QED BY <2>6, <2>7
  <1>7. N \in S
    <2> HIDE DEF S
    <2>1. Nat \subseteq S BY <1>5, <1>6, SetInduction
    <2> QED BY <1>1, <2>1
  <1>8. P(N) BY <1>1, <1>7
  <1>9. Closed(f[N], K, t)
    <2> SUFFICES ASSUME Cardinality(f[N]) >= N PROVE Closed(f[N], K, t) BY <1>8
    <2> DEFINE U == f[N]
    <2>1. U \subseteq K BY <1>8
    <2> HIDE DEF U
    <2>2. /\ IsFiniteSet(U) /\ Cardinality(U) <= Cardinality(K)
          /\ Cardinality(K) = Cardinality(U) => K = U
      BY <1>4, <2>1, FS_Subset
    <2>3. Cardinality(U) \in Nat BY <2>2, FS_CardinalityType
    <2>4. Cardinality(U) >= N BY DEF U
    <2>5. Cardinality(K) = Cardinality(U) BY <1>1, <2>2, <2>3, <2>4 DEF N
    <2>6. U = K BY <2>2, <2>5
    <2> QED BY <2>6 DEF U, Closed
  <1> QED BY <1>2, <1>8, <1>9 DEF K, A

\* On a path that ends in an anchor every certificate is certified.
LEMMA PathCertified ==
    ASSUME NEW store, NEW certs, NEW t, IsFiniteSet(Known(store, certs)),
           NEW p, GoodPath(p, store, certs, t), p # <<>>, Anchor(store, p[Len(p)])
    PROVE  certs[1] \in Certified(store, certs, t) /\ \A i \in 1..Len(p) : p[i] \in Certified(store, certs, t)
  <1> DEFINE K == Known(store, certs)
             C == Certified(store, certs, t)
             n == Len(p)
             S == {k \in Nat : k < n => p[n - k] \in C}
  <1>1. p \in Seq(K) /\ Leads(p, certs, t) BY DEF GoodPath
  <1>2. n \in Nat /\ n > 0 /\ \A i \in 1..n : p[i] \in K BY <1>1
  <1>3. /\ p[1] = certs[1] /\ \A i \in 1..n : InTime(p[i], t)
        /\ \A i \in 1..(n - 1) : Issued(p[i + 1], p[i])
    BY <1>1 DEF Leads
  <1>4. p[n] \in Anchors(store, certs, t) BY <1>2, <1>3 DEF Anchors
  <1>5. p[n] \in C BY <1>4, CertifiedClosed
  <1>6. Closed(C, K, t) BY CertifiedClosed
  <1> HIDE DEF n, C, K
  <1>7. 0 \in S
    <2>1. n - 0 = n BY <1>2
    <2> QED BY <1>5, <2>1
  <1>8. ASSUME NEW k \in Nat, k \in S PROVE k + 1 \in S
    <2> SUFFICES ASSUME k + 1 < n PROVE p[n - (k + 1)] \in C OBVIOUS
    <2> DEFINE j == n - (k + 1)
    <2>1. j \in 1..(n - 1) /\ j \in 1..n /\ j + 1 = n - k BY <1>2
    <2>2. p[n - k] \in C BY <1>2, <1>8
    <2> HIDE DEF j
    <2>3. Issued(p[j + 1], p[j]) /\ InTime(p[j], t) /\ p[j] \in K /\ p[j + 1] \in C BY <1>2, <1>3, <2>1, <2>2
    <2>4. p[j] \in C BY <1>6, <2>3 DEF Closed
    <2> QED BY <2>4 DEF j
  <1> HIDE DEF S
  <1>9. Nat \subseteq S BY <1>7, <1>8, SetInduction
  <1>10. ASSUME NEW i \in 1..n PROVE p[i] \in C
    <2>1. n - i \in Nat /\ n - i < n /\ n - (n - i) = i BY <1>2
    <2> QED BY <1>9, <2>1 DEF S
  <1>11. p[1] \in C
    <2>1. 1 \in 1..n BY <1>2
    <2> QED BY <1>10, <2>1
  <1> QED BY <1>3, <1>10, <1>11 DEF C, n
-----------------------------------------------------------------------------
(***************************************************************************)
(* Names.  The way the code compares with a wildcard, label by label after *)
(* the first, is the comparison with the name that has a star there.       *)
(***************************************************************************)
LEMMA StarCovers ==
    ASSUME NEW x \in Seq(STRING), NEW y \in Seq(STRING), s2n_default_verify_host(x, y)
    PROVE  Covers(x, y)
  <1>1. CASE SameName(x, y) BY <1>1 DEF Covers
  <1>2. CASE ~SameName(x, y)
    <2>1. /\ Len(x) >= 2 /\ x[1] = "*" /\ Len(y) >= 2 /\ SameName(Tail(x), Tail(y))
      BY <1>2 DEF s2n_default_verify_host
    <2> DEFINE z == <<"*">> \o Tail(y)
               L(a) == IF a \in DOMAIN LowerCase THEN LowerCase[a] ELSE a
               n == Len(x)
               m == Len(y)
               u == Tail(x)
               w == Tail(y)
    <2>2. /\ n \in Nat /\ m \in Nat /\ Len(u) = n - 1 /\ Len(w) = m - 1 /\ Len(z) = m
          /\ \A i \in 1..(n - 1) : u[i] = x[i + 1]
          /\ z[1] = "*" /\ \A i \in 1..(m - 1) : z[i + 1] = w[i]
      BY <2>1
    <2>3. [i \in 1..Len(u) |-> L(u[i])] = [i \in 1..Len(w) |-> L(w[i])]
      BY <2>1 DEF SameName, s2n_blob_char_to_lower
    <2> HIDE DEF z, L, n, m, u, w
    <2>4. 1..(n - 1) = 1..(m - 1) /\ \A i \in 1..(n - 1) : L(u[i]) = L(w[i])
      <3> DEFINE f == [i \in 1..(n - 1) |-> L(u[i])]
                 g == [i \in 1..(m - 1) |-> L(w[i])]
      <3>1. f = g BY <2>2, <2>3
      <3>2. DOMAIN f = 1..(n - 1) /\ DOMAIN g = 1..(m - 1) OBVIOUS
      <3>3. \A i \in 1..(n - 1) : f[i] = L(u[i]) OBVIOUS
      <3>4. \A i \in 1..(m - 1) : g[i] = L(w[i]) OBVIOUS
      <3> HIDE DEF f, g
      <3> QED BY <3>1, <3>2, <3>3, <3>4
    <2>5. n >= 2 /\ m >= 2 BY <2>1 DEF n, m
    <2>6. n = m
      <3>1. n - 1 \in 1..(n - 1) /\ m - 1 \in 1..(m - 1) BY <2>2, <2>5
      <3>2. n - 1 \in 1..(m - 1) /\ m - 1 \in 1..(n - 1) BY <2>4, <3>1
      <3> QED BY <2>2, <2>5, <3>2
    <2>7. ASSUME NEW i \in 1..n PROVE L(x[i]) = L(z[i])
      <3>1. CASE i = 1 BY <2>1, <2>2, <3>1
      <3>2. CASE i # 1
        <4> DEFINE j == i - 1
        <4>1. j \in 1..(n - 1) /\ i = j + 1 /\ j \in 1..(m - 1) BY <2>2, <2>6, <3>2
        <4> HIDE DEF j
        <4>2. L(u[j]) = L(w[j]) /\ u[j] = x[j + 1] /\ z[j + 1] = w[j] BY <2>2, <2>4, <4>1
        <4> QED BY <4>1, <4>2
      <3> QED BY <3>1, <3>2
    <2>8. [i \in 1..Len(x) |-> L(x[i])] = [i \in 1..Len(z) |-> L(z[i])]
      <3>1. Len(x) = n /\ Len(z) = n BY <2>2, <2>6 DEF n
      <3> QED BY <2>7, <3>1
    <2>9. SameName(x, z) BY <2>8, Zenon DEF SameName, s2n_blob_char_to_lower, L
    <2> QED BY <2>1, <2>9 DEF Covers, z
  <1> QED BY <1>1, <1>2

\* A name that was accepted is a name the certificate is for.
LEMMA AcceptedIsFor ==
    ASSUME NEW k \in DOMAIN Cert, NEW accepted, s2n_verify_host_information(Cert[k], accepted), ~NameUnread(Cert[k])
    PROVE  \E n \in accepted \cap ForNames(Cert[k]) : n \in Seq(STRING)
  <1> DEFINE cert == Cert[k]
             alt == {i \in 1..Len(cert.san) : cert.san[i][1] \in {"DNS", "IP"}}
             last == cert.cn[Len(cert.cn)]
             found == \E i \in 1..Len(cert.san) : cert.san[i][1] \in {"DNS", "IP"}
             sans == {SanName(cert.san[i]) : i \in 1..Len(cert.san)}
  <1>1. ForNames(cert) = sans \cup IF alt = {} /\ cert.cn # <<>> /\ Last(cert.cn)[1] = "UTF8"
                                   THEN {Last(cert.cn)[2]} ELSE {}
    BY Zenon DEF ForNames
  <1>2. Last(cert.cn) = last BY DEF Last
  <1>3. ~found => alt = {} OBVIOUS
  <1>4. /\ \A i \in 1..Len(cert.san) : SanName(cert.san[i]) \in Seq(STRING)
        /\ \A i \in 1..Len(cert.cn) : cert.cn[i][2] \in Seq(STRING)
    BY TableAssumption
  <1>5. \/ \E i \in 1..Len(cert.san) : SanName(cert.san[i]) \in accepted
        \/ ~found /\ cert.cn # <<>> /\ (last[1] = "LONG" \/ (last[1] = "UTF8" /\ last[2] \in accepted))
    BY Zenon DEF s2n_verify_host_information
  <1>6. CASE \E i \in 1..Len(cert.san) : SanName(cert.san[i]) \in accepted
    <2>1. PICK i \in 1..Len(cert.san) : SanName(cert.san[i]) \in accepted BY <1>6
    <2> DEFINE n == SanName(cert.san[i])
    <2>2. n \in sans /\ n \in accepted /\ n \in Seq(STRING) BY <1>4, <2>1
    <2> HIDE DEF n, sans
    <2>3. n \in ForNames(cert) BY <1>1, <2>2
    <2> QED BY <2>2, <2>3
  <1>7. CASE ~found /\ cert.cn # <<>> /\ (last[1] = "LONG" \/ (last[1] = "UTF8" /\ last[2] \in accepted))
    <2>1. Len(cert.cn) \in Nat /\ Len(cert.cn) \in 1..Len(cert.cn)
      BY <1>7, TableAssumption
    <2>2. last[1] # "LONG"
      <3>1. \A i \in 1..Len(cert.san) : cert.san[i][1] \notin {"DNS", "IP"} BY <1>7
      <3>2. cert.cn # <<>> BY <1>7
      <3> HIDE DEF last
      <3>3. last[1] = "LONG" => NameUnread(cert) BY <1>2, <3>1, <3>2, Zenon DEF NameUnread
      <3> QED BY <3>3
    <2>3. last[2] \in Seq(STRING) BY <1>4, <2>1
    <2>4. last[1] = "UTF8" /\ last[2] \in accepted BY <1>7, <2>2
    <2>5. last[2] \in ForNames(cert) BY <1>1, <1>2, <1>3, <1>7, <2>4
    <2> QED BY <2>3, <2>4, <2>5
  <1> QED BY <1>5, <1>6, <1>7

\* A name that s2n_verify_host_information accepts is one the certificate is for, if it was read.
LEMMA NameFits ==
    ASSUME NEW k \in DOMAIN Cert, NEW c, NEW g, c.server_name \in Seq(STRING),
           c.verify = IF c.overridden \/ g.verify_host THEN "callback" ELSE "default",
           s2n_verify_host_information(Cert[k], AcceptedNames(c, Cert[k]))
    PROVE  FitsName(c, g, Cert[k]) \/ NameUnread(Cert[k])
  <1> SUFFICES ASSUME ~NameUnread(Cert[k]) PROVE FitsName(c, g, Cert[k]) OBVIOUS
  <1>1. PICK n \in AcceptedNames(c, Cert[k]) \cap ForNames(Cert[k]) : n \in Seq(STRING) BY AcceptedIsFor
  <1>2. CASE c.overridden \/ g.verify_host
    <2>1. n \in scene.callback BY <1>1, <1>2 DEF AcceptedNames
    <2> QED BY <1>1, <1>2, <2>1 DEF FitsName
  <1>3. CASE ~(c.overridden \/ g.verify_host)
    <2>1. s2n_default_verify_host(n, c.server_name) BY <1>1, <1>3 DEF AcceptedNames
    <2>2. Covers(n, c.server_name) BY <1>1, <2>1, StarCovers
    <2>3. c.server_name # <<>> BY <2>1 DEF s2n_default_verify_host
    <2> QED BY <1>1, <1>3, <2>2, <2>3 DEF FitsName
  <1> QED BY <1>2, <1>3

-----------------------------------------------------------------------------
(***************************************************************************)
(* Times.  The offsets the conversion adds and takes away cancel out.      *)
(***************************************************************************)
TimeOK(time) ==
    /\ time.at \in Int /\ time.hours \in Nat /\ time.minutes \in Nat
    /\ time.zone \in {"local", "Z", "+", "-"}
    /\ time.zone = "Z" => time.hours = 0 /\ time.minutes = 0

\* The offsets cancel: the ticks are the instant that the time denotes, or an hour
\* more in the hour that is skipped (s2n_asn1_time_to_nano_since_epoch_ticks).
LEMMA TicksRead ==
    ASSUME NEW time, TimeOK(time), NEW t \in Nat,
           s2n_asn1_time_to_nano_since_epoch_ticks(time, t) # Bad
    PROVE  s2n_asn1_time_to_nano_since_epoch_ticks(time, t) = ReadAs(time) /\ ReadAs(time) \in Int
  <1> DEFINE data == mktime(time.at)
             written == (60 * time.hours + time.minutes) * (IF time.zone = "-" THEN -1 ELSE 1)
             offset == IF time.zone = "local" THEN 0
                       ELSE written - GmtOff(t) - 60 * (IsDst(data) - IsDst(t))
             r == s2n_asn1_time_to_nano_since_epoch_ticks(time, t)
             h == 60 * time.hours + time.minutes
             a == time.at
  <1>0. time.at \in Int /\ time.hours \in Nat /\ time.minutes \in Nat /\ h \in Nat BY DEF TimeOK
  <1>1. r = data - offset BY DEF s2n_asn1_time_to_nano_since_epoch_ticks
  <1>2. Zone.base \in Int /\ Zone.from \in Int /\ Zone.until \in Int BY TimeAssumption
  <1>3. \A i \in Int : IsDst(i) \in {0, 1} BY DEF IsDst
  <1>4. data = IF IsDst(a - Zone.base - 60) = 1 THEN a - Zone.base - 60 ELSE a - Zone.base BY DEF mktime
  <1>5. GmtOff(t) = Zone.base + (60 * IsDst(t)) BY DEF GmtOff
  <1>6. IsDst(t) \in {0, 1} BY <1>3
  <1>7. data \in Int BY <1>0, <1>2, <1>4
  <1>8. CASE time.zone = "local"
    <2>1. offset = 0 BY <1>8
    <2>3. Denotes(time) = data BY <1>8 DEF Denotes
    <2>2. ReadAs(time) = data
      <3>1. ~Skipped(time) BY <1>8 DEF Skipped
      <3> HIDE DEF data
      <3> QED BY <1>7, <2>3, <3>1 DEF ReadAs
    <2> HIDE DEF data, offset, r
    <2> QED BY <1>1, <1>7, <2>1, <2>2 DEF r
  <1>9. CASE time.zone # "local"
    <2>1. time.zone \in {"Z", "+", "-"} BY <1>9 DEF TimeOK
    <2>2. Skipped(time) <=> IsDst(a - Zone.base) = 1 /\ IsDst(a - Zone.base - 60) # 1 BY <2>1 DEF Skipped
    <2> DEFINE slip == IF Skipped(time) THEN 60 ELSE 0
    <2>3. written = IF time.zone = "-" THEN -h ELSE h BY <1>0
    <2>4. Denotes(time) = a - written
      <3>1. CASE time.zone = "Z"
        <4>1. h = 0 BY <3>1 DEF TimeOK
        <4> QED BY <1>0, <2>3, <3>1, <4>1 DEF Denotes
      <3>2. CASE time.zone = "+" BY <1>0, <2>3, <3>2 DEF Denotes
      <3>3. CASE time.zone = "-" BY <1>0, <2>3, <3>3 DEF Denotes
      <3> QED BY <2>1, <3>1, <3>2, <3>3
    <2>5. offset = written - GmtOff(t) - 60 * (IsDst(data) - IsDst(t)) BY <1>9
    <2>6. written \in Int BY <1>0, <2>3
    <2>7. data - Zone.base \in Int /\ a - Zone.base - 60 \in Int /\ a - Zone.base \in Int BY <1>0, <1>2, <1>7
    <2>8. IsDst(a - Zone.base - 60) \in {0, 1} /\ IsDst(a - Zone.base) \in {0, 1} /\ IsDst(data) \in {0, 1}
      BY <1>3, <1>7, <2>7
    <2>9. data + Zone.base + 60 * IsDst(data) = a + slip
      <3>1. CASE IsDst(a - Zone.base - 60) = 1
        <4>1. data = a - Zone.base - 60 BY <1>4, <3>1
        <4>2. IsDst(data) = 1 BY <3>1, <4>1
        <4>3. slip = 0 BY <2>2, <3>1
        <4> HIDE DEF data, slip
        <4> QED BY <1>0, <1>2, <4>1, <4>2, <4>3
      <3>2. CASE IsDst(a - Zone.base - 60) # 1
        <4>1. data = a - Zone.base BY <1>4, <3>2
        <4>2. IsDst(data) = IsDst(a - Zone.base) BY <4>1
        <4>3. (slip = 60 /\ IsDst(data) = 1) \/ (slip = 0 /\ IsDst(data) = 0) BY <2>2, <2>8, <3>2, <4>2
        <4> HIDE DEF data, slip
        <4> QED BY <1>0, <1>2, <4>1, <4>3
      <3> QED BY <3>1, <3>2
    <2> DEFINE d == IsDst(data)
               p == IsDst(t)
               b == Zone.base
               g == GmtOff(t)
    <2>10. d \in Int /\ p \in Int /\ b \in Int BY <1>2, <1>6, <2>8
    <2>11. r = data - offset /\ offset = written - g - 60 * (d - p) /\ g = b + 60 * p /\ data + b + 60 * d = a + slip
      BY <1>1, <1>5, <2>5, <2>9
    <2>14. a \in Int /\ slip \in Int BY <1>0
    <2>15. ReadAs(time) = Denotes(time) + slip BY DEF ReadAs
    <2> HIDE DEF data, offset, r, written, h, a, d, p, b, g, slip
    <2>12. g \in Int BY <2>10, <2>11
    <2>13. r = a - written + slip BY <1>7, <2>6, <2>10, <2>11, <2>12, <2>14
    <2> QED BY <2>4, <2>6, <2>13, <2>14, <2>15 DEF r
  <1> QED BY <1>8, <1>9

\* A response that passes for current is current, as its times are read.
LEMMA CurrentRead ==
    ASSUME NEW x \in DOMAIN Response, NEW t \in Nat, Current(x, t)
    PROVE  /\ ReadAs(Response[x].this) <= t
           /\ t <= IF Response[x].next.zone = "absent" THEN ReadAs(Response[x].this) + 60
                   ELSE ReadAs(Response[x].next)
  <1> DEFINE r == Response[x]
             u == s2n_asn1_time_to_nano_since_epoch_ticks(r.this, t)
             w == s2n_asn1_time_to_nano_since_epoch_ticks(r.next, t)
  <1>1. /\ u # Bad /\ u <= t
        /\ r.next.zone = "absent" => t <= u + 60
        /\ r.next.zone # "absent" => w # Bad /\ t <= w
    BY Zenon DEF Current
  <1>2. TimeOK(r.this) /\ (r.next.zone # "absent" => TimeOK(r.next)) BY TimeAssumption DEF TimeOK
  <1>4. u = ReadAs(r.this) BY <1>1, <1>2, TicksRead
  <1>5. r.next.zone # "absent" => w = ReadAs(r.next) BY <1>1, <1>2, TicksRead
  <1> HIDE DEF u, w, r
  <1>6. /\ ReadAs(r.this) <= t
        /\ t <= IF r.next.zone = "absent" THEN ReadAs(r.this) + 60 ELSE ReadAs(r.next)
    BY <1>1, <1>4, <1>5
  <1> QED BY <1>6 DEF r
-----------------------------------------------------------------------------
(***************************************************************************)
(* Validation.  Backed is what the store context holds for a validator     *)
(* that has validated a chain, Sound what has been established then: all   *)
(* of Trustworthy but the response.                                        *)
(***************************************************************************)
StoreType == [null : BOOLEAN, certs : SUBSET DOMAIN Cert, partial : BOOLEAN]
ValidatorType ==
    [state : {"INIT", "VALIDATED", "OCSP_VALIDATED", "FAILED"}, skip : BOOLEAN, check_ocsp : BOOLEAN,
     depth : Nat, path : Seq(DOMAIN Cert)]

Backed(v, store, certs, t) ==
    /\ v.state = "VALIDATED" /\ v.path # <<>> /\ GoodPath(v.path, store, certs, t)
    /\ Anchor(store, v.path[Len(v.path)])

Sound(c, g, certs, t) ==
    /\ ~g.store.null /\ Len(certs) <= Depth(g)
    /\ certs[1] \in Certified(g.store, certs, t)
    /\ \A i \in 1..Len(certs) : s2n_validate_certificate_signature(certs[i])
    /\ FitsName(c, g, Cert[certs[1]]) \/ NameUnread(Cert[certs[1]])

\* The names are compared by the function the settings ask for.
Comparing(c, g) == c.verify = IF c.overridden \/ g.verify_host THEN "callback" ELSE "default"

\* All that may be in a path is in the table, and there is no end of room for it.
LEMMA KnownFinite ==
    ASSUME NEW store \in StoreType, NEW certs \in Seq(DOMAIN Cert)
    PROVE  Known(store, certs) \subseteq DOMAIN Cert /\ IsFiniteSet(Known(store, certs))
  <1>1. Known(store, certs) \subseteq DOMAIN Cert BY DEF Known, StoreType, ToSet
  <1>2. IsFiniteSet(DOMAIN Cert) BY TableAssumption
  <1> QED BY <1>1, <1>2, FS_Subset

\* A path that X509_verify_cert reports.
LEMMA PathFound ==
    ASSUME NEW store \in StoreType, NEW certs \in Seq(DOMAIN Cert), certs # <<>>, NEW depth, NEW t,
           NEW p, p = X509_verify_cert(store, certs, depth, t)
    PROVE  /\ p \in Seq(DOMAIN Cert)
           /\ p # <<>> => /\ GoodPath(p, store, certs, t) /\ Anchor(store, p[Len(p)])
                          /\ certs[1] \in Certified(store, certs, t)
  <1> DEFINE q == LongestPath(store, certs, t)
  <1>1. p = IF q # <<>> /\ Anchor(store, q[Len(q)]) /\ Len(q) <= depth + 2 THEN q ELSE <<>>
    BY Zenon DEF X509_verify_cert
  <1>2. GoodPath(q, store, certs, t) BY LongestGood
  <1> HIDE DEF q
  <1>3. Known(store, certs) \subseteq DOMAIN Cert /\ IsFiniteSet(Known(store, certs)) BY KnownFinite
  <1>4. q \in Seq(DOMAIN Cert) BY <1>2, <1>3 DEF GoodPath
  <1>5. CASE p = <<>> BY <1>5
  <1>6. CASE p # <<>>
    <2>1. p = q /\ Anchor(store, p[Len(p)]) BY <1>1, <1>6
    <2>2. GoodPath(p, store, certs, t) BY <1>2, <2>1
    <2>3. certs[1] \in Certified(store, certs, t) BY <1>3, <1>6, <2>1, <2>2, PathCertified
    <2> QED BY <1>4, <2>1, <2>2, <2>3
  <1> QED BY <1>5, <1>6

\* What the validator is after a chain was shown to it.
LEMMA ChainType ==
    ASSUME NEW c, NEW e, NEW certs \in Seq(DOMAIN Cert), c.v \in ValidatorType, Config(c, e).store \in StoreType,
           NEW w, w = s2n_x509_validator_validate_cert_chain(c, e, certs)
    PROVE  w \in ValidatorType /\ w.skip = c.v.skip /\ w.check_ocsp = c.v.check_ocsp /\ w.depth = c.v.depth
  <1> DEFINE v == c.v
             store == Config(c, e).store
             m == IF Len(certs) < v.depth THEN Len(certs) ELSE v.depth
             read == SubSeq(certs, 1, m)
             path == X509_verify_cert(store, read, v.depth, now)
             checks == /\ \A i \in 1..Len(read) : s2n_validate_certificate_signature(read[i])
                       /\ Len(read) = Len(certs)
                       /\ c.verify = "null"
                          \/ s2n_verify_host_information(Cert[read[1]], AcceptedNames(c, Cert[read[1]]))
                       /\ path # <<>>
  <1>1. w = IF (~v.skip /\ store.null) \/ v.state # "INIT" \/ read = <<>> THEN Failed(v)
            ELSE IF v.skip THEN v
            ELSE IF checks THEN [v EXCEPT !.state = "VALIDATED", !.path = path] ELSE Failed(v)
    BY Zenon DEF s2n_x509_validator_validate_cert_chain
  <1>2. v \in ValidatorType /\ store \in StoreType OBVIOUS
  <1>3. m \in Nat /\ m <= Len(certs) /\ read \in Seq(DOMAIN Cert)
    <2>1. v.depth \in Nat BY DEF ValidatorType
    <2>2. Len(certs) \in Nat OBVIOUS
    <2>3. m \in Nat /\ m <= Len(certs) BY <2>1, <2>2
    <2> HIDE DEF m
    <2> QED BY <2>2, <2>3
  <1> HIDE DEF v, store, m, read, checks
  <1>4. read # <<>> => path \in Seq(DOMAIN Cert) BY <1>2, <1>3, PathFound
  <1> HIDE DEF path
  <1>5. LET z == Failed(v)
        IN z \in ValidatorType /\ z.skip = v.skip /\ z.check_ocsp = v.check_ocsp /\ z.depth = v.depth
    BY <1>2 DEF Failed, ValidatorType
  <1>6. read # <<>> => LET z == [v EXCEPT !.state = "VALIDATED", !.path = path]
                       IN z \in ValidatorType /\ z.skip = v.skip /\ z.check_ocsp = v.check_ocsp /\ z.depth = v.depth
    BY <1>2, <1>4 DEF ValidatorType
  <1>7. w \in ValidatorType /\ w.skip = v.skip /\ w.check_ocsp = v.check_ocsp /\ w.depth = v.depth
    BY <1>1, <1>2, <1>5, <1>6
  <1> QED BY <1>7 DEF v

\* A chain that passes is sound.
LEMMA ChainSound ==
    ASSUME NEW c, NEW e, NEW g, g = Config(c, e), NEW certs \in Seq(DOMAIN Cert),
           c.v \in ValidatorType, g.store \in StoreType, ~c.v.skip, c.v.depth = Depth(g),
           Comparing(c, g), c.server_name \in Seq(STRING),
           NEW w, w = s2n_x509_validator_validate_cert_chain(c, e, certs), w.state # "FAILED"
    PROVE  Sound(c, g, certs, now) /\ Backed(w, g.store, certs, now)
  <1> DEFINE v == c.v
             store == g.store
             m == IF Len(certs) < v.depth THEN Len(certs) ELSE v.depth
             read == SubSeq(certs, 1, m)
             path == X509_verify_cert(store, read, v.depth, now)
             checks == /\ \A i \in 1..Len(read) : s2n_validate_certificate_signature(read[i])
                       /\ Len(read) = Len(certs)
                       /\ c.verify = "null"
                          \/ s2n_verify_host_information(Cert[read[1]], AcceptedNames(c, Cert[read[1]]))
                       /\ path # <<>>
  <1>1. w = IF (~v.skip /\ store.null) \/ v.state # "INIT" \/ read = <<>> THEN Failed(v)
            ELSE IF v.skip THEN v
            ELSE IF checks THEN [v EXCEPT !.state = "VALIDATED", !.path = path] ELSE Failed(v)
    BY Zenon DEF s2n_x509_validator_validate_cert_chain
  <1>2. v \in ValidatorType /\ ~v.skip /\ store \in StoreType /\ v.depth = Depth(g) OBVIOUS
  <1>3. Failed(v).state = "FAILED" BY <1>2 DEF Failed, ValidatorType
  <1>4. /\ ~store.null /\ read # <<>> /\ checks
        /\ w = [v EXCEPT !.state = "VALIDATED", !.path = path]
    <2> HIDE DEF v, store, read, checks, path
    <2> QED BY <1>1, <1>2, <1>3
  <1>5. read = certs /\ Len(certs) <= v.depth
    <2>1. v.depth \in Nat BY <1>2 DEF ValidatorType
    <2>2. Len(certs) \in Nat OBVIOUS
    <2>3. m \in Nat /\ m <= Len(certs) /\ m <= v.depth BY <2>1, <2>2
    <2>4. Len(read) = Len(certs) BY <1>4
    <2> HIDE DEF m, v
    <2>5. Len(read) = m BY <2>2, <2>3
    <2>6. m = Len(certs) BY <2>4, <2>5
    <2>7. read = certs BY <2>6
    <2> QED BY <2>1, <2>2, <2>3, <2>6, <2>7
  <1>6. /\ \A i \in 1..Len(certs) : s2n_validate_certificate_signature(certs[i])
        /\ c.verify = "null" \/ s2n_verify_host_information(Cert[certs[1]], AcceptedNames(c, Cert[certs[1]]))
        /\ path # <<>>
    BY <1>4, <1>5
  <1>7. path = X509_verify_cert(store, certs, v.depth, now) /\ certs # <<>> BY <1>4, <1>5
  <1>8. w.state = "VALIDATED" /\ w.path = path BY <1>2, <1>4 DEF ValidatorType
  <1> HIDE DEF v, store, m, read, path, checks
  <1>9. /\ GoodPath(path, store, certs, now) /\ Anchor(store, path[Len(path)])
        /\ certs[1] \in Certified(store, certs, now)
    BY <1>2, <1>6, <1>7, PathFound
  <1>10. c.verify # "null" BY DEF Comparing
  <1>11. certs[1] \in DOMAIN Cert BY <1>7
  <1>12. FitsName(c, g, Cert[certs[1]]) \/ NameUnread(Cert[certs[1]]) BY <1>6, <1>10, <1>11, NameFits DEF Comparing
  <1>13. Sound(c, g, certs, now) BY <1>2, <1>4, <1>5, <1>6, <1>9, <1>12 DEF Sound, store
  <1>14. Backed(w, g.store, certs, now) BY <1>6, <1>8, <1>9 DEF Backed, store
  <1> QED BY <1>13, <1>14

\* What the validator is after a response was shown to it.
LEMMA ResponseType ==
    ASSUME NEW v \in ValidatorType, NEW response,
           NEW w, w = s2n_x509_validator_validate_cert_stapled_ocsp_response(v, response)
    PROVE  w \in ValidatorType /\ w.skip = v.skip /\ w.check_ocsp = v.check_ocsp /\ w.depth = v.depth
  <1> DEFINE z == [v EXCEPT !.state = "OCSP_VALIDATED"]
  <1>1. w = z \/ w = Failed(v) BY Zenon DEF s2n_x509_validator_validate_cert_stapled_ocsp_response
  <1>2. z \in ValidatorType /\ z.skip = v.skip /\ z.check_ocsp = v.check_ocsp /\ z.depth = v.depth
    BY DEF ValidatorType
  <1>3. LET f == Failed(v)
        IN f \in ValidatorType /\ f.skip = v.skip /\ f.check_ocsp = v.check_ocsp /\ f.depth = v.depth
    BY DEF Failed, ValidatorType
  <1> HIDE DEF z
  <1> QED BY <1>1, <1>2, <1>3

\* A response that passes vouches for the leaf.
LEMMA ResponseVouches ==
    ASSUME NEW store \in StoreType, NEW certs \in Seq(DOMAIN Cert), NEW t,
           NEW v \in ValidatorType, ~v.skip, v.check_ocsp, Backed(v, store, certs, t),
           NEW response \in DOMAIN Response, now \in Nat,
           s2n_x509_validator_validate_cert_stapled_ocsp_response(v, response).state # "FAILED"
    PROVE  Vouches(response, certs[1], store, certs, t, now)
  <1> DEFINE r == Response[response]
             p == v.path
             leaf == certs[1]
             issuers == {i \in ToSet(v.path) : Cert[v.path[1]].issuer = Cert[i].subject}
             checks == /\ v.state = "VALIDATED" /\ response # None
                       /\ \E i \in issuers : r.signer = Cert[i].key
                       /\ r.about = v.path[1]
                       /\ Current(response, now) /\ r.status = "GOOD"
             w == s2n_x509_validator_validate_cert_stapled_ocsp_response(v, response)
  <1>1. w = IF v.skip \/ ~v.check_ocsp THEN [v EXCEPT !.state = "OCSP_VALIDATED"]
            ELSE IF checks THEN [v EXCEPT !.state = "OCSP_VALIDATED"] ELSE Failed(v)
    BY Zenon DEF s2n_x509_validator_validate_cert_stapled_ocsp_response
  <1>2. Failed(v).state = "FAILED" BY DEF Failed, ValidatorType
  <1>3. checks
    <2>1. w.state # "FAILED" OBVIOUS
    <2> HIDE DEF checks, w
    <2> QED BY <1>1, <1>2, <2>1
  <1>4. p # <<>> /\ p \in Seq(Known(store, certs)) /\ Leads(p, certs, t) BY DEF Backed, GoodPath
  <1>5. p[1] = leaf /\ Len(p) \in Nat /\ Len(p) >= 1 BY <1>4 DEF Leads
  <1>6. r.about = leaf /\ r.status = "GOOD" /\ Current(response, now) BY <1>3, <1>5
  <1>7. PICK i \in ToSet(p) : Cert[p[1]].issuer = Cert[i].subject /\ r.signer = Cert[i].key BY <1>3
  <1>10. i \in Certified(store, certs, t)
    <2>1. IsFiniteSet(Known(store, certs)) BY KnownFinite
    <2>2. \A k \in 1..Len(p) : p[k] \in Certified(store, certs, t) BY <2>1, PathCertified DEF Backed
    <2> QED BY <1>7, <2>2 DEF ToSet
  <1>11. /\ ReadAs(r.this) <= now
         /\ now <= IF r.next.zone = "absent" THEN ReadAs(r.this) + 60 ELSE ReadAs(r.next)
    BY <1>6, CurrentRead
  <1>12. Cert[leaf].issuer = Cert[i].subject /\ r.signer = Cert[i].key BY <1>5, <1>7
  <1> HIDE DEF r, leaf, p
  <1> QED BY <1>6, <1>10, <1>11, <1>12, Zenon DEF Vouches, r, leaf
-----------------------------------------------------------------------------
(***************************************************************************)
(* The table of names.  A slot in use has a chain or none for each type.   *)
(***************************************************************************)
ByType == [ToSet(KeyTypes) -> DOMAIN Chain \cup {None}]
EntryOK(x) == DOMAIN x = {"key", "value"} /\ (x.key = <<>> \/ x.value \in ByType)
MapOK(m) ==
    /\ DOMAIN m = {"capacity", "size", "table", "immutable"}
    /\ m.capacity \in Nat /\ DOMAIN m.table = 0..(m.capacity - 1)
    /\ \A s \in 0..(m.capacity - 1) : EntryOK(m.table[s])

IsMovedRun(f, map, capacity, n) ==
    f = [i \in 0..n |-> IF i = 0 THEN s2n_map_new_with_initial_capacity(capacity)
                        ELSE Rehash(map, f[i - 1], i - 1)]

\* The run of s2n_map_embiggen, which moves the entries slot by slot.
LEMMA MovedRunAt ==
    ASSUME NEW f, NEW map, NEW capacity, NEW n \in Nat, IsMovedRun(f, map, capacity, n)
    PROVE  /\ f[0] = s2n_map_new_with_initial_capacity(capacity)
           /\ \A i \in 1..n : f[i] = Rehash(map, f[i - 1], i - 1)
  <1> DEFINE V(i) == IF i = 0 THEN s2n_map_new_with_initial_capacity(capacity) ELSE Rehash(map, f[i - 1], i - 1)
  <1>1. f = [i \in 0..n |-> V(i)] BY DEF IsMovedRun
  <1>2. V(0) = s2n_map_new_with_initial_capacity(capacity) OBVIOUS
  <1>3. \A i \in 1..n : V(i) = Rehash(map, f[i - 1], i - 1) OBVIOUS
  <1> HIDE DEF V
  <1>4. \A i \in 0..n : f[i] = V(i) BY <1>1
  <1> QED BY <1>2, <1>3, <1>4

\* What is moved step by step is such a run.
LEMMA MovedRunFrom ==
    ASSUME NEW f, NEW map, NEW capacity, NEW n \in Nat, IsTrail(f, n),
           f[0] = s2n_map_new_with_initial_capacity(capacity),
           \A i \in 1..n : f[i] = Rehash(map, f[i - 1], i - 1)
    PROVE  IsMovedRun(f, map, capacity, n)
  <1> DEFINE V(i) == IF i = 0 THEN s2n_map_new_with_initial_capacity(capacity) ELSE Rehash(map, f[i - 1], i - 1)
  <1>1. ASSUME NEW i \in 0..n PROVE f[i] = V(i)
    <2>1. CASE i = 0 BY <2>1
    <2>2. CASE i # 0
      <3>1. i \in 1..n BY <2>2
      <3>2. f[i] = Rehash(map, f[i - 1], i - 1) BY <3>1
      <3> QED BY <2>2, <3>2
    <2> QED BY <2>1, <2>2
  <1> HIDE DEF V
  <1>2. f = [i \in 0..n |-> V(i)] BY <1>1 DEF IsTrail
  <1> QED BY <1>2 DEF IsMovedRun, V

\* There is one of every length.
LEMMA MovedRunExists ==
    ASSUME NEW map, NEW capacity, NEW n \in Nat
    PROVE  \E f : IsMovedRun(f, map, capacity, n)
  <1> DEFINE S == {k \in Nat : \E f : IsMovedRun(f, map, capacity, k)}
  <1>1. 0 \in S
    <2> DEFINE f == [i \in 0..0 |-> s2n_map_new_with_initial_capacity(capacity)]
    <2>1. IsTrail(f, 0) /\ f[0] = s2n_map_new_with_initial_capacity(capacity) BY DEF IsTrail
    <2> HIDE DEF f
    <2>2. IsMovedRun(f, map, capacity, 0) BY <2>1, MovedRunFrom
    <2> QED BY <2>2
  <1>2. ASSUME NEW k \in Nat, k \in S PROVE k + 1 \in S
    <2>1. PICK f : IsMovedRun(f, map, capacity, k) BY <1>2
    <2>2. /\ f[0] = s2n_map_new_with_initial_capacity(capacity)
          /\ \A i \in 1..k : f[i] = Rehash(map, f[i - 1], i - 1)
      BY <2>1, MovedRunAt
    <2> DEFINE m == k + 1
               z == Rehash(map, f[k], m - 1)
               g == [i \in 0..m |-> IF i <= k THEN f[i] ELSE z]
    <2>3. m \in Nat /\ m - 1 = k OBVIOUS
    <2>4. IsTrail(g, m) /\ g[0] = s2n_map_new_with_initial_capacity(capacity) BY <2>2 DEF IsTrail
    <2> HIDE DEF z
    <2>5. \A i \in 1..m : g[i] = Rehash(map, g[i - 1], i - 1)
      <3> SUFFICES ASSUME NEW i \in 1..m PROVE g[i] = Rehash(map, g[i - 1], i - 1) OBVIOUS
      <3>1. g[i - 1] = f[i - 1] OBVIOUS
      <3>2. CASE i <= k
        <4>1. g[i] = f[i] /\ i \in 1..k BY <3>2
        <4>2. f[i] = Rehash(map, f[i - 1], i - 1) BY <2>2, <4>1
        <4> HIDE DEF g
        <4> QED BY <3>1, <4>1, <4>2
      <3>3. CASE ~(i <= k)
        <4>1. i = m /\ i - 1 = k /\ g[i] = z BY <3>3
        <4> HIDE DEF g, m
        <4> QED BY <3>1, <4>1 DEF z
      <3> QED BY <3>2, <3>3
    <2> HIDE DEF g, m
    <2>6. IsMovedRun(g, map, capacity, m) BY <2>3, <2>4, <2>5, MovedRunFrom
    <2> QED BY <2>3, <2>6 DEF m
  <1> HIDE DEF S
  <1>3. Nat \subseteq S BY <1>1, <1>2, SetInduction
  <1> QED BY <1>3 DEF S

\* So s2n_map_embiggen is the last of its run.
LEMMA MovedIs ==
    ASSUME NEW map, NEW capacity, map.capacity \in Nat
    PROVE  \E f : /\ f[0] = s2n_map_new_with_initial_capacity(capacity)
                  /\ \A i \in 1..map.capacity : f[i] = Rehash(map, f[i - 1], i - 1)
                  /\ s2n_map_embiggen(map, capacity) = f[map.capacity]
  <1> DEFINE n == map.capacity
             F == CHOOSE f : f = [i \in 0..map.capacity |-> IF i = 0 THEN s2n_map_new_with_initial_capacity(capacity)
                                                            ELSE Rehash(map, f[i - 1], i - 1)]
  <1>1. s2n_map_embiggen(map, capacity) = F[map.capacity] BY Zenon DEF s2n_map_embiggen
  <1>2. \E f : f = [i \in 0..map.capacity |-> IF i = 0 THEN s2n_map_new_with_initial_capacity(capacity)
                                              ELSE Rehash(map, f[i - 1], i - 1)]
    <2>1. n \in Nat OBVIOUS
    <2> HIDE DEF n
    <2>2. \E f : IsMovedRun(f, map, capacity, n) BY <2>1, MovedRunExists
    <2> QED BY <2>2, Zenon DEF IsMovedRun, n
  <1>3. F = [i \in 0..map.capacity |-> IF i = 0 THEN s2n_map_new_with_initial_capacity(capacity)
                                       ELSE Rehash(map, F[i - 1], i - 1)]
    BY <1>2, Zenon
  <1>4. IsMovedRun(F, map, capacity, n) BY <1>3, Zenon DEF IsMovedRun
  <1> HIDE DEF F
  <1>5. F[0] = s2n_map_new_with_initial_capacity(capacity) /\ \A i \in 1..n : F[i] = Rehash(map, F[i - 1], i - 1)
    BY <1>4, MovedRunAt
  <1> QED BY <1>1, <1>5

IsFilingRun(f, map, tiebreak, chain, names, n) ==
    f = [i \in 0..n |-> IF i = 0 THEN map
                        ELSE s2n_config_update_domain_name_to_cert_map(f[i - 1], tiebreak, names[i], chain)]

\* The run of s2n_config_build_domain_name_to_cert_map, name by name.
LEMMA FilingRunAt ==
    ASSUME NEW f, NEW map, NEW tiebreak, NEW chain, NEW names, NEW n \in Nat,
           IsFilingRun(f, map, tiebreak, chain, names, n)
    PROVE  /\ f[0] = map
           /\ \A i \in 1..n : f[i] = s2n_config_update_domain_name_to_cert_map(f[i - 1], tiebreak, names[i], chain)
  <1> DEFINE V(i) == IF i = 0 THEN map
                     ELSE s2n_config_update_domain_name_to_cert_map(f[i - 1], tiebreak, names[i], chain)
  <1>1. f = [i \in 0..n |-> V(i)] BY DEF IsFilingRun
  <1>2. V(0) = map OBVIOUS
  <1>3. \A i \in 1..n : V(i) = s2n_config_update_domain_name_to_cert_map(f[i - 1], tiebreak, names[i], chain) OBVIOUS
  <1> HIDE DEF V
  <1>4. \A i \in 0..n : f[i] = V(i) BY <1>1
  <1> QED BY <1>2, <1>3, <1>4

\* What is filed step by step is such a run.
LEMMA FilingRunFrom ==
    ASSUME NEW f, NEW map, NEW tiebreak, NEW chain, NEW names, NEW n \in Nat, IsTrail(f, n), f[0] = map,
           \A i \in 1..n : f[i] = s2n_config_update_domain_name_to_cert_map(f[i - 1], tiebreak, names[i], chain)
    PROVE  IsFilingRun(f, map, tiebreak, chain, names, n)
  <1> DEFINE V(i) == IF i = 0 THEN map
                     ELSE s2n_config_update_domain_name_to_cert_map(f[i - 1], tiebreak, names[i], chain)
  <1>1. ASSUME NEW i \in 0..n PROVE f[i] = V(i)
    <2>1. CASE i = 0 BY <2>1
    <2>2. CASE i # 0
      <3>1. i \in 1..n BY <2>2
      <3>2. f[i] = s2n_config_update_domain_name_to_cert_map(f[i - 1], tiebreak, names[i], chain) BY <3>1
      <3> QED BY <2>2, <3>2
    <2> QED BY <2>1, <2>2
  <1> HIDE DEF V
  <1>2. f = [i \in 0..n |-> V(i)] BY <1>1 DEF IsTrail
  <1> QED BY <1>2 DEF IsFilingRun, V

\* There is one of every length.
LEMMA FilingRunExists ==
    ASSUME NEW map, NEW tiebreak, NEW chain, NEW names, NEW n \in Nat
    PROVE  \E f : IsFilingRun(f, map, tiebreak, chain, names, n)
  <1> DEFINE S == {k \in Nat : \E f : IsFilingRun(f, map, tiebreak, chain, names, k)}
  <1>1. 0 \in S
    <2> DEFINE f == [i \in 0..0 |-> map]
    <2>1. IsTrail(f, 0) /\ f[0] = map BY DEF IsTrail
    <2> HIDE DEF f
    <2>2. IsFilingRun(f, map, tiebreak, chain, names, 0) BY <2>1, FilingRunFrom
    <2> QED BY <2>2
  <1>2. ASSUME NEW k \in Nat, k \in S PROVE k + 1 \in S
    <2>1. PICK f : IsFilingRun(f, map, tiebreak, chain, names, k) BY <1>2
    <2>2. /\ f[0] = map
          /\ \A i \in 1..k : f[i] = s2n_config_update_domain_name_to_cert_map(f[i - 1], tiebreak, names[i], chain)
      BY <2>1, FilingRunAt
    <2> DEFINE m == k + 1
               z == s2n_config_update_domain_name_to_cert_map(f[k], tiebreak, names[m], chain)
               g == [i \in 0..m |-> IF i <= k THEN f[i] ELSE z]
    <2>3. m \in Nat /\ m - 1 = k OBVIOUS
    <2>4. IsTrail(g, m) /\ g[0] = map BY <2>2 DEF IsTrail
    <2> HIDE DEF z
    <2>5. \A i \in 1..m : g[i] = s2n_config_update_domain_name_to_cert_map(g[i - 1], tiebreak, names[i], chain)
      <3> SUFFICES ASSUME NEW i \in 1..m
                   PROVE  g[i] = s2n_config_update_domain_name_to_cert_map(g[i - 1], tiebreak, names[i], chain)
        OBVIOUS
      <3>1. g[i - 1] = f[i - 1] OBVIOUS
      <3>2. CASE i <= k
        <4>1. g[i] = f[i] /\ i \in 1..k BY <3>2
        <4>2. f[i] = s2n_config_update_domain_name_to_cert_map(f[i - 1], tiebreak, names[i], chain) BY <2>2, <4>1
        <4> HIDE DEF g
        <4> QED BY <3>1, <4>1, <4>2
      <3>3. CASE ~(i <= k)
        <4>1. i = m /\ i - 1 = k /\ g[i] = z BY <3>3
        <4> HIDE DEF g, m
        <4> QED BY <3>1, <4>1 DEF z
      <3> QED BY <3>2, <3>3
    <2> HIDE DEF g, m
    <2>6. IsFilingRun(g, map, tiebreak, chain, names, m) BY <2>3, <2>4, <2>5, FilingRunFrom
    <2> QED BY <2>3, <2>6 DEF m
  <1> HIDE DEF S
  <1>3. Nat \subseteq S BY <1>1, <1>2, SetInduction
  <1> QED BY <1>3 DEF S

\* So the table is the last of its run.
LEMMA FilingIs ==
    ASSUME NEW map, NEW tiebreak, NEW chain, NEW names, Len(names) \in Nat,
           names = StoreNames(chain)
    PROVE  \E f : /\ f[0] = map
                  /\ \A i \in 1..Len(names) :
                        f[i] = s2n_config_update_domain_name_to_cert_map(f[i - 1], tiebreak, names[i], chain)
                  /\ s2n_config_build_domain_name_to_cert_map(map, tiebreak, chain) = f[Len(names)]
  <1> DEFINE n == Len(names)
             F == CHOOSE f : f = [i \in 0..Len(names) |-> IF i = 0 THEN map
                                                          ELSE s2n_config_update_domain_name_to_cert_map(f[i - 1], tiebreak, names[i], chain)]
  <1>1. s2n_config_build_domain_name_to_cert_map(map, tiebreak, chain) = F[Len(names)]
    BY Zenon DEF s2n_config_build_domain_name_to_cert_map
  <1>2. \E f : f = [i \in 0..Len(names) |-> IF i = 0 THEN map
                                            ELSE s2n_config_update_domain_name_to_cert_map(f[i - 1], tiebreak, names[i], chain)]
    <2>1. n \in Nat OBVIOUS
    <2> HIDE DEF n
    <2>2. \E f : IsFilingRun(f, map, tiebreak, chain, names, n) BY <2>1, FilingRunExists
    <2> QED BY <2>2, Zenon DEF IsFilingRun, n
  <1>3. F = [i \in 0..Len(names) |-> IF i = 0 THEN map
                                     ELSE s2n_config_update_domain_name_to_cert_map(F[i - 1], tiebreak, names[i], chain)]
    BY <1>2, Zenon
  <1>4. IsFilingRun(F, map, tiebreak, chain, names, n) BY <1>3, Zenon DEF IsFilingRun
  <1> HIDE DEF F
  <1>5. /\ F[0] = map
        /\ \A i \in 1..n : F[i] = s2n_config_update_domain_name_to_cert_map(F[i - 1], tiebreak, names[i], chain)
    BY <1>4, FilingRunAt
  <1> QED BY <1>1, <1>5

Keep(names, entry) ==
    IF entry[1] = "DNS" THEN Append(names, s2n_blob_char_to_lower(entry[2])) ELSE names

IsKeptRun(f, san, n) ==
    f = [i \in 0..n |-> IF i = 0 THEN <<>> ELSE Keep(f[i - 1], san[i])]

\* The run of s2n_cert_chain_and_key_load_sans, name by name.
LEMMA KeptRunAt ==
    ASSUME NEW f, NEW san, NEW n \in Nat, IsKeptRun(f, san, n)
    PROVE  f[0] = <<>> /\ \A i \in 1..n : f[i] = Keep(f[i - 1], san[i])
  <1> DEFINE V(i) == IF i = 0 THEN <<>> ELSE Keep(f[i - 1], san[i])
  <1>1. f = [i \in 0..n |-> V(i)] BY DEF IsKeptRun
  <1>2. V(0) = <<>> OBVIOUS
  <1>3. \A i \in 1..n : V(i) = Keep(f[i - 1], san[i]) OBVIOUS
  <1> HIDE DEF V
  <1>4. \A i \in 0..n : f[i] = V(i) BY <1>1
  <1> QED BY <1>2, <1>3, <1>4

\* What is kept step by step is such a run.
LEMMA KeptRunFrom ==
    ASSUME NEW f, NEW san, NEW n \in Nat, IsTrail(f, n), f[0] = <<>>,
           \A i \in 1..n : f[i] = Keep(f[i - 1], san[i])
    PROVE  IsKeptRun(f, san, n)
  <1> DEFINE V(i) == IF i = 0 THEN <<>> ELSE Keep(f[i - 1], san[i])
  <1>1. ASSUME NEW i \in 0..n PROVE f[i] = V(i)
    <2>1. CASE i = 0 BY <2>1
    <2>2. CASE i # 0
      <3>1. i \in 1..n BY <2>2
      <3>2. f[i] = Keep(f[i - 1], san[i]) BY <3>1
      <3> QED BY <2>2, <3>2
    <2> QED BY <2>1, <2>2
  <1> HIDE DEF V
  <1>2. f = [i \in 0..n |-> V(i)] BY <1>1 DEF IsTrail
  <1> QED BY <1>2 DEF IsKeptRun, V

\* There is one of every length.
LEMMA KeptRunExists ==
    ASSUME NEW san, NEW n \in Nat
    PROVE  \E f : IsKeptRun(f, san, n)
  <1> DEFINE S == {k \in Nat : \E f : IsKeptRun(f, san, k)}
  <1>1. 0 \in S
    <2> DEFINE f == [i \in 0..0 |-> <<>>]
    <2>1. IsTrail(f, 0) /\ f[0] = <<>> BY DEF IsTrail
    <2> HIDE DEF f
    <2>2. IsKeptRun(f, san, 0) BY <2>1, KeptRunFrom
    <2> QED BY <2>2
  <1>2. ASSUME NEW k \in Nat, k \in S PROVE k + 1 \in S
    <2>1. PICK f : IsKeptRun(f, san, k) BY <1>2
    <2>2. f[0] = <<>> /\ \A i \in 1..k : f[i] = Keep(f[i - 1], san[i]) BY <2>1, KeptRunAt
    <2> DEFINE m == k + 1
               z == Keep(f[k], san[m])
               g == [i \in 0..m |-> IF i <= k THEN f[i] ELSE z]
    <2>3. m \in Nat /\ m - 1 = k OBVIOUS
    <2>4. IsTrail(g, m) /\ g[0] = <<>> BY <2>2 DEF IsTrail
    <2> HIDE DEF z
    <2>5. \A i \in 1..m : g[i] = Keep(g[i - 1], san[i])
      <3> SUFFICES ASSUME NEW i \in 1..m PROVE g[i] = Keep(g[i - 1], san[i]) OBVIOUS
      <3>1. g[i - 1] = f[i - 1] OBVIOUS
      <3>2. CASE i <= k
        <4>1. g[i] = f[i] /\ i \in 1..k BY <3>2
        <4>2. f[i] = Keep(f[i - 1], san[i]) BY <2>2, <4>1
        <4> HIDE DEF g
        <4> QED BY <3>1, <4>1, <4>2
      <3>3. CASE ~(i <= k)
        <4>1. i = m /\ i - 1 = k /\ g[i] = z BY <3>3
        <4> HIDE DEF g, m
        <4> QED BY <3>1, <4>1 DEF z
      <3> QED BY <3>2, <3>3
    <2> HIDE DEF g, m
    <2>6. IsKeptRun(g, san, m) BY <2>3, <2>4, <2>5, KeptRunFrom
    <2> QED BY <2>3, <2>6 DEF m
  <1> HIDE DEF S
  <1>3. Nat \subseteq S BY <1>1, <1>2, SetInduction
  <1> QED BY <1>3 DEF S

\* So the list of names is the last of its run.
LEMMA KeptIs ==
    ASSUME NEW san, Len(san) \in Nat, NEW chain, san = Leaf(chain).san
    PROVE  \E f : /\ f[0] = <<>> /\ \A i \in 1..Len(san) : f[i] = Keep(f[i - 1], san[i])
                  /\ s2n_cert_chain_and_key_load_sans(chain) = f[Len(san)]
  <1> DEFINE n == Len(san)
             F == CHOOSE f : f = [i \in 0..Len(san) |-> IF i = 0 THEN <<>> ELSE Keep(f[i - 1], san[i])]
  <1>1. s2n_cert_chain_and_key_load_sans(chain) = F[Len(san)] BY Zenon DEF s2n_cert_chain_and_key_load_sans, Keep
  <1>2. \E f : f = [i \in 0..Len(san) |-> IF i = 0 THEN <<>> ELSE Keep(f[i - 1], san[i])]
    <2>1. n \in Nat OBVIOUS
    <2> HIDE DEF n
    <2>2. \E f : IsKeptRun(f, san, n) BY <2>1, KeptRunExists
    <2> QED BY <2>2, Zenon DEF IsKeptRun, n
  <1>3. F = [i \in 0..Len(san) |-> IF i = 0 THEN <<>> ELSE Keep(F[i - 1], san[i])] BY <1>2, Zenon
  <1>4. IsKeptRun(F, san, n) BY <1>3, Zenon DEF IsKeptRun
  <1> HIDE DEF F
  <1>5. F[0] = <<>> /\ \A i \in 1..n : F[i] = Keep(F[i - 1], san[i]) BY <1>4, KeptRunAt
  <1> QED BY <1>1, <1>5

\* Putting an entry into a slot, whether there is one or not.
LEMMA PutOK ==
    ASSUME NEW m, MapOK(m), NEW slot, NEW x, EntryOK(x)
    PROVE  MapOK([m EXCEPT !.table[slot] = x, !.size = @ + 1])
  <1> DEFINE T == [m.table EXCEPT ![slot] = x]
             z == [m EXCEPT !.table[slot] = x, !.size = @ + 1]
  <1>1. /\ DOMAIN m = {"capacity", "size", "table", "immutable"} /\ m.capacity \in Nat
        /\ DOMAIN m.table = 0..(m.capacity - 1)
        /\ \A s \in 0..(m.capacity - 1) : EntryOK(m.table[s])
    BY DEF MapOK
  <1>2. DOMAIN z = DOMAIN m /\ z.capacity = m.capacity /\ z.table = T BY <1>1
  <1>3. DOMAIN T = DOMAIN m.table /\ \A s \in DOMAIN m.table : T[s] = IF s = slot THEN x ELSE m.table[s]
    OBVIOUS
  <1> HIDE DEF T, z
  <1>4. ASSUME NEW s \in 0..(m.capacity - 1) PROVE EntryOK(T[s]) BY <1>1, <1>3
  <1>5. MapOK(z) BY <1>1, <1>2, <1>3, <1>4 DEF MapOK
  <1> QED BY <1>5 DEF z

\* A new table.
LEMMA NewMapOK ==
    ASSUME NEW n \in Nat
    PROVE  MapOK(s2n_map_new_with_initial_capacity(n))
  <1> DEFINE m == s2n_map_new_with_initial_capacity(n)
             T == EmptyTable(n)
  <1>1. m = [capacity |-> n, size |-> 0, table |-> T, immutable |-> FALSE]
    BY DEF s2n_map_new_with_initial_capacity
  <1>2. T = [i \in 0..(n - 1) |-> Free] BY DEF EmptyTable
  <1>3. EntryOK(Free) BY DEF EntryOK, Free
  <1> HIDE DEF T, m
  <1>4. DOMAIN T = 0..(n - 1) /\ \A s \in 0..(n - 1) : T[s] = Free BY <1>2
  <1>5. m.table = T /\ m.capacity = n /\ DOMAIN m = {"capacity", "size", "table", "immutable"} BY <1>1
  <1>6. MapOK(m) BY <1>3, <1>4, <1>5 DEF MapOK
  <1> QED BY <1>6 DEF m

\* The table of a call that fails.
LEMMA NoMapOK == MapOK(NoMap)
  <1>1. DOMAIN NoMap = {"capacity", "size", "table", "immutable"} /\ NoMap.capacity = 0 /\ NoMap.table = <<>>
    BY DEF NoMap
  <1>2. DOMAIN <<>> = {} /\ 0..(0 - 1) = {} OBVIOUS
  <1> QED BY <1>1, <1>2 DEF MapOK

\* Completing and unlocking.
LEMMA LockOK ==
    ASSUME NEW m, MapOK(m)
    PROVE  MapOK(s2n_map_complete(m)) /\ MapOK(s2n_map_unlock(m))
  <1>1. DOMAIN m = {"capacity", "size", "table", "immutable"} BY DEF MapOK
  <1> DEFINE Z(b) == [m EXCEPT !.immutable = b]
  <1>2. ASSUME NEW b PROVE MapOK(Z(b))
    <2>1. DOMAIN Z(b) = DOMAIN m /\ Z(b).capacity = m.capacity /\ Z(b).table = m.table BY <1>1
    <2> HIDE DEF Z
    <2> QED BY <2>1 DEF MapOK
  <1>3. s2n_map_complete(m) = Z(TRUE) /\ s2n_map_unlock(m) = Z(FALSE) BY DEF s2n_map_complete, s2n_map_unlock
  <1> HIDE DEF Z
  <1> QED BY <1>2, <1>3

\* A larger table, with the entries moved (s2n_map_embiggen).
LEMMA EmbiggenOK ==
    ASSUME NEW m, MapOK(m), NEW c \in Nat
    PROVE  MapOK(s2n_map_embiggen(m, c))
  <1> DEFINE N == m.capacity
  <1>1. N \in Nat /\ \A s \in 0..(N - 1) : EntryOK(m.table[s]) BY DEF MapOK
  <1>2. PICK f : /\ f[0] = s2n_map_new_with_initial_capacity(c)
                 /\ \A i \in 1..N : f[i] = Rehash(m, f[i - 1], i - 1)
                 /\ s2n_map_embiggen(m, c) = f[N]
    BY <1>1, MovedIs
  <1> HIDE DEF N
  <1> DEFINE S == {k \in Nat : k <= N => MapOK(f[k])}
  <1>3. 0 \in S BY <1>2, NewMapOK
  <1>4. ASSUME NEW k \in Nat, k \in S PROVE k + 1 \in S
    <2> SUFFICES ASSUME k + 1 <= N PROVE MapOK(f[k + 1]) OBVIOUS
    <2>1. k + 1 \in 1..N /\ (k + 1) - 1 = k /\ k \in 0..(N - 1) /\ MapOK(f[k]) BY <1>1, <1>4
    <2>2. f[k + 1] = Rehash(m, f[k], k) BY <1>2, <2>1
    <2> DEFINE x == m.table[k]
               new == f[k]
    <2>3. EntryOK(x) BY <1>1, <2>1
    <2>4. Rehash(m, new, k) = IF x.key = <<>> THEN new
                              ELSE [new EXCEPT !.table[Probe(new, x.key)] = x, !.size = @ + 1]
      BY Zenon DEF Rehash
    <2>5. MapOK(new) BY <2>1
    <2> HIDE DEF x, new
    <2>6. MapOK([new EXCEPT !.table[Probe(new, x.key)] = x, !.size = @ + 1]) BY <2>3, <2>5, PutOK
    <2>7. MapOK(Rehash(m, new, k)) BY <2>4, <2>5, <2>6
    <2> QED BY <2>2, <2>7 DEF new
  <1> HIDE DEF S
  <1>5. Nat \subseteq S BY <1>3, <1>4, SetInduction
  <1>6. MapOK(f[N]) BY <1>1, <1>5 DEF S
  <1> QED BY <1>2, <1>6

\* A name that is not in the table yet (s2n_map_add).
LEMMA AddOK ==
    ASSUME NEW m, MapOK(m), NEW key, NEW value \in ByType
    PROVE  MapOK(s2n_map_add(m, key, value))
  <1> DEFINE g == Grown(m)
             slot == Probe(g, key)
             x == [key |-> key, value |-> value]
             z == [g EXCEPT !.table[slot] = x, !.size = @ + 1]
  <1>1. s2n_map_add(m, key, value) = NoMap \/ s2n_map_add(m, key, value) = z BY Zenon DEF s2n_map_add
  <1>2. MapOK(g)
    <2>1. m.capacity \in Nat BY DEF MapOK
    <2>2. 2 * m.capacity \in Nat BY <2>1
    <2>3. MapOK(s2n_map_embiggen(m, 2 * m.capacity)) BY <2>2, EmbiggenOK
    <2> QED BY <2>3 DEF Grown
  <1>3. EntryOK(x) BY DEF EntryOK
  <1> HIDE DEF g, slot, x
  <1>4. MapOK(z) BY <1>2, <1>3, PutOK
  <1> QED BY <1>1, <1>4, NoMapOK

\* A chain where there was none.
LEMMA OneOfAType ==
    ASSUME NEW t, NEW chain \in DOMAIN Chain
    PROVE  NoCerts \in ByType /\ [NoCerts EXCEPT ![t] = chain] \in ByType
  BY DEF NoCerts, ByType

\* One name of a chain (s2n_config_update_domain_name_to_cert_map).
LEMMA UpdateOK ==
    ASSUME NEW m, MapOK(m), NEW tiebreak, NEW name, NEW chain \in DOMAIN Chain
    PROVE  MapOK(s2n_config_update_domain_name_to_cert_map(m, tiebreak, name, chain))
  <1> DEFINE slot == s2n_map_lookup(m, name)
             t == Leaf(chain).kind
             new == s2n_map_complete(s2n_map_add(s2n_map_unlock(m), name, [NoCerts EXCEPT ![t] = chain]))
             old == [m EXCEPT !.table[slot].value[t] =
                       IF @ = None THEN chain ELSE Winner(tiebreak, @, chain)]
             r == s2n_config_update_domain_name_to_cert_map(m, tiebreak, name, chain)
  <1>1. r = CASE name = <<>> -> m
              [] name # <<>> /\ slot = m.capacity -> new
              [] OTHER -> old
    BY Zenon DEF s2n_config_update_domain_name_to_cert_map
  <1>2. MapOK(new)
    <2> DEFINE v == [NoCerts EXCEPT ![t] = chain]
               u == s2n_map_unlock(m)
               a == s2n_map_add(u, name, v)
    <2>1. v \in ByType BY OneOfAType
    <2>2. MapOK(u) BY LockOK
    <2> HIDE DEF v, u
    <2>3. MapOK(a) BY <2>1, <2>2, AddOK
    <2> HIDE DEF a
    <2>4. MapOK(s2n_map_complete(a)) BY <2>3, LockOK
    <2> QED BY <2>4 DEF a, u, v
  <1>3. ASSUME name # <<>>, slot # m.capacity PROVE MapOK(old)
    <2>1. m.table[slot].key = name
      <3> DEFINE p == Probe(m, name)
      <3>1. slot = IF m.immutable /\ p < m.capacity /\ m.table[p].key = name THEN p ELSE m.capacity
        BY Zenon DEF s2n_map_lookup
      <3> HIDE DEF slot, p
      <3> QED BY <1>3, <3>1
    <2> DEFINE x == m.table[slot]
               w == IF x.value[t] = None THEN chain ELSE Winner(tiebreak, x.value[t], chain)
               y == [x EXCEPT !.value[t] = w]
               T == [m.table EXCEPT ![slot] = y]
    <2>2. /\ DOMAIN m = {"capacity", "size", "table", "immutable"} /\ m.capacity \in Nat
          /\ DOMAIN m.table = 0..(m.capacity - 1)
          /\ \A s \in 0..(m.capacity - 1) : EntryOK(m.table[s])
      BY DEF MapOK
    <2>3. old = [m EXCEPT !.table = T]
      <3> DEFINE b == x.value[t]
      <3>1. w = IF b = None THEN chain ELSE Winner(tiebreak, b, chain) OBVIOUS
      <3> QED BY Zenon
    <2>4. DOMAIN old = DOMAIN m /\ old.capacity = m.capacity /\ old.table = T
      <3> HIDE DEF T, old
      <3> QED BY <2>2, <2>3
    <2>5. slot \in DOMAIN m.table => EntryOK(y)
      <3> SUFFICES ASSUME slot \in DOMAIN m.table PROVE EntryOK(y) OBVIOUS
      <3>1. EntryOK(x) BY <2>2
      <3>2. x.value \in ByType /\ DOMAIN x = {"key", "value"} BY <1>3, <2>1, <3>1 DEF EntryOK
      <3> HIDE DEF x
      <3>3. t \in DOMAIN x.value => w \in DOMAIN Chain \cup {None}
        <4> SUFFICES ASSUME t \in DOMAIN x.value PROVE w \in DOMAIN Chain \cup {None} OBVIOUS
        <4>1. x.value[t] \in DOMAIN Chain \cup {None} BY <3>2 DEF ByType
        <4> QED BY <4>1 DEF Winner
      <3> HIDE DEF w, t
      <3> DEFINE V == [x.value EXCEPT ![t] = w]
      <3>4. V \in ByType BY <3>2, <3>3 DEF ByType
      <3>5. y = [x EXCEPT !.value = V] OBVIOUS
      <3> HIDE DEF V, y
      <3> QED BY <3>2, <3>4, <3>5 DEF EntryOK
    <2>6. DOMAIN T = DOMAIN m.table /\ \A s \in DOMAIN m.table : T[s] = IF s = slot THEN y ELSE m.table[s]
      OBVIOUS
    <2> HIDE DEF T, y, old, slot
    <2>7. ASSUME NEW s \in 0..(m.capacity - 1) PROVE EntryOK(T[s]) BY <2>2, <2>5, <2>6
    <2> QED BY <2>2, <2>4, <2>6, <2>7 DEF MapOK
  <1> HIDE DEF slot, new, old, r
  <1>4. MapOK(r) BY <1>1, <1>2, <1>3
  <1> QED BY <1>4 DEF r

\* The names of a chain are a sequence.
LEMMA NamesListed ==
    ASSUME NEW chain \in DOMAIN Chain, s2n_cert_chain_and_key_load_pem(chain)
    PROVE  Len(StoreNames(chain)) \in Nat
  <1> DEFINE san == Leaf(chain).san
             cn == Leaf(chain).cn
             sans == s2n_cert_chain_and_key_load_sans(chain)
             cns == s2n_cert_chain_and_key_load_cns(chain)
  <1>1. Head(Chain[chain].certs) \in DOMAIN Cert
    <2>1. Chain[chain].certs \in Seq(DOMAIN Cert) /\ Chain[chain].certs # <<>>
      BY TableAssumption DEF s2n_cert_chain_and_key_load_pem
    <2> QED BY <2>1
  <1>2. Len(san) \in Nat /\ cn \in Seq(STRING \X Seq(STRING)) BY <1>1, TableAssumption DEF Leaf
  <1>3. Len(cns) \in Nat
    <2> DEFINE L(i) == s2n_blob_char_to_lower(cn[i][2])
               D == {L(i) : i \in 1..Len(cn)}
    <2>1. cns = [i \in 1..Len(cn) |-> L(i)] BY DEF s2n_cert_chain_and_key_load_cns
    <2>2. \A i \in 1..Len(cn) : L(i) \in D OBVIOUS
    <2>3. Len(cn) \in Nat BY <1>2
    <2> HIDE DEF L, D, cn, cns
    <2>4. cns \in Seq(D) BY <2>1, <2>2, <2>3
    <2> QED BY <2>4
  <1>4. Len(sans) \in Nat
    <2>1. PICK f : /\ f[0] = <<>> /\ \A i \in 1..Len(san) : f[i] = Keep(f[i - 1], san[i])
                   /\ sans = f[Len(san)]
      BY <1>2, KeptIs
    <2> DEFINE N == Len(san)
               D == {s2n_blob_char_to_lower(san[i][2]) : i \in 1..N}
               S == {k \in Nat : k <= N => f[k] \in Seq(D)}
    <2>2. N \in Nat BY <1>2
    <2>3. 0 \in S
      <3> HIDE DEF D
      <3>1. <<>> \in Seq(D) OBVIOUS
      <3> HIDE DEF N
      <3>2. f[0] \in Seq(D) BY <2>1, <3>1
      <3> QED BY <3>2
    <2>4. ASSUME NEW k \in Nat, k \in S PROVE k + 1 \in S
      <3> SUFFICES ASSUME k + 1 <= N PROVE f[k + 1] \in Seq(D) OBVIOUS
      <3>1. k + 1 \in 1..N /\ (k + 1) - 1 = k /\ f[k] \in Seq(D) BY <2>2, <2>4
      <3>2. f[k + 1] = Keep(f[k], san[k + 1]) BY <2>1, <3>1
      <3>3. s2n_blob_char_to_lower(san[k + 1][2]) \in D BY <3>1
      <3> HIDE DEF D, san, N
      <3> QED BY <3>1, <3>2, <3>3 DEF Keep
    <2> HIDE DEF S, N, D
    <2>5. Nat \subseteq S BY <2>3, <2>4, SetInduction
    <2>6. f[N] \in Seq(D) BY <2>2, <2>5 DEF S
    <2>7. sans \in Seq(D) BY <2>1, <2>6 DEF N
    <2> HIDE DEF sans
    <2> QED BY <2>7
  <1>5. StoreNames(chain) = sans \/ StoreNames(chain) = cns BY DEF StoreNames
  <1> QED BY <1>3, <1>4, <1>5

\* All its names (s2n_config_build_domain_name_to_cert_map).
LEMMA FilingOK ==
    ASSUME NEW m, MapOK(m), NEW tiebreak, NEW chain \in DOMAIN Chain, s2n_cert_chain_and_key_load_pem(chain)
    PROVE  MapOK(s2n_config_build_domain_name_to_cert_map(m, tiebreak, chain))
  <1> DEFINE names == StoreNames(chain)
             N == Len(names)
  <1>1. N \in Nat BY NamesListed
  <1>2. PICK f : /\ f[0] = m
                 /\ \A i \in 1..N : f[i] = s2n_config_update_domain_name_to_cert_map(f[i - 1], tiebreak, names[i], chain)
                 /\ s2n_config_build_domain_name_to_cert_map(m, tiebreak, chain) = f[N]
    <2>1. names = StoreNames(chain) /\ Len(names) \in Nat BY <1>1
    <2> HIDE DEF names, N
    <2>2. \E f : /\ f[0] = m
                 /\ \A i \in 1..Len(names) :
                       f[i] = s2n_config_update_domain_name_to_cert_map(f[i - 1], tiebreak, names[i], chain)
                 /\ s2n_config_build_domain_name_to_cert_map(m, tiebreak, chain) = f[Len(names)]
      BY <2>1, FilingIs
    <2> QED BY <2>2 DEF N
  <1> HIDE DEF names, N
  <1> DEFINE S == {k \in Nat : k <= N => MapOK(f[k])}
  <1>3. 0 \in S BY <1>2
  <1>4. ASSUME NEW k \in Nat, k \in S PROVE k + 1 \in S
    <2> SUFFICES ASSUME k + 1 <= N PROVE MapOK(f[k + 1]) OBVIOUS
    <2>1. k + 1 \in 1..N /\ (k + 1) - 1 = k /\ MapOK(f[k]) BY <1>1, <1>4
    <2>2. f[k + 1] = s2n_config_update_domain_name_to_cert_map(f[k], tiebreak, names[k + 1], chain) BY <1>2, <2>1
    <2> QED BY <2>1, <2>2, UpdateOK
  <1> HIDE DEF S
  <1>5. Nat \subseteq S BY <1>3, <1>4, SetInduction
  <1>6. MapOK(f[N]) BY <1>1, <1>5 DEF S
  <1> QED BY <1>2, <1>6

(***************************************************************************)
(* What a look-up finds.  Names must have a hash.                          *)
(***************************************************************************)
LEMMA FindOK ==
    ASSUME NEW m, MapOK(m), NEW name, name # <<>> => Hash[name] \in Nat
    PROVE  s2n_find_cert_matches(m, name) \in ByType
  <1> DEFINE slot == s2n_map_lookup(m, name)
             p == Probe(m, name)
             cap == m.capacity
             first == s2n_map_slot(cap, name)
             At(d) == (first + d) % cap
             ends == {d \in 0..(cap - 1) : m.table[At(d)].key \in {<<>>, name}}
             d0 == CHOOSE d \in ends : \A e \in ends : d <= e
             R == s2n_find_cert_matches(m, name)
  <1>1. R = IF name # <<>> /\ slot < cap THEN m.table[slot].value ELSE NoCerts
    BY Zenon DEF s2n_find_cert_matches
  <1>2. slot = IF m.immutable /\ p < cap /\ m.table[p].key = name THEN p ELSE cap BY Zenon DEF s2n_map_lookup
  <1>3. p = IF ends = {} THEN cap ELSE At(d0) BY Zenon DEF Probe
  <1>4. NoCerts \in ByType BY DEF NoCerts, ByType
  <1>5. cap \in Nat BY DEF MapOK
  <1>6. ~(cap < cap) BY <1>5
  <1>7. CASE name # <<>> /\ slot < cap
    <2>1. slot = p /\ m.table[p].key = name
      <3> HIDE DEF slot, p, cap
      <3> QED BY <1>2, <1>6, <1>7
    <2>2. p = At(d0) /\ ends # {}
      <3> HIDE DEF slot, p, cap, ends, d0, At
      <3> QED BY <1>3, <1>6, <1>7, <2>1
    <2>3. d0 \in 0..(cap - 1)
      <3>1. ends \subseteq Nat BY <1>5
      <3> HIDE DEF ends
      <3>2. \E d \in ends : \A e \in ends : d <= e BY <2>2, <3>1, LeastNatural
      <3>3. d0 \in ends BY <3>2
      <3> HIDE DEF d0
      <3> QED BY <3>3 DEF ends
    <2>4. cap > 0 BY <1>5, <2>3
    <2>5. first \in Nat
      <3> DEFINE h == Hash[name]
      <3>1. h \in Nat /\ first = h % cap BY <1>7 DEF s2n_map_slot
      <3> HIDE DEF h, cap, first
      <3> QED BY <1>5, <2>4, <3>1
    <2>6. At(d0) \in 0..(cap - 1)
      <3> HIDE DEF first, cap, d0
      <3> QED BY <1>5, <2>3, <2>4, <2>5
    <2>7. p \in 0..(cap - 1) BY <2>2, <2>6
    <2> HIDE DEF p, slot
    <2>8. EntryOK(m.table[p]) BY <2>7 DEF MapOK
    <2>9. m.table[p].value \in ByType BY <1>7, <2>1, <2>8 DEF EntryOK
    <2> HIDE DEF R, cap
    <2>10. R \in ByType BY <1>1, <1>7, <2>1, <2>9
    <2> QED BY <2>10 DEF R
  <1>8. CASE ~(name # <<>> /\ slot < cap) BY <1>1, <1>4, <1>8
  <1> QED BY <1>7, <1>8

\* The chains for a name, one or none of each type (s2n_conn_find_name_matching_certs).
LEMMA CandidatesOK ==
    ASSUME NEW g, MapOK(g.map), g.defaults \in ByType, NEW w \in DOMAIN Worlds,
           NEW name \in Worlds[w].names \cup {<<>>}
    PROVE  Candidates(g, name) \in ByType
  <1> DEFINE lower == s2n_blob_char_to_lower(name)
             star == s2n_create_wildcard_hostname(lower)
             exact == s2n_find_cert_matches(g.map, lower)
             wild == s2n_find_cert_matches(g.map, star)
             R == Candidates(g, name)
  <1>1. R = CASE name # <<>> /\ exact # NoCerts -> exact
              [] name # <<>> /\ exact = NoCerts /\ wild # NoCerts -> wild
              [] OTHER -> g.defaults
    BY Zenon DEF Candidates
  <1>2. CASE name = <<>>
    <2> HIDE DEF exact, wild, R
    <2>1. R = g.defaults BY <1>1, <1>2
    <2> QED BY <2>1 DEF R
  <1>3. CASE name # <<>>
    <2>1. name \in Worlds[w].names BY <1>3
    <2>2. \A n \in {lower, star} \ {<<>>} : Hash[n] \in Nat BY <2>1, WorldAssumption, Zenon
    <2>3. (lower # <<>> => Hash[lower] \in Nat) /\ (star # <<>> => Hash[star] \in Nat) BY <2>2
    <2> HIDE DEF lower, star
    <2>4. exact \in ByType /\ wild \in ByType BY <2>3, FindOK
    <2> HIDE DEF exact, wild, R
    <2>5. R \in ByType BY <1>1, <2>4
    <2> QED BY <2>5 DEF R
  <1> QED BY <1>2, <1>3

-----------------------------------------------------------------------------
(***************************************************************************)
(* The state.  Each part of the invariant is said of the records as such.  *)
(***************************************************************************)
ConfigFields ==
    {"map", "defaults", "explicit", "tiebreak", "loaded", "store", "disabled", "check_ocsp", "verify_host",
     "depth", "status_request", "auth"}
ConfigOK(g) ==
    /\ DOMAIN g = ConfigFields
    /\ MapOK(g.map) /\ g.defaults \in ByType /\ g.loaded \subseteq DOMAIN Chain
    /\ g.store \in StoreType /\ g.depth \in Nat
    /\ g.disabled \in BOOLEAN /\ g.check_ocsp \in BOOLEAN /\ g.verify_host \in BOOLEAN

ConnFields ==
    {"attached", "v", "verify", "overridden", "server_name", "auth", "late", "peer", "response", "checked",
     "stapled", "outcome"}
ConnOK(c, names) ==
    /\ DOMAIN c = ConnFields
    /\ c.v \in ValidatorType /\ c.server_name \in names \cup {<<>>}
    /\ c.attached \in BOOLEAN /\ c.overridden \in BOOLEAN /\ c.late \in BOOLEAN
    /\ c.overridden => c.verify = "callback"

ConfigOf(c, g, system) == IF c.attached THEN g ELSE NewConfig(system)
AuthOf(c, g) == IF c.auth = "unset" THEN g.auth ELSE c.auth
AskedOf(e, c, g) == ~g.disabled /\ (e = "client" \/ (AuthOf(c, g) # "NONE" /\ ~c.late))

\* The validator is the one the configuration in force asks for.
Prepared(c, g) == ~c.v.skip /\ c.v.check_ocsp = g.check_ocsp /\ c.v.depth = Depth(g) /\ Comparing(c, g)
Fitted(e, c, g) == (e = "client" \/ c.attached) /\ AskedOf(e, c, g) => Prepared(c, g)

\* Sound and Trustworthy, with all that they depend on as arguments.
SignedOf(ver, c) == SelfIssued(c) \/ (Cert[c].scheme \in Policy /\ ~(ver = 13 /\ Cert[c].scheme \in Sha1Schemes))
FitsOf(overridden, verify_host, name, callback, cert) ==
    IF overridden \/ verify_host THEN ForNames(cert) \cap callback # {}
    ELSE name # <<>> /\ \E n \in ForNames(cert) : Covers(n, name)
SoundOf(ver, callback, c, g, certs, t) ==
    /\ ~g.store.null /\ Len(certs) <= Depth(g)
    /\ certs[1] \in Certified(g.store, certs, t)
    /\ \A i \in 1..Len(certs) : SignedOf(ver, certs[i])
    /\ FitsOf(c.overridden, g.verify_host, c.server_name, callback, Cert[certs[1]]) \/ NameUnread(Cert[certs[1]])
TrustedOf(ver, callback, c, g) ==
    /\ SoundOf(ver, callback, c, g, c.peer, c.checked)
    /\ g.check_ocsp /\ c.response # None => Vouches(c.response, c.peer[1], g.store, c.peer, c.checked, c.stapled)
Accepting(e, ver, callback, c, g) == c.outcome = "accepted" /\ AskedOf(e, c, g) => TrustedOf(ver, callback, c, g)

\* Between the chain and a response that comes in a message of its own.
Pending(ver, callback, c, g, certs) ==
    AskedOf("client", c, g) =>
        /\ c.peer = certs /\ SoundOf(ver, callback, c, g, certs, c.checked)
        /\ Backed(c.v, g.store, certs, c.checked)

ShownType ==
    [certs : Seq(DOMAIN Cert), chain : DOMAIN Chain \cup {None}, response : DOMAIN Response \cup {None},
     honest : BOOLEAN]
Static ==
    /\ world \in DOMAIN Worlds /\ todo \subseteq Worlds[world].menu
    /\ clock \in 1..Len(Instants) /\ staple \in [DOMAIN Chain -> DOMAIN Response \cup {None}]
    /\ shown \in ShownType

EndOK(e, w, ver, c, g) ==
    /\ ConfigOK(g) /\ ConnOK(c, Worlds[w].names)
    /\ Fitted(e, c, ConfigOf(c, g, Worlds[w].system))
    /\ Accepting(e, ver, Worlds[w].callback, c, ConfigOf(c, g, Worlds[w].system))

(***************************************************************************)
(* The inductive invariant.                                                *)
(***************************************************************************)
TrustInv ==
    /\ Static
    /\ DOMAIN cfg = Ends /\ DOMAIN conn = Ends
    /\ \A e \in Ends : EndOK(e, world, version, conn[e], cfg[e])
    /\ stage = "setup" => \A e \in Ends : conn[e].outcome # "accepted"
    /\ stage \in {"hello", "server_cert"} => conn["client"].outcome # "accepted"
    /\ stage = "client_cert" => shown.response = None
    /\ stage # "setup" => conn["server"].attached
    /\ stage = "status" => Pending(version, Worlds[world].callback, conn["client"],
                                   ConfigOf(conn["client"], cfg["client"], Worlds[world].system), shown.certs)

\* The parts with arguments say what the parts of the state say.
LEMMA SoundIs ==
    ASSUME NEW c, NEW g, NEW certs, NEW t
    PROVE  Sound(c, g, certs, t) <=> SoundOf(version, Worlds[world].callback, c, g, certs, t)
  <1>1. FitsName(c, g, Cert[certs[1]])
          <=> FitsOf(c.overridden, g.verify_host, c.server_name, Worlds[world].callback, Cert[certs[1]])
    BY Zenon DEF FitsName, FitsOf, scene
  <1>2. \A i : s2n_validate_certificate_signature(certs[i]) <=> SignedOf(version, certs[i])
    BY Zenon DEF s2n_validate_certificate_signature, SignedOf
  <1> QED BY <1>1, <1>2, Zenon DEF Sound, SoundOf

\* The configuration in force.
LEMMA ConfigIs ==
    ASSUME NEW c, NEW e
    PROVE  Config(c, e) = ConfigOf(c, cfg[e], Worlds[world].system)
  BY Zenon DEF Config, ConfigOf, scene

\* Whether an endpoint is to verify.
LEMMA AskedIs ==
    ASSUME NEW e
    PROVE  Asked(e) <=> AskedOf(e, conn[e], Config(conn[e], e))
  BY Zenon DEF Asked, AskedOf, ClientAuth, s2n_connection_get_client_auth_type, AuthOf

\* The invariant says what it is for.
LEMMA TrustInvImplies ==
    ASSUME TrustInv
    PROVE  OnlyTrustedAccepted
  <1> SUFFICES ASSUME NEW e \in Ends, conn[e].outcome = "accepted", Asked(e)
               PROVE  Trustworthy(e, conn[e].peer, conn[e].response, conn[e].checked, conn[e].stapled)
    BY Zenon DEF OnlyTrustedAccepted
  <1> DEFINE c == conn[e]
             g == Config(c, e)
  <1>1. g = ConfigOf(c, cfg[e], Worlds[world].system) BY ConfigIs
  <1>2. Accepting(e, version, Worlds[world].callback, c, g) BY <1>1 DEF TrustInv, EndOK
  <1>3. AskedOf(e, c, g) BY AskedIs
  <1>4. TrustedOf(version, Worlds[world].callback, c, g) BY <1>2, <1>3 DEF Accepting
  <1>5. /\ Sound(c, g, c.peer, c.checked)
        /\ g.check_ocsp /\ c.response # None => Vouches(c.response, c.peer[1], g.store, c.peer, c.checked, c.stapled)
    BY <1>4, SoundIs DEF TrustedOf
  <1> QED BY <1>5, Zenon DEF Sound, Trustworthy

-----------------------------------------------------------------------------
(***************************************************************************)
(* Configurations and connections as they begin.                           *)
(***************************************************************************)
LEMMA NewConfigOK ==
    ASSUME NEW system \in SUBSET DOMAIN Cert
    PROVE  ConfigOK(NewConfig(system))
  <1> DEFINE m == s2n_map_complete(s2n_map_new_with_initial_capacity(1))
             st == s2n_x509_trust_store_from_system_defaults(system)
             g == NewConfig(system)
  <1>1. MapOK(m) BY NewMapOK, LockOK
  <1>2. st \in StoreType BY DEF s2n_x509_trust_store_from_system_defaults, StoreType
  <1>3. NoCerts \in ByType BY DEF NoCerts, ByType
  <1>4. g = [map |-> m, defaults |-> NoCerts,
             explicit |-> FALSE, tiebreak |-> FALSE, loaded |-> {},
             store |-> st, disabled |-> FALSE,
             check_ocsp |-> TRUE, verify_host |-> FALSE, depth |-> 0, status_request |-> FALSE,
             auth |-> "NONE"]
    BY DEF NewConfig
  <1> HIDE DEF m, st, g
  <1>5. /\ DOMAIN g = ConfigFields /\ g.map = m /\ g.defaults = NoCerts /\ g.loaded = {} /\ g.store = st
        /\ g.depth = 0
    BY <1>4 DEF ConfigFields
  <1>6. g.disabled \in BOOLEAN /\ g.check_ocsp \in BOOLEAN /\ g.verify_host \in BOOLEAN BY <1>4
  <1>7. ConfigOK(g) BY <1>1, <1>2, <1>3, <1>5, <1>6 DEF ConfigOK
  <1> QED BY <1>7 DEF g

\* The validators s2n_x509_validator_init makes.
LEMMA InitValidators ==
    /\ s2n_x509_validator_init_no_x509_validation \in ValidatorType
    /\ \A b \in BOOLEAN :
          LET v == s2n_x509_validator_init(b) IN
          /\ v \in ValidatorType /\ ~v.skip /\ v.check_ocsp = b /\ v.depth = DefaultMaxChainDepth
          /\ \A d \in Nat : LET w == s2n_x509_validator_set_max_chain_depth(v, d)
                            IN w \in ValidatorType /\ ~w.skip /\ w.check_ocsp = b /\ w.depth = d
  <1> DEFINE D == DefaultMaxChainDepth
  <1>1. D \in Nat /\ <<>> \in Seq(DOMAIN Cert) BY DepthAssumption
  <1>2. s2n_x509_validator_init_no_x509_validation \in ValidatorType
    <2> HIDE DEF D
    <2>1. s2n_x509_validator_init_no_x509_validation
            = [state |-> "INIT", skip |-> TRUE, check_ocsp |-> FALSE, depth |-> D, path |-> <<>>]
      BY DEF s2n_x509_validator_init_no_x509_validation, D
    <2> QED BY <1>1, <2>1 DEF ValidatorType
  <1>3. ASSUME NEW b \in BOOLEAN, NEW d \in Nat
        PROVE  LET v == s2n_x509_validator_init(b)
                   w == s2n_x509_validator_set_max_chain_depth(v, d)
               IN /\ v \in ValidatorType /\ ~v.skip /\ v.check_ocsp = b /\ v.depth = D
                  /\ w \in ValidatorType /\ ~w.skip /\ w.check_ocsp = b /\ w.depth = d
    <2> DEFINE v == s2n_x509_validator_init(b)
               w == s2n_x509_validator_set_max_chain_depth(v, d)
    <2>1. v = [state |-> "INIT", skip |-> FALSE, check_ocsp |-> b, depth |-> D, path |-> <<>>]
      BY DEF s2n_x509_validator_init
    <2>2. w = [v EXCEPT !.depth = d] BY DEF s2n_x509_validator_set_max_chain_depth
    <2> HIDE DEF v, w, D
    <2>3. v \in ValidatorType /\ ~v.skip /\ v.check_ocsp = b /\ v.depth = D
      BY <1>1, <2>1 DEF ValidatorType
    <2>4. w \in ValidatorType /\ ~w.skip /\ w.check_ocsp = b /\ w.depth = d BY <2>2, <2>3 DEF ValidatorType
    <2> QED BY <2>3, <2>4 DEF v, w
  <1> QED BY <1>2, <1>3

\* A connection that has been zeroed.
LEMMA ZeroedOK ==
    ASSUME NEW b \in BOOLEAN, NEW names
    PROVE  /\ LET c == [Zeroed EXCEPT !.attached = b]
              IN ConnOK(c, names) /\ c.attached = b /\ c.outcome = "open"
           /\ ConnOK(Zeroed, names) /\ Zeroed.attached = FALSE /\ Zeroed.outcome = "open"
  <1> DEFINE c == [Zeroed EXCEPT !.attached = b]
             v == s2n_x509_validator_init_no_x509_validation
  <1>1. v \in ValidatorType BY InitValidators
  <1>2. Zeroed = [attached |-> FALSE, v |-> v, verify |-> "null",
           overridden |-> FALSE, server_name |-> <<>>, auth |-> "unset", late |-> FALSE,
           peer |-> <<>>, response |-> None, checked |-> 0, stapled |-> 0, outcome |-> "open"]
    BY DEF Zeroed
  <1> HIDE DEF v
  <1>3. /\ DOMAIN c = ConnFields /\ c.v = v /\ c.server_name = <<>> /\ c.attached = b /\ c.overridden = FALSE
        /\ c.late = FALSE /\ c.outcome = "open"
    BY <1>2 DEF ConnFields
  <1> DEFINE d == Zeroed
  <1>4. /\ DOMAIN d = ConnFields /\ d.v = v /\ d.server_name = <<>> /\ d.attached = FALSE /\ d.overridden = FALSE
        /\ d.late = FALSE /\ d.outcome = "open"
    BY <1>2 DEF ConnFields
  <1> HIDE DEF c, d
  <1>5. ConnOK(c, names) BY <1>1, <1>3 DEF ConnOK
  <1>6. ConnOK(d, names) BY <1>1, <1>4 DEF ConnOK
  <1> QED BY <1>3, <1>4, <1>5, <1>6 DEF c, d

\* s2n_connection_set_config leaves a validator that fits the configuration.
LEMMA SetConfigFits ==
    ASSUME NEW e, NEW names, NEW c, ConnOK(c, names), NEW g, ConfigOK(g),
           NEW r, r = s2n_connection_set_config(c, e, g)
    PROVE  /\ ConnOK(r, names) /\ r.attached = c.attached /\ r.outcome = c.outcome
           /\ AskedOf(e, r, g) => Prepared(r, g)
  <1> DEFINE auth == IF c.auth = "unset" THEN g.auth ELSE c.auth
             v == s2n_x509_validator_init(g.check_ocsp)
             v0 == s2n_x509_validator_init_no_x509_validation
             v1 == IF g.depth > 0 THEN s2n_x509_validator_set_max_chain_depth(v, g.depth) ELSE v
             f == IF c.overridden THEN c.verify ELSE IF g.verify_host THEN "callback" ELSE "default"
             skip == g.disabled \/ (e = "server" /\ auth = "NONE")
             r0 == [c EXCEPT !.v = v0]
             r1 == [c EXCEPT !.v = v1, !.verify = f]
  <1>1. r = IF skip THEN r0 ELSE r1 BY Zenon DEF s2n_connection_set_config
  <1>2. /\ DOMAIN g = ConfigFields /\ g.depth \in Nat /\ g.disabled \in BOOLEAN
        /\ g.check_ocsp \in BOOLEAN /\ g.verify_host \in BOOLEAN
    BY DEF ConfigOK
  <1>3. v0 \in ValidatorType BY InitValidators
  <1>4. v1 \in ValidatorType /\ ~v1.skip /\ v1.check_ocsp = g.check_ocsp /\ v1.depth = Depth(g)
    <2>1. /\ v \in ValidatorType /\ ~v.skip /\ v.check_ocsp = g.check_ocsp /\ v.depth = DefaultMaxChainDepth
          /\ LET w == s2n_x509_validator_set_max_chain_depth(v, g.depth)
             IN w \in ValidatorType /\ ~w.skip /\ w.check_ocsp = g.check_ocsp /\ w.depth = g.depth
      BY <1>2, InitValidators
    <2> HIDE DEF v
    <2>2. CASE g.depth > 0
      <3>1. g.depth # 0 BY <1>2, <2>2
      <3> QED BY <2>1, <2>2, <3>1 DEF Depth
    <2>3. CASE ~(g.depth > 0)
      <3>1. g.depth = 0 BY <1>2, <2>3
      <3> QED BY <2>1, <2>3, <3>1 DEF Depth
    <2> QED BY <2>2, <2>3
  <1>5. /\ DOMAIN c = ConnFields
        /\ c.v \in ValidatorType /\ c.server_name \in names \cup {<<>>}
        /\ c.attached \in BOOLEAN /\ c.overridden \in BOOLEAN /\ c.late \in BOOLEAN
        /\ c.overridden => c.verify = "callback"
    BY DEF ConnOK
  <1>6. (c.overridden => f = "callback") /\ f = IF c.overridden \/ g.verify_host THEN "callback" ELSE "default"
    BY <1>5
  <1> HIDE DEF v0, v1, f
  <1>7. /\ DOMAIN r0 = ConnFields /\ r0.v = v0 /\ r0.verify = c.verify /\ r0.server_name = c.server_name
        /\ r0.attached = c.attached /\ r0.overridden = c.overridden /\ r0.late = c.late
        /\ r0.auth = c.auth /\ r0.outcome = c.outcome
    BY <1>5 DEF ConnFields
  <1>8. /\ DOMAIN r1 = ConnFields /\ r1.v = v1 /\ r1.verify = f /\ r1.server_name = c.server_name
        /\ r1.attached = c.attached /\ r1.overridden = c.overridden /\ r1.late = c.late
        /\ r1.auth = c.auth /\ r1.outcome = c.outcome
    BY <1>5 DEF ConnFields
  <1> HIDE DEF r0, r1
  <1>9. CASE skip
    <2>1. r = r0 BY <1>1, <1>9
    <2>2. ~AskedOf(e, r, g)
      <3>1. r.auth = c.auth BY <1>7, <2>1
      <3> QED BY <1>9, <3>1 DEF AskedOf, AuthOf
    <2>3. ConnOK(r, names) BY <1>3, <1>5, <1>7, <2>1 DEF ConnOK
    <2> QED BY <1>7, <2>1, <2>2, <2>3
  <1>10. CASE ~skip
    <2>1. r = r1 BY <1>1, <1>10
    <2>2. Prepared(r, g) BY <1>4, <1>6, <1>8, <2>1 DEF Prepared, Comparing
    <2>3. ConnOK(r, names) BY <1>4, <1>5, <1>6, <1>8, <2>1 DEF ConnOK
    <2> QED BY <1>8, <2>1, <2>2, <2>3
  <1> QED BY <1>9, <1>10

\* A connection that is new, or new again.
Renewed(c, e, w, z, g) == c = s2n_connection_set_config(z, e, ConfigOf(z, g, Worlds[w].system))

\* It is as the invariant asks, whatever was configured.
LEMMA WipedOK ==
    ASSUME NEW e, NEW w \in DOMAIN Worlds, NEW ver, NEW g, ConfigOK(g),
           NEW z, ConnOK(z, Worlds[w].names), z.outcome = "open",
           NEW c, Renewed(c, e, w, z, g)
    PROVE  EndOK(e, w, ver, c, g) /\ c.attached = z.attached /\ c.outcome = "open"
  <1> DEFINE h == ConfigOf(z, g, Worlds[w].system)
  <1>1. Worlds[w].system \in SUBSET DOMAIN Cert BY WorldAssumption
  <1>2. ConfigOK(h) BY <1>1, NewConfigOK DEF ConfigOf
  <1>3. c = s2n_connection_set_config(z, e, h) BY DEF Renewed
  <1> HIDE DEF h
  <1>4. /\ ConnOK(c, Worlds[w].names) /\ c.attached = z.attached /\ c.outcome = "open"
        /\ AskedOf(e, c, h) => Prepared(c, h)
    BY <1>2, <1>3, SetConfigFits
  <1>5. h = ConfigOf(c, g, Worlds[w].system) BY <1>4 DEF ConfigOf, h
  <1>6. Fitted(e, c, h) BY <1>4 DEF Fitted
  <1>7. Accepting(e, ver, Worlds[w].callback, c, h) BY <1>4 DEF Accepting
  <1> QED BY <1>4, <1>5, <1>6, <1>7 DEF EndOK

\* The invariant holds at first.
LEMMA TrustInvInit == Init => TrustInv
  <1> SUFFICES ASSUME Init PROVE TrustInv OBVIOUS
  <1>1. world \in DOMAIN Worlds /\ scene = Worlds[world] BY DEF Init, scene
  <1> DEFINE sys == Worlds[world].system
  <1>2. sys \in SUBSET DOMAIN Cert BY <1>1, WorldAssumption
  <1>3. /\ todo = Worlds[world].menu /\ cfg = [e \in Ends |-> NewConfig(sys)]
        /\ staple = [c \in DOMAIN Chain |-> None]
        /\ conn = [e \in Ends |-> s2n_connection_new(e, sys)]
        /\ stage = "setup" /\ shown = Nothing /\ clock = 1
    BY <1>1 DEF Init
  <1>4. Static
    <2>1. clock \in 1..Len(Instants) BY <1>3, TimeAssumption
    <2>2. shown \in ShownType BY <1>3 DEF Nothing, ShownType
    <2>3. staple \in [DOMAIN Chain -> DOMAIN Response \cup {None}] BY <1>3
    <2> QED BY <1>1, <1>3, <2>1, <2>2, <2>3 DEF Static
  <1> HIDE DEF sys
  <1>5. ConfigOK(NewConfig(sys)) BY <1>2, NewConfigOK
  <1>6. ASSUME NEW e \in Ends
        PROVE  EndOK(e, world, version, conn[e], cfg[e]) /\ conn[e].outcome # "accepted"
    <2> DEFINE c == conn[e]
    <2>1. c = s2n_connection_set_config(Zeroed, e, NewConfig(sys)) /\ cfg[e] = NewConfig(sys)
      BY <1>3 DEF s2n_connection_new
    <2>2. ConnOK(Zeroed, Worlds[world].names) /\ Zeroed.attached = FALSE /\ Zeroed.outcome = "open"
      BY ZeroedOK
    <2>3. c = s2n_connection_set_config(Zeroed, e, ConfigOf(Zeroed, cfg[e], Worlds[world].system))
      BY <2>1, <2>2 DEF sys, ConfigOf
    <2>4. ConfigOK(cfg[e]) BY <1>5, <2>1
    <2> DEFINE z == Zeroed
               g == cfg[e]
               w == world
               ver == version
    <2>5. /\ ConnOK(z, Worlds[w].names) /\ z.outcome = "open" /\ ConfigOK(g) /\ w \in DOMAIN Worlds
          /\ Renewed(c, e, w, z, g)
      BY <1>1, <2>2, <2>3, <2>4 DEF Renewed
    <2> HIDE DEF c, z, g, w, ver
    <2>6. EndOK(e, w, ver, c, g) /\ c.outcome = "open" BY <2>5, WipedOK
    <2> QED BY <2>6 DEF c, w, ver, g
  <1>7. DOMAIN cfg = Ends /\ DOMAIN conn = Ends BY <1>3
  <1> QED BY <1>3, <1>4, <1>6, <1>7 DEF TrustInv

-----------------------------------------------------------------------------
(***************************************************************************)
(* Steps.  A configuration changes only while its endpoint's connection    *)
(* does not have it, so what holds of the connection still does.           *)
(***************************************************************************)
LEMMA ConfigStep ==
    ASSUME TrustInv, NEW e0 \in Ends, ~conn[e0].attached, stage = "setup", todo' \subseteq todo,
           NEW g2, ConfigOK(g2), cfg' = [cfg EXCEPT ![e0] = g2],
           UNCHANGED <<world, conn, version, stage, shown, clock>>,
           staple' \in [DOMAIN Chain -> DOMAIN Response \cup {None}]
    PROVE  TrustInv'
  <1>1. Static /\ DOMAIN cfg = Ends /\ DOMAIN conn = Ends BY DEF TrustInv
  <1>2. Static' BY <1>1 DEF Static
  <1>3. /\ DOMAIN cfg' = Ends /\ cfg'[e0] = g2
        /\ \A e \in Ends : e # e0 => cfg'[e] = cfg[e]
    BY <1>1
  <1>4. ASSUME NEW e \in Ends PROVE EndOK(e, world, version, conn[e], cfg'[e])
    <2>1. EndOK(e, world, version, conn[e], cfg[e]) BY DEF TrustInv
    <2>2. CASE e # e0 BY <1>3, <2>1, <2>2
    <2>3. CASE e = e0
      <3> DEFINE c == conn[e]
                 system == Worlds[world].system
      <3>1. ConfigOf(c, cfg[e], system) = NewConfig(system) /\ ConfigOf(c, g2, system) = NewConfig(system)
        BY <2>3 DEF ConfigOf
      <3>2. cfg'[e] = g2 BY <1>3, <2>3
      <3> HIDE DEF c
      <3>3. EndOK(e, world, version, c, cfg[e]) BY <2>1 DEF c
      <3>4. EndOK(e, world, version, c, g2) BY <3>1, <3>3 DEF EndOK
      <3> QED BY <3>2, <3>4 DEF c
    <2> QED BY <2>2, <2>3
  <1>5. \A e \in Ends : EndOK(e, world', version', conn'[e], cfg'[e]) BY <1>4
  <1>6. \A e \in Ends : conn'[e].outcome # "accepted" BY DEF TrustInv
  <1>7. stage' = "setup" /\ DOMAIN conn' = Ends BY <1>1
  <1> QED BY <1>2, <1>3, <1>5, <1>6, <1>7 DEF TrustInv

\* A step that gives one connection a new state.
LEMMA ConnStep ==
    ASSUME TrustInv, NEW e0 \in Ends, NEW c2, EndOK(e0, world, version, c2, cfg[e0]),
           conn' = [conn EXCEPT ![e0] = c2], UNCHANGED <<world, version, cfg>>
    PROVE  /\ DOMAIN cfg' = Ends /\ DOMAIN conn' = Ends
           /\ \A e \in Ends : EndOK(e, world', version', conn'[e], cfg'[e])
           /\ conn'[e0] = c2 /\ \A e \in Ends : e # e0 => conn'[e] = conn[e]
  <1>1. DOMAIN cfg = Ends /\ DOMAIN conn = Ends BY DEF TrustInv
  <1>2. DOMAIN conn' = Ends /\ conn'[e0] = c2 /\ \A e \in Ends : e # e0 => conn'[e] = conn[e] BY <1>1
  <1>3. ASSUME NEW e \in Ends PROVE EndOK(e, world', version', conn'[e], cfg'[e])
    <2>1. EndOK(e, world, version, conn[e], cfg[e]) BY DEF TrustInv
    <2>2. CASE e # e0 BY <1>2, <2>1, <2>2
    <2>3. CASE e = e0 BY <1>2, <2>3
    <2> QED BY <2>2, <2>3
  <1> QED BY <1>1, <1>2, <1>3

\* A call on a connection before its handshake.
LEMMA SetUpStep ==
    ASSUME TrustInv, NEW e0 \in Ends, NEW c2, EndOK(e0, world, version, c2, cfg[e0]),
           c2.outcome = conn[e0].outcome, OnConn(e0, c2)
    PROVE  TrustInv'
  <1>1. /\ conn' = [conn EXCEPT ![e0] = c2] /\ UNCHANGED <<world, version, cfg>>
        /\ UNCHANGED <<todo, staple, stage, shown, clock>> /\ stage = "setup"
    BY DEF OnConn
  <1>2. /\ DOMAIN cfg' = Ends /\ DOMAIN conn' = Ends
        /\ \A e \in Ends : EndOK(e, world', version', conn'[e], cfg'[e])
        /\ conn'[e0] = c2 /\ \A e \in Ends : e # e0 => conn'[e] = conn[e]
    BY <1>1, ConnStep
  <1>3. Static' BY <1>1 DEF TrustInv, Static
  <1>4. \A e \in Ends : conn[e].outcome # "accepted" BY <1>1 DEF TrustInv
  <1>5. \A e \in Ends : conn'[e].outcome # "accepted" BY <1>2, <1>4
  <1> QED BY <1>1, <1>2, <1>3, <1>5 DEF TrustInv

\* Setting one field of a configuration.
FieldOK(field, value) ==
    /\ field \in ConfigFields \ {"map", "defaults", "loaded"}
    /\ field = "store" => value \in StoreType
    /\ field = "depth" => value \in Nat
    /\ field \in {"disabled", "check_ocsp", "verify_host"} => value \in BOOLEAN

\* It leaves the configuration one.
LEMMA FieldSet ==
    ASSUME NEW g, ConfigOK(g), NEW field, NEW value, FieldOK(field, value), NEW r, r = [g EXCEPT ![field] = value]
    PROVE  ConfigOK(r)
  <1>1. DOMAIN g = ConfigFields /\ DOMAIN r = ConfigFields BY DEF ConfigOK
  <1>2. \A f \in ConfigFields : r[f] = IF f = field THEN value ELSE g[f] BY <1>1
  <1>3. {"map", "defaults", "loaded", "store", "depth", "disabled", "check_ocsp", "verify_host"}
          \subseteq ConfigFields
    BY DEF ConfigFields
  <1>4. r.map = g.map /\ r.defaults = g.defaults /\ r.loaded = g.loaded BY <1>2, <1>3 DEF FieldOK
  <1>5. r.store = IF field = "store" THEN value ELSE g.store BY <1>2, <1>3
  <1>6. r.depth = IF field = "depth" THEN value ELSE g.depth BY <1>2, <1>3
  <1>7. r.disabled = IF field = "disabled" THEN value ELSE g.disabled BY <1>2, <1>3
  <1>8. r.check_ocsp = IF field = "check_ocsp" THEN value ELSE g.check_ocsp BY <1>2, <1>3
  <1>9. r.verify_host = IF field = "verify_host" THEN value ELSE g.verify_host BY <1>2, <1>3
  <1>10. r.store \in StoreType BY <1>5 DEF ConfigOK, FieldOK
  <1>11. r.depth \in Nat BY <1>6 DEF ConfigOK, FieldOK
  <1>12. r.disabled \in BOOLEAN /\ r.check_ocsp \in BOOLEAN /\ r.verify_host \in BOOLEAN
    BY <1>7, <1>8, <1>9 DEF ConfigOK, FieldOK
  <1>13. MapOK(g.map) /\ g.defaults \in ByType /\ g.loaded \subseteq DOMAIN Chain BY DEF ConfigOK
  <1> QED BY <1>1, <1>4, <1>10, <1>11, <1>12, <1>13 DEF ConfigOK

\* What a call on a configuration may rely on.
LEMMA CallFacts ==
    ASSUME TrustInv, NEW op, Call(op)
    PROVE  /\ op.end \in Ends /\ ~conn[op.end].attached /\ stage = "setup" /\ todo' \subseteq todo
           /\ UNCHANGED <<world, conn, version, stage, shown, clock>>
           /\ ConfigOK(cfg[op.end]) /\ DOMAIN cfg = Ends
           /\ staple \in [DOMAIN Chain -> DOMAIN Response \cup {None}]
           /\ op \in Worlds[world].menu /\ world \in DOMAIN Worlds
  <1>1. Static /\ DOMAIN cfg = Ends /\ \A e \in Ends : EndOK(e, world, version, conn[e], cfg[e]) BY DEF TrustInv
  <1>2. /\ op \in todo /\ ~conn[op.end].attached /\ stage = "setup" /\ todo' = todo \ {op}
        /\ UNCHANGED <<world, conn, version, stage, shown, clock>>
    BY DEF Call
  <1>3. op \in Worlds[world].menu /\ world \in DOMAIN Worlds BY <1>1, <1>2 DEF Static
  <1>4. op.end \in Ends BY <1>3, WorldAssumption DEF Ends
  <1>5. ConfigOK(cfg[op.end]) BY <1>1, <1>4 DEF EndOK
  <1>6. staple \in [DOMAIN Chain -> DOMAIN Response \cup {None}] BY <1>1 DEF Static
  <1> QED BY <1>1, <1>2, <1>3, <1>4, <1>5, <1>6

\* A call that sets one field.
LEMMA SetStep ==
    ASSUME TrustInv, NEW op, Call(op), NEW field, NEW value, FieldOK(field, value), Set(op, field, value)
    PROVE  TrustInv'
  <1> DEFINE g == cfg[op.end]
             g2 == [g EXCEPT ![field] = value]
  <1>1. /\ op.end \in Ends /\ ~conn[op.end].attached /\ stage = "setup" /\ todo' \subseteq todo
        /\ UNCHANGED <<world, conn, version, stage, shown, clock>>
        /\ ConfigOK(g) /\ DOMAIN cfg = Ends
        /\ staple \in [DOMAIN Chain -> DOMAIN Response \cup {None}]
    BY CallFacts
  <1>2. ConfigOK(g2) BY <1>1, FieldSet
  <1>3. cfg' = [cfg EXCEPT ![op.end] = g2] /\ staple' = staple BY DEF Set
  <1> HIDE DEF g2
  <1> QED BY <1>1, <1>2, <1>3, ConfigStep

\* A chain in the table of names, and perhaps the default of its type.
LEMMA AddedOK ==
    ASSUME NEW g, ConfigOK(g), NEW chain \in DOMAIN Chain, s2n_cert_chain_and_key_load_pem(chain),
           NEW r, r = s2n_config_add_cert_chain_and_key_to_store(g, chain)
    PROVE  ConfigOK(r)
  <1> DEFINE t == Leaf(chain).kind
             m == s2n_config_build_domain_name_to_cert_map(g.map, g.tiebreak, chain)
             d == [g.defaults EXCEPT ![t] = IF g.explicit \/ @ # None THEN @ ELSE chain]
             l == g.loaded \cup {chain}
  <1>1. r = [g EXCEPT !.map = m, !.loaded = l, !.defaults = d]
    <2>1. r = [g EXCEPT !.map = m, !.loaded = l,
                        !.defaults[t] = IF g.explicit \/ @ # None THEN @ ELSE chain]
      BY Zenon DEF s2n_config_add_cert_chain_and_key_to_store
    <2> HIDE DEF t, m, l
    <2> QED BY <2>1
  <1>2. MapOK(g.map) BY DEF ConfigOK
  <1>3. MapOK(m) BY <1>2, FilingOK
  <1>4. g.defaults \in ByType BY DEF ConfigOK
  <1>5. d \in ByType
    <2> HIDE DEF t
    <2> QED BY <1>4 DEF ByType
  <1>6. l \subseteq DOMAIN Chain BY DEF ConfigOK
  <1> HIDE DEF m, d, l
  <1>7. /\ DOMAIN g = ConfigFields /\ g.store \in StoreType /\ g.depth \in Nat
        /\ g.disabled \in BOOLEAN /\ g.check_ocsp \in BOOLEAN /\ g.verify_host \in BOOLEAN
    BY DEF ConfigOK
  <1>8. /\ DOMAIN r = ConfigFields /\ r.map = m /\ r.defaults = d /\ r.loaded = l
        /\ r.store = g.store /\ r.depth = g.depth
    BY <1>1, <1>7 DEF ConfigFields
  <1>9. r.disabled = g.disabled /\ r.check_ocsp = g.check_ocsp /\ r.verify_host = g.verify_host
    BY <1>1, <1>7 DEF ConfigFields
  <1> QED BY <1>3, <1>5, <1>6, <1>7, <1>8, <1>9 DEF ConfigOK

\* The defaults, set by the application (s2n_config_set_cert_chain_and_key_defaults).
LEMMA DefaultsOK ==
    ASSUME NEW g, ConfigOK(g), NEW chain \in DOMAIN Chain, NEW t,
           NEW r, r = [g EXCEPT !.defaults = [NoCerts EXCEPT ![t] = chain], !.explicit = TRUE]
    PROVE  ConfigOK(r)
  <1> DEFINE d == [NoCerts EXCEPT ![t] = chain]
  <1>1. d \in ByType BY DEF NoCerts, ByType
  <1>2. r = [g EXCEPT !.defaults = d, !.explicit = TRUE] OBVIOUS
  <1> HIDE DEF d
  <1>3. /\ DOMAIN g = ConfigFields /\ MapOK(g.map) /\ g.loaded \subseteq DOMAIN Chain
        /\ g.store \in StoreType /\ g.depth \in Nat
        /\ g.disabled \in BOOLEAN /\ g.check_ocsp \in BOOLEAN /\ g.verify_host \in BOOLEAN
    BY DEF ConfigOK
  <1>4. /\ DOMAIN r = ConfigFields /\ r.map = g.map /\ r.defaults = d /\ r.loaded = g.loaded
        /\ r.store = g.store /\ r.depth = g.depth
    BY <1>2, <1>3 DEF ConfigFields
  <1>5. r.disabled = g.disabled /\ r.check_ocsp = g.check_ocsp /\ r.verify_host = g.verify_host
    BY <1>2, <1>3 DEF ConfigFields
  <1> QED BY <1>1, <1>3, <1>4, <1>5 DEF ConfigOK

\* The default chain is one of the chains, or none.
LEMMA SingleDefault ==
    ASSUME NEW g, g.defaults \in ByType
    PROVE  s2n_config_get_single_default_cert(g) \in DOMAIN Chain \cup {None}
  <1> DEFINE set == {i \in 1..Len(KeyTypes) : g.defaults[KeyTypes[i]] # None}
             k == CHOOSE i \in set : \A j \in set : i <= j
  <1>1. s2n_config_get_single_default_cert(g) = IF set = {} THEN None ELSE g.defaults[KeyTypes[k]]
    BY Zenon DEF s2n_config_get_single_default_cert
  <1>2. CASE set = {} BY <1>1, <1>2
  <1>3. CASE set # {}
    <2>1. set \in SUBSET Nat OBVIOUS
    <2> HIDE DEF set
    <2>2. \E i \in set : \A j \in set : i <= j BY <1>3, <2>1, LeastNatural
    <2>3. k \in set BY <2>2
    <2> HIDE DEF k
    <2>4. k \in 1..Len(KeyTypes) BY <2>3 DEF set
    <2>5. KeyTypes[k] \in ToSet(KeyTypes) BY <2>4 DEF ToSet
    <2>6. g.defaults[KeyTypes[k]] \in DOMAIN Chain \cup {None} BY <2>5 DEF ByType
    <2> QED BY <1>1, <1>3, <2>6
  <1> QED BY <1>2, <1>3

\* Every call on a configuration.
LEMMA ConfigureOK ==
    ASSUME TrustInv, Configure
    PROVE  TrustInv'
  <1>1. PICK op \in todo :
            \/ AddCertChain(op) \/ SetDefaults(op) \/ SetOcspData(op)
            \/ AddPem(op) \/ SetCaLocation(op) \/ WipeTrustStore(op) \/ DisableVerification(op)
            \/ SetMaxDepth(op) \/ IgnoreOcsp(op) \/ SetStatusRequest(op) \/ SetVerifyHost(op)
            \/ SetTiebreak(op) \/ SetConfigAuth(op)
    BY Zenon DEF Configure
  <1>2. Call(op)
    BY <1>1, Zenon DEF AddCertChain, SetDefaults, SetOcspData, AddPem, SetCaLocation, WipeTrustStore,
                       DisableVerification, SetMaxDepth, IgnoreOcsp, SetStatusRequest, SetVerifyHost,
                       SetTiebreak, SetConfigAuth
  <1> DEFINE e == op.end
             g == cfg[op.end]
  <1>3. /\ e \in Ends /\ ~conn[e].attached /\ stage = "setup" /\ todo' \subseteq todo
        /\ UNCHANGED <<world, conn, version, stage, shown, clock>>
        /\ ConfigOK(g) /\ DOMAIN cfg = Ends
        /\ staple \in [DOMAIN Chain -> DOMAIN Response \cup {None}]
        /\ op \in Worlds[world].menu /\ world \in DOMAIN Worlds
    BY <1>2, CallFacts
  <1>4. /\ op.op \in {"add_cert", "set_defaults"} => op.arg \in DOMAIN Chain
        /\ op.op = "add_pem" => op.arg \in DOMAIN Cert
        /\ op.op = "ocsp_data" => op.arg \in DOMAIN Response
    BY <1>3, WorldAssumption
  <1>5. ASSUME NEW g2, ConfigOK(g2), cfg' = [cfg EXCEPT ![e] = g2], staple' = staple PROVE TrustInv'
    BY <1>3, <1>5, ConfigStep
  <1>6. NullStore \in StoreType BY DEF NullStore, StoreType
  <1>7. g.store \in StoreType BY <1>3 DEF ConfigOK
  <1>10. CASE AddCertChain(op)
    <2> DEFINE r == s2n_config_add_cert_chain_and_key_to_store(g, op.arg)
               g2 == IF s2n_cert_chain_and_key_load_pem(op.arg) THEN r ELSE g
    <2>1. op.op = "add_cert" /\ cfg' = [cfg EXCEPT ![e] = g2] /\ staple' = staple
      BY <1>10 DEF AddCertChain
    <2>2. op.arg \in DOMAIN Chain BY <1>4, <2>1
    <2>3. s2n_cert_chain_and_key_load_pem(op.arg) => ConfigOK(r) BY <1>3, <2>2, AddedOK
    <2> HIDE DEF r
    <2>4. ConfigOK(g2) BY <1>3, <2>3
    <2> HIDE DEF g2
    <2> QED BY <1>5, <2>1, <2>4
  <1>11. CASE SetDefaults(op)
    <2> DEFINE t == Leaf(op.arg).kind
               g2 == [g EXCEPT !.defaults = [NoCerts EXCEPT ![t] = op.arg], !.explicit = TRUE]
    <2>1. /\ op.op = "set_defaults" /\ staple' = staple
          /\ cfg' = [cfg EXCEPT ![op.end].defaults = [NoCerts EXCEPT ![t] = op.arg], ![op.end].explicit = TRUE]
      BY <1>11, Zenon DEF SetDefaults
    <2>2. op.arg \in DOMAIN Chain BY <1>4, <2>1
    <2> HIDE DEF t
    <2>3. cfg' = [cfg EXCEPT ![e] = g2]
      <3> DEFINE d == [NoCerts EXCEPT ![t] = op.arg]
      <3> HIDE DEF d
      <3>1. cfg' = [cfg EXCEPT ![op.end].defaults = d, ![op.end].explicit = TRUE] BY <2>1 DEF d
      <3>2. cfg' = [cfg EXCEPT ![op.end] = [g EXCEPT !.defaults = d, !.explicit = TRUE]] BY <1>3, <3>1
      <3> QED BY <3>2 DEF d
    <2>4. ConfigOK(g2) BY <1>3, <2>2, DefaultsOK
    <2> HIDE DEF g2
    <2> QED BY <1>5, <2>1, <2>3, <2>4
  <1>12. CASE SetOcspData(op)
    <2> DEFINE chain == s2n_config_get_single_default_cert(g)
    <2>1. /\ op.op = "ocsp_data" /\ cfg' = cfg
          /\ staple' = IF chain = None THEN staple ELSE [staple EXCEPT ![chain] = op.arg]
      BY <1>12, Zenon DEF SetOcspData
    <2>2. op.arg \in DOMAIN Response BY <1>4, <2>1
    <2> HIDE DEF chain
    <2>3. staple' \in [DOMAIN Chain -> DOMAIN Response \cup {None}] BY <1>3, <2>1, <2>2
    <2>4. UNCHANGED <<world, cfg, conn, version, stage, shown, clock>> /\ todo' \subseteq todo BY <1>3, <2>1
    <2>5. Static' BY <2>3, <2>4 DEF TrustInv, Static
    <2> QED BY <2>4, <2>5 DEF TrustInv
  <1>13. CASE AddPem(op)
    <2> DEFINE s == s2n_x509_trust_store_add_pem(g.store, op.arg)
    <2>1. op.op = "add_pem" /\ Set(op, "store", s) BY <1>13, Zenon DEF AddPem
    <2>2. s \in StoreType BY <1>4, <1>7, <2>1 DEF s2n_x509_trust_store_add_pem, StoreType
    <2> HIDE DEF s
    <2>3. FieldOK("store", s) BY <2>2 DEF FieldOK, ConfigFields
    <2> QED BY <1>2, <2>1, <2>3, SetStep
  <1>14. CASE SetCaLocation(op)
    <2> DEFINE s == s2n_x509_trust_store_from_ca_file(g.store, op.arg)
               g1 == [g EXCEPT !["store"] = s]
               q == g.status_request \/ ~s.null
               g2 == [g1 EXCEPT !["status_request"] = q]
    <2>1. /\ staple' = staple
          /\ cfg' = [cfg EXCEPT ![op.end].store = s, ![op.end].status_request = @ \/ ~s.null]
      BY <1>14, Zenon DEF SetCaLocation
    <2>2. s \in StoreType BY <1>6, <1>7 DEF s2n_x509_trust_store_from_ca_file, StoreType
    <2> HIDE DEF s
    <2>3. cfg' = [cfg EXCEPT ![e] = g2] BY <1>3, <2>1 DEF ConfigOK, ConfigFields
    <2>4. FieldOK("store", s) BY <2>2 DEF FieldOK, ConfigFields
    <2>5. ConfigOK(g1) BY <1>3, <2>4, FieldSet
    <2> HIDE DEF g1, q
    <2>6. FieldOK("status_request", q) BY DEF FieldOK, ConfigFields
    <2>7. ConfigOK(g2) BY <2>5, <2>6, FieldSet
    <2> HIDE DEF g2
    <2> QED BY <1>5, <2>1, <2>3, <2>7
  <1>15. CASE WipeTrustStore(op)
    <2>1. Set(op, "store", NullStore) BY <1>15, Zenon DEF WipeTrustStore
    <2>2. FieldOK("store", NullStore) BY <1>6 DEF FieldOK, ConfigFields
    <2> QED BY <1>2, <2>1, <2>2, SetStep
  <1>16. CASE DisableVerification(op)
    <2> DEFINE s == NullStore
               g1 == [g EXCEPT !["store"] = s]
               g2 == [g1 EXCEPT !["disabled"] = TRUE]
    <2>1. staple' = staple /\ cfg' = [cfg EXCEPT ![op.end].store = s, ![op.end].disabled = TRUE]
      BY <1>16, Zenon DEF DisableVerification
    <2>2. FieldOK("store", s) BY <1>6 DEF FieldOK, ConfigFields
    <2> HIDE DEF s
    <2>3. cfg' = [cfg EXCEPT ![e] = g2] BY <1>3, <2>1 DEF ConfigOK, ConfigFields
    <2>4. ConfigOK(g1) BY <1>3, <2>2, FieldSet
    <2> HIDE DEF g1
    <2>5. FieldOK("disabled", TRUE) BY DEF FieldOK, ConfigFields
    <2>6. ConfigOK(g2) BY <2>4, <2>5, FieldSet
    <2> HIDE DEF g2
    <2> QED BY <1>5, <2>1, <2>3, <2>6
  <1>17. CASE SetMaxDepth(op)
    <2> DEFINE n == scene.depth
    <2>1. Set(op, "depth", n) BY <1>17, Zenon DEF SetMaxDepth
    <2>2. n \in Nat BY <1>3, WorldAssumption DEF scene
    <2> HIDE DEF n
    <2>3. FieldOK("depth", n) BY <2>2 DEF FieldOK, ConfigFields
    <2> QED BY <1>2, <2>1, <2>3, SetStep
  <1>18. CASE IgnoreOcsp(op)
    <2>1. Set(op, "check_ocsp", FALSE) BY <1>18, Zenon DEF IgnoreOcsp
    <2>2. FieldOK("check_ocsp", FALSE) BY DEF FieldOK, ConfigFields
    <2> QED BY <1>2, <2>1, <2>2, SetStep
  <1>19. CASE SetStatusRequest(op)
    <2>1. Set(op, "status_request", TRUE) BY <1>19, Zenon DEF SetStatusRequest
    <2>2. FieldOK("status_request", TRUE) BY DEF FieldOK, ConfigFields
    <2> QED BY <1>2, <2>1, <2>2, SetStep
  <1>20. CASE SetVerifyHost(op)
    <2>1. Set(op, "verify_host", TRUE) BY <1>20, Zenon DEF SetVerifyHost
    <2>2. FieldOK("verify_host", TRUE) BY DEF FieldOK, ConfigFields
    <2> QED BY <1>2, <2>1, <2>2, SetStep
  <1>21. CASE SetTiebreak(op)
    <2>1. Set(op, "tiebreak", TRUE) BY <1>21, Zenon DEF SetTiebreak
    <2>2. FieldOK("tiebreak", TRUE) BY DEF FieldOK, ConfigFields
    <2> QED BY <1>2, <2>1, <2>2, SetStep
  <1>22. CASE SetConfigAuth(op)
    <2>1. Set(op, "auth", op.arg) BY <1>22, Zenon DEF SetConfigAuth
    <2>2. FieldOK("auth", op.arg) BY DEF FieldOK, ConfigFields
    <2> QED BY <1>2, <2>1, <2>2, SetStep
  <1> QED BY <1>1, <1>10, <1>11, <1>12, <1>13, <1>14, <1>15, <1>16, <1>17, <1>18, <1>19, <1>20, <1>21, <1>22

-----------------------------------------------------------------------------
(***************************************************************************)
(* The calls on a connection before its handshake.                         *)
(***************************************************************************)
LEMMA AttachOK ==
    ASSUME TrustInv, NEW e \in Ends, AttachConfig(e)
    PROVE  TrustInv'
  <1> DEFINE c == conn[e]
             g == cfg[e]
             names == Worlds[world].names
             r == s2n_connection_set_config(c, e, g)
             c2 == [r EXCEPT !.attached = TRUE]
  <1>1. OnConn(e, c2) /\ stage = "setup" BY Zenon DEF AttachConfig, OnConn
  <1>2. ConfigOK(g) /\ ConnOK(c, names) /\ c.outcome # "accepted" BY <1>1 DEF TrustInv, EndOK
  <1> HIDE DEF c, g, names
  <1>3. /\ ConnOK(r, names) /\ r.attached = c.attached /\ r.outcome = c.outcome
        /\ AskedOf(e, r, g) => Prepared(r, g)
    BY <1>2, SetConfigFits
  <1> HIDE DEF r
  <1>4. /\ DOMAIN r = ConnFields /\ r.v \in ValidatorType /\ r.server_name \in names \cup {<<>>}
        /\ r.attached \in BOOLEAN /\ r.overridden \in BOOLEAN /\ r.late \in BOOLEAN
        /\ r.overridden => r.verify = "callback"
    BY <1>3 DEF ConnOK
  <1>5. /\ DOMAIN c2 = ConnFields /\ c2.v = r.v /\ c2.server_name = r.server_name /\ c2.attached = TRUE
        /\ c2.verify = r.verify /\ c2.auth = r.auth /\ c2.outcome = r.outcome
    BY <1>4 DEF ConnFields
  <1>6. c2.overridden = r.overridden /\ c2.late = r.late BY <1>4 DEF ConnFields
  <1> HIDE DEF c2
  <1>7. ConnOK(c2, names) BY <1>4, <1>5, <1>6 DEF ConnOK
  <1>8. AskedOf(e, c2, g) => Prepared(c2, g)
    <2> SUFFICES ASSUME AskedOf(e, c2, g) PROVE Prepared(c2, g) OBVIOUS
    <2>1. AskedOf(e, r, g) BY <1>5, <1>6 DEF AskedOf, AuthOf
    <2> QED BY <1>3, <1>5, <1>6, <2>1 DEF Prepared, Comparing
  <1>9. ConfigOf(c2, g, Worlds[world].system) = g BY <1>5 DEF ConfigOf
  <1>10. EndOK(e, world, version, c2, g)
    BY <1>2, <1>3, <1>5, <1>7, <1>8, <1>9 DEF EndOK, Fitted, Accepting, names
  <1> QED BY <1>1, <1>3, <1>5, <1>10, SetUpStep DEF c, g

\* A connection keeps what its validator was made for.
SameTask(c, d) ==
    /\ d.v.skip = c.v.skip /\ d.v.check_ocsp = c.v.check_ocsp /\ d.v.depth = c.v.depth
    /\ d.attached = c.attached

\* Then the validator still fits.
LEMMA StillFitted ==
    ASSUME NEW e, NEW w, NEW ver, NEW g, NEW c, EndOK(e, w, ver, c, g), c.outcome # "accepted",
           NEW d, ConnOK(d, Worlds[w].names), SameTask(c, d), d.outcome = c.outcome,
           \A h : AskedOf(e, d, h) /\ (e = "client" \/ d.attached) => AskedOf(e, c, h),
           \A h : Comparing(c, h) => Comparing(d, h)
    PROVE  EndOK(e, w, ver, d, g)
  <1> DEFINE h == ConfigOf(c, g, Worlds[w].system)
  <1>1. ConfigOf(d, g, Worlds[w].system) = h BY DEF ConfigOf, SameTask
  <1>2. ConfigOK(g) /\ Fitted(e, c, h) BY DEF EndOK
  <1> HIDE DEF h
  <1>3. Fitted(e, d, h)
    <2> SUFFICES ASSUME e = "client" \/ d.attached, AskedOf(e, d, h) PROVE Prepared(d, h) BY DEF Fitted
    <2>1. AskedOf(e, c, h) /\ (e = "client" \/ c.attached) BY DEF SameTask
    <2>2. Prepared(c, h) BY <1>2, <2>1 DEF Fitted
    <2>3. Comparing(d, h) BY <2>2 DEF Prepared
    <2> QED BY <2>2, <2>3 DEF Prepared, SameTask
  <1>4. Accepting(e, ver, Worlds[w].callback, d, h) BY DEF Accepting
  <1> QED BY <1>1, <1>2, <1>3, <1>4 DEF EndOK

\* The name is no part of that, nor is the version while nothing is decided.
LEMMA NameSet ==
    ASSUME NEW e, NEW w, NEW ver, NEW g, NEW c, EndOK(e, w, ver, c, g), c.outcome # "accepted", NEW u,
           NEW name \in Worlds[w].names \cup {<<>>}, NEW d, d = [c EXCEPT !.server_name = name]
    PROVE  EndOK(e, w, u, d, g) /\ d.outcome = c.outcome /\ d.attached = c.attached
  <1>1. ConnOK(c, Worlds[w].names) BY DEF EndOK
  <1>2. /\ DOMAIN c = ConnFields
        /\ c.v \in ValidatorType /\ c.server_name \in Worlds[w].names \cup {<<>>}
        /\ c.attached \in BOOLEAN /\ c.overridden \in BOOLEAN /\ c.late \in BOOLEAN
        /\ c.overridden => c.verify = "callback"
    BY <1>1 DEF ConnOK
  <1>3. /\ DOMAIN d = ConnFields /\ d.v = c.v /\ d.server_name = name /\ d.verify = c.verify
        /\ d.auth = c.auth /\ d.outcome = c.outcome
    BY <1>2 DEF ConnFields
  <1>4. d.attached = c.attached /\ d.overridden = c.overridden /\ d.late = c.late BY <1>2 DEF ConnFields
  <1>5. ConnOK(d, Worlds[w].names) BY <1>2, <1>3, <1>4 DEF ConnOK
  <1>6. SameTask(c, d) BY <1>3, <1>4 DEF SameTask
  <1>7. \A h : AskedOf(e, d, h) => AskedOf(e, c, h) BY <1>3, <1>4 DEF AskedOf, AuthOf
  <1>8. \A h : Comparing(c, h) => Comparing(d, h) BY <1>3, <1>4 DEF Comparing
  <1>9. EndOK(e, w, u, c, g) BY DEF EndOK, Accepting
  <1>10. EndOK(e, w, u, d, g) BY <1>3, <1>5, <1>6, <1>7, <1>8, <1>9, StillFitted
  <1> QED BY <1>3, <1>4, <1>10

\* The connection's own comparison of names.
LEMMA OverrideOK ==
    ASSUME TrustInv, NEW e \in Ends, s2n_connection_set_verify_host_callback(e)
    PROVE  TrustInv'
  <1> DEFINE c == conn[e]
             g == cfg[e]
             w == world
             u == version
             d == [c EXCEPT !.verify = "callback", !.overridden = TRUE]
  <1>1. OnConn(e, d) /\ stage = "setup" BY Zenon DEF s2n_connection_set_verify_host_callback, OnConn
  <1>2. EndOK(e, w, u, c, g) /\ c.outcome # "accepted" BY <1>1 DEF TrustInv
  <1> HIDE DEF c, g, w, u
  <1>3. ConnOK(c, Worlds[w].names) BY <1>2 DEF EndOK
  <1>4. /\ DOMAIN c = ConnFields
        /\ c.v \in ValidatorType /\ c.server_name \in Worlds[w].names \cup {<<>>}
        /\ c.attached \in BOOLEAN /\ c.late \in BOOLEAN
    BY <1>3 DEF ConnOK
  <1>5. /\ DOMAIN d = ConnFields /\ d.v = c.v /\ d.server_name = c.server_name /\ d.verify = "callback"
        /\ d.auth = c.auth /\ d.outcome = c.outcome
    BY <1>4 DEF ConnFields
  <1>6. d.attached = c.attached /\ d.overridden = TRUE /\ d.late = c.late BY <1>4 DEF ConnFields
  <1> HIDE DEF d
  <1>7. ConnOK(d, Worlds[w].names) BY <1>4, <1>5, <1>6 DEF ConnOK
  <1>8. SameTask(c, d) BY <1>5, <1>6 DEF SameTask
  <1>9. \A h : AskedOf(e, d, h) => AskedOf(e, c, h) BY <1>5, <1>6 DEF AskedOf, AuthOf
  <1>10. \A h : Comparing(d, h) BY <1>5, <1>6 DEF Comparing
  <1>11. EndOK(e, w, u, d, g) BY <1>2, <1>5, <1>7, <1>8, <1>9, <1>10, StillFitted
  <1> QED BY <1>1, <1>5, <1>11, SetUpStep DEF c, g, w, u

\* The connection's own client authentication: too late if the configuration is set.
LEMMA AuthSetOK ==
    ASSUME TrustInv, NEW e \in Ends, s2n_connection_set_client_auth_type(e)
    PROVE  TrustInv'
  <1> DEFINE c == conn[e]
             g == cfg[e]
             w == world
             u == version
             d == [c EXCEPT !.auth = "REQUIRED", !.late = c.attached]
  <1>1. OnConn(e, d) /\ stage = "setup" BY Zenon DEF s2n_connection_set_client_auth_type, OnConn
  <1>2. EndOK(e, w, u, c, g) /\ c.outcome # "accepted" BY <1>1 DEF TrustInv
  <1> HIDE DEF c, g, w, u
  <1>3. ConnOK(c, Worlds[w].names) BY <1>2 DEF EndOK
  <1>4. /\ DOMAIN c = ConnFields
        /\ c.v \in ValidatorType /\ c.server_name \in Worlds[w].names \cup {<<>>}
        /\ c.attached \in BOOLEAN /\ c.overridden \in BOOLEAN
        /\ c.overridden => c.verify = "callback"
    BY <1>3 DEF ConnOK
  <1>5. /\ DOMAIN d = ConnFields /\ d.v = c.v /\ d.server_name = c.server_name /\ d.verify = c.verify
        /\ d.outcome = c.outcome
    BY <1>4 DEF ConnFields
  <1>6. d.attached = c.attached /\ d.overridden = c.overridden /\ d.late = c.attached BY <1>4 DEF ConnFields
  <1> HIDE DEF d
  <1>7. ConnOK(d, Worlds[w].names) BY <1>4, <1>5, <1>6 DEF ConnOK
  <1>8. SameTask(c, d) BY <1>5, <1>6 DEF SameTask
  <1>9. \A h : AskedOf(e, d, h) /\ (e = "client" \/ d.attached) => AskedOf(e, c, h) BY <1>6 DEF AskedOf
  <1>10. \A h : Comparing(c, h) => Comparing(d, h) BY <1>5, <1>6 DEF Comparing
  <1>11. EndOK(e, w, u, d, g) BY <1>2, <1>5, <1>7, <1>8, <1>9, <1>10, StillFitted
  <1> QED BY <1>1, <1>5, <1>11, SetUpStep DEF c, g, w, u

\* The name to ask for.
LEMMA ServerNameOK ==
    ASSUME TrustInv, NEW name \in scene.names, s2n_set_server_name(name)
    PROVE  TrustInv'
  <1> DEFINE e == "client"
             c == conn[e]
             g == cfg[e]
             w == world
             u == version
             d == [c EXCEPT !.server_name = name]
  <1>1. OnConn(e, d) /\ stage = "setup" BY Zenon DEF s2n_set_server_name, OnConn
  <1>2. e \in Ends /\ name \in Worlds[w].names BY DEF Ends, scene
  <1>3. EndOK(e, w, u, c, g) /\ c.outcome # "accepted" BY <1>1, <1>2 DEF TrustInv
  <1> HIDE DEF c, g, w, u, e
  <1>4. EndOK(e, w, u, d, g) /\ d.outcome = c.outcome BY <1>2, <1>3, NameSet
  <1> HIDE DEF d
  <1> QED BY <1>1, <1>2, <1>4, SetUpStep DEF c, g, w, u

\* Every call on a connection.
LEMMA SetUpOK ==
    ASSUME TrustInv, SetUp
    PROVE  TrustInv'
  BY AttachOK, OverrideOK, AuthSetOK, ServerNameOK, Zenon DEF SetUp

-----------------------------------------------------------------------------
(***************************************************************************)
(* The handshake.  Until something is decided the connections stay as they *)
(* are, but for the server's learning the name.                            *)
(***************************************************************************)
LEMMA HelloOK ==
    ASSUME TrustInv, ClientHello
    PROVE  TrustInv'
  <1> DEFINE c == conn["client"]
             d == conn["server"]
             name == c.server_name
             d2 == [d EXCEPT !.server_name = name]
             w == world
             u == version'
  <1>1. /\ stage = "setup" /\ d.attached /\ conn' = [conn EXCEPT !["server"].server_name = name]
        /\ stage' = "hello" /\ shown' = Nothing /\ UNCHANGED <<world, todo, cfg, staple, clock>>
    BY DEF ClientHello
  <1>2. /\ "client" \in Ends /\ "server" \in Ends /\ "client" # "server"
        /\ \A e \in Ends : e \in {"client", "server"}
    BY DEF Ends
  <1>3. /\ EndOK("client", w, version, c, cfg["client"]) /\ EndOK("server", w, version, d, cfg["server"])
        /\ c.outcome # "accepted" /\ d.outcome # "accepted" /\ DOMAIN conn = Ends /\ DOMAIN cfg = Ends /\ Static
    BY <1>1, <1>2 DEF TrustInv
  <1>4. name \in Worlds[w].names \cup {<<>>} BY <1>3 DEF EndOK, ConnOK
  <1>5. conn' = [conn EXCEPT !["server"] = d2] BY <1>1, <1>2, <1>3
  <1>6. DOMAIN conn' = Ends /\ conn'["client"] = c /\ conn'["server"] = d2 BY <1>2, <1>3, <1>5
  <1>7. EndOK("client", w, u, c, cfg["client"]) BY <1>3 DEF EndOK, Accepting
  <1> DEFINE g == cfg["server"]
             v0 == version
             e0 == "server"
  <1>8. EndOK(e0, w, v0, d, g) /\ d.outcome # "accepted" /\ name \in Worlds[w].names \cup {<<>>} BY <1>3, <1>4
  <1> HIDE DEF c, d, name, w, u, g, v0, e0
  <1>9. EndOK(e0, w, u, d2, g) /\ d2.outcome = d.outcome /\ d2.attached = d.attached BY <1>8, NameSet
  <1> HIDE DEF d2
  <1>10. \A e \in Ends : EndOK(e, world', version', conn'[e], cfg'[e])
    BY <1>1, <1>2, <1>6, <1>7, <1>9 DEF w, u, g, e0
  <1>11. Static'
    <2>1. Nothing \in ShownType BY DEF Nothing, ShownType
    <2> QED BY <1>1, <1>3, <2>1 DEF Static
  <1>12. /\ DOMAIN cfg' = Ends /\ DOMAIN conn' = Ends /\ stage' = "hello"
         /\ conn'["server"].attached /\ conn'["client"].outcome # "accepted"
    BY <1>1, <1>3, <1>6, <1>9
  <1> QED BY <1>10, <1>11, <1>12 DEF TrustInv

\* A step between two messages that leaves the connections alone.
LEMMA MessageStep ==
    ASSUME TrustInv, NEW next, Handshaking(next), UNCHANGED <<conn, version>>, shown' \in ShownType,
           stage # "setup", next \notin {"setup", "status", "hello"},
           next = "server_cert" => stage \in {"hello", "server_cert"},
           next = "client_cert" => shown'.response = None
    PROVE  TrustInv'
  <1>1. stage' = next /\ UNCHANGED <<world, todo, cfg, staple, clock>> BY DEF Handshaking
  <1>2. Static' BY <1>1 DEF TrustInv, Static
  <1>3. /\ DOMAIN cfg' = Ends /\ DOMAIN conn' = Ends
        /\ \A e \in Ends : EndOK(e, world', version', conn'[e], cfg'[e])
    BY <1>1 DEF TrustInv
  <1>4. conn'["server"].attached BY DEF TrustInv
  <1>5. next = "server_cert" => conn'["client"].outcome # "accepted" BY DEF TrustInv
  <1> QED BY <1>1, <1>2, <1>3, <1>4, <1>5 DEF TrustInv

\* The server's chain.
LEMMA CertSendOK ==
    ASSUME TrustInv, s2n_server_cert_send
    PROVE  TrustInv'
  <1> DEFINE found == Candidates(cfg["server"], conn["server"].server_name)
             kinds == {t \in scene.kinds : found[t] # None}
  <1>1. /\ stage = "hello"
        /\ \/ Handshaking("failed") /\ UNCHANGED <<conn, version, shown>>
           \/ \E t \in kinds :
                 /\ shown' = [certs |-> Chain[found[t]].certs, chain |-> found[t], honest |-> TRUE,
                              response |-> IF StatusRequested THEN staple[found[t]] ELSE None]
                 /\ Handshaking("server_cert") /\ UNCHANGED <<conn, version>>
    BY Zenon DEF s2n_server_cert_send
  <1>2. "server" \in Ends /\ Static /\ world \in DOMAIN Worlds BY DEF Ends, TrustInv, Static
  <1>3. EndOK("server", world, version, conn["server"], cfg["server"]) BY <1>2 DEF TrustInv
  <1>4. /\ MapOK(cfg["server"].map) /\ cfg["server"].defaults \in ByType
        /\ conn["server"].server_name \in Worlds[world].names \cup {<<>>}
    BY <1>3 DEF EndOK, ConfigOK, ConnOK
  <1>5. found \in ByType BY <1>2, <1>4, CandidatesOK
  <1> HIDE DEF found
  <1>6. CASE Handshaking("failed") /\ UNCHANGED <<conn, version, shown>>
    <2>1. shown' \in ShownType BY <1>2, <1>6 DEF Static
    <2> QED BY <1>1, <1>6, <2>1, MessageStep
  <1>7. ASSUME NEW t \in kinds,
               shown' = [certs |-> Chain[found[t]].certs, chain |-> found[t], honest |-> TRUE,
                         response |-> IF StatusRequested THEN staple[found[t]] ELSE None],
               Handshaking("server_cert"), UNCHANGED <<conn, version>>
        PROVE  TrustInv'
    <2> DEFINE x == found[t]
               q == IF StatusRequested THEN staple[x] ELSE None
    <2>1. x # None OBVIOUS
    <2>2. x \in DOMAIN Chain
      <3>1. t \in ToSet(KeyTypes) BY <1>2, WorldAssumption DEF scene
      <3> QED BY <1>5, <2>1, <3>1 DEF ByType
    <2> HIDE DEF x
    <2>3. Chain[x].certs \in Seq(DOMAIN Cert) BY <2>2, TableAssumption
    <2>4. q \in DOMAIN Response \cup {None} BY <1>2, <2>2 DEF Static
    <2>5. shown' = [certs |-> Chain[x].certs, chain |-> x, honest |-> TRUE, response |-> q] BY <1>7 DEF x
    <2> HIDE DEF q
    <2>6. shown' \in ShownType BY <2>2, <2>3, <2>4, <2>5 DEF ShownType
    <2> QED BY <1>1, <1>7, <2>6, MessageStep
  <1> QED BY <1>1, <1>6, <1>7

\* The chain of another implementation.
LEMMA StrangersOK ==
    ASSUME TrustInv, NEW from, NEW to, StrangersCert(from, to),
           <<from, to>> \in {<<"hello", "server_cert">>, <<"server_done", "client_cert">>}
    PROVE  TrustInv'
  <1>1. stage = from /\ Handshaking(to) /\ UNCHANGED <<conn, version>> BY DEF StrangersCert
  <1>2. PICK c \in scene.strangers, r \in scene.responses \cup {None} :
            /\ r # None => to = "server_cert"
            /\ shown' = [certs |-> Chain[c].certs, chain |-> c, response |-> r, honest |-> FALSE]
    BY DEF StrangersCert
  <1>3. world \in DOMAIN Worlds BY DEF TrustInv, Static
  <1>4. c \in DOMAIN Chain /\ r \in DOMAIN Response \cup {None}
    <2>1. Worlds[world].strangers \subseteq DOMAIN Chain /\ Worlds[world].responses \subseteq DOMAIN Response
      BY <1>3, WorldAssumption
    <2> QED BY <2>1 DEF scene
  <1>5. Chain[c].certs \in Seq(DOMAIN Cert) BY <1>4, TableAssumption
  <1>6. shown' \in ShownType BY <1>2, <1>4, <1>5 DEF ShownType
  <1>7. to = "client_cert" => shown'.response = None BY <1>2
  <1> QED BY <1>1, <1>6, <1>7, MessageStep

(***************************************************************************)
(* A decision.  Held is what was established of what has been shown, by    *)
(* the time the verdict is given.                                          *)
(***************************************************************************)
Decided(c, v, show, t, s, outcome) ==
    [c EXCEPT !.v = v, !.peer = show.certs, !.response = show.response, !.checked = t, !.stapled = s,
              !.outcome = outcome]
Held(ver, callback, c, g, show, t, s) ==
    /\ SoundOf(ver, callback, c, g, show.certs, t)
    /\ g.check_ocsp /\ show.response # None => Vouches(show.response, show.certs[1], g.store, show.certs, t, s)

Deciding(e, w, u, g, c, v, show, t, s, outcome, h, d) ==
    /\ EndOK(e, w, u, c, g) /\ h = ConfigOf(c, g, Worlds[w].system)
    /\ v \in ValidatorType /\ v.skip = c.v.skip /\ v.check_ocsp = c.v.check_ocsp /\ v.depth = c.v.depth
    /\ outcome = "accepted" /\ AskedOf(e, c, h) => Held(u, Worlds[w].callback, c, h, show, t, s)
    /\ d = Decided(c, v, show, t, s, outcome)

\* The connection after a decision.
LEMMA DecidedOK ==
    ASSUME NEW e, NEW w, NEW u, NEW g, NEW c, NEW v, NEW show, NEW t, NEW s, NEW outcome, NEW h, NEW d,
           Deciding(e, w, u, g, c, v, show, t, s, outcome, h, d)
    PROVE  /\ EndOK(e, w, u, d, g) /\ d.attached = c.attached /\ d.outcome = outcome
           /\ d.v = v /\ d.peer = show.certs /\ d.checked = t
           /\ ConfigOf(d, g, Worlds[w].system) = h /\ (AskedOf(e, d, h) <=> AskedOf(e, c, h))
           /\ \A certs : SoundOf(u, Worlds[w].callback, d, h, certs, t)
                         <=> SoundOf(u, Worlds[w].callback, c, h, certs, t)
  <1>0. /\ EndOK(e, w, u, c, g) /\ h = ConfigOf(c, g, Worlds[w].system)
        /\ v \in ValidatorType /\ v.skip = c.v.skip /\ v.check_ocsp = c.v.check_ocsp /\ v.depth = c.v.depth
        /\ outcome = "accepted" /\ AskedOf(e, c, h) => Held(u, Worlds[w].callback, c, h, show, t, s)
        /\ d = Decided(c, v, show, t, s, outcome)
    BY DEF Deciding
  <1>1. ConnOK(c, Worlds[w].names) /\ ConfigOK(g) /\ Fitted(e, c, h) BY <1>0 DEF EndOK
  <1>2. /\ DOMAIN c = ConnFields
        /\ c.v \in ValidatorType /\ c.server_name \in Worlds[w].names \cup {<<>>}
        /\ c.attached \in BOOLEAN /\ c.overridden \in BOOLEAN /\ c.late \in BOOLEAN
        /\ c.overridden => c.verify = "callback"
    BY <1>1 DEF ConnOK
  <1>3. /\ DOMAIN d = ConnFields /\ d.v = v /\ d.server_name = c.server_name /\ d.verify = c.verify
        /\ d.auth = c.auth /\ d.outcome = outcome /\ d.peer = show.certs /\ d.response = show.response
        /\ d.checked = t /\ d.stapled = s
    BY <1>0, <1>2 DEF ConnFields, Decided
  <1>4. d.attached = c.attached /\ d.overridden = c.overridden /\ d.late = c.late
    BY <1>0, <1>2 DEF ConnFields, Decided
  <1> DEFINE callback == Worlds[w].callback
             system == Worlds[w].system
             names == Worlds[w].names
  <1>5. ConfigOf(d, g, system) = h BY <1>0, <1>4 DEF ConfigOf
  <1> HIDE DEF callback, system, names
  <1>6. AskedOf(e, d, h) <=> AskedOf(e, c, h) BY <1>3, <1>4 DEF AskedOf, AuthOf
  <1>7. ConnOK(d, names) BY <1>0, <1>2, <1>3, <1>4 DEF ConnOK, names
  <1>8. Fitted(e, d, h)
    <2> SUFFICES ASSUME e = "client" \/ d.attached, AskedOf(e, d, h) PROVE Prepared(d, h) BY DEF Fitted
    <2>1. Prepared(c, h) BY <1>1, <1>4, <1>6 DEF Fitted
    <2>2. Comparing(d, h) BY <1>3, <1>4, <2>1 DEF Prepared, Comparing
    <2> QED BY <1>0, <1>3, <2>1, <2>2 DEF Prepared
  <1>9. ASSUME NEW certs PROVE SoundOf(u, callback, d, h, certs, t) <=> SoundOf(u, callback, c, h, certs, t)
    BY <1>3, <1>4, Zenon DEF SoundOf
  <1>10. Accepting(e, u, callback, d, h)
    <2> SUFFICES ASSUME outcome = "accepted", AskedOf(e, d, h) PROVE TrustedOf(u, callback, d, h)
      BY <1>3 DEF Accepting
    <2>1. Held(u, callback, c, h, show, t, s) BY <1>0, <1>6 DEF callback
    <2>2. SoundOf(u, callback, d, h, show.certs, t) BY <1>9, <2>1 DEF Held
    <2> QED BY <1>3, <2>1, <2>2 DEF Held, TrustedOf
  <1>11. EndOK(e, w, u, d, g) BY <1>1, <1>5, <1>7, <1>8, <1>10 DEF EndOK, callback, system, names
  <1> QED BY <1>3, <1>4, <1>5, <1>6, <1>9, <1>11 DEF callback, system

\* What a decision does.
LEMMA DecideIs ==
    ASSUME TrustInv, NEW e \in Ends, NEW v, NEW t, NEW done, NEW next, Decide(e, v, t, done, next)
    PROVE  LET ok == v.state # "FAILED"
               outcome == IF ~ok THEN "rejected" ELSE IF done THEN "accepted" ELSE conn[e].outcome
           IN /\ conn' = [conn EXCEPT ![e] = Decided(conn[e], v, shown, t, now, outcome)]
              /\ stage' = IF ok THEN next ELSE "failed"
              /\ UNCHANGED <<world, todo, cfg, staple, clock, version, shown>>
  <1> DEFINE ok == v.state # "FAILED"
             outcome == IF ~ok THEN "rejected" ELSE IF done THEN "accepted" ELSE conn[e].outcome
  <1>1. /\ conn' = [conn EXCEPT ![e].v = v, ![e].peer = shown.certs, ![e].response = shown.response,
                                ![e].checked = t, ![e].stapled = now,
                                ![e].outcome = IF ~ok THEN "rejected" ELSE IF done THEN "accepted" ELSE @]
        /\ Handshaking(IF ok THEN next ELSE "failed") /\ UNCHANGED <<version, shown>>
    BY Zenon DEF Decide
  <1>2. DOMAIN conn = Ends BY DEF TrustInv
  <1>3. DOMAIN conn[e] = ConnFields
    <2>1. EndOK(e, world, version, conn[e], cfg[e]) BY DEF TrustInv
    <2> QED BY <2>1 DEF EndOK, ConnOK
  <1>4. stage' = (IF ok THEN next ELSE "failed") /\ UNCHANGED <<world, todo, cfg, staple, clock>>
    BY <1>1 DEF Handshaking
  <1> DEFINE n == now
             bad == ~ok
  <1>5. conn' = [conn EXCEPT ![e].v = v, ![e].peer = shown.certs, ![e].response = shown.response,
                             ![e].checked = t, ![e].stapled = n,
                             ![e].outcome = IF bad THEN "rejected" ELSE IF done THEN "accepted" ELSE @]
    BY <1>1
  <1> HIDE DEF n, bad
  <1> DEFINE out == IF bad THEN "rejected" ELSE IF done THEN "accepted" ELSE conn[e].outcome
  <1>6. conn' = [conn EXCEPT ![e] = [conn[e] EXCEPT !.v = v, !.peer = shown.certs, !.response = shown.response,
                                                    !.checked = t, !.stapled = n, !.outcome = out]]
    BY <1>2, <1>3, <1>5 DEF ConnFields
  <1>7. conn' = [conn EXCEPT ![e] = Decided(conn[e], v, shown, t, n, out)] BY <1>6 DEF Decided
  <1> QED BY <1>1, <1>4, <1>7 DEF n, bad

\* A decision that rests on what was established keeps the invariant.
LEMMA DecideStep ==
    ASSUME TrustInv, NEW e0 \in Ends, NEW c, c = conn[e0],
           NEW g, g = ConfigOf(c, cfg[e0], Worlds[world].system),
           NEW v \in ValidatorType, v.skip = c.v.skip, v.check_ocsp = c.v.check_ocsp, v.depth = c.v.depth,
           NEW t, NEW done, NEW next, Decide(e0, v, t, done, next),
           stage # "setup", next \notin {"setup", "hello", "server_cert", "client_cert"},
           done \in BOOLEAN, ~done => c.outcome # "accepted", next = "status" => e0 = "client",
           done /\ v.state # "FAILED" /\ AskedOf(e0, c, g)
              => Held(version, Worlds[world].callback, c, g, shown, t, now),
           next = "status" /\ v.state # "FAILED" /\ AskedOf(e0, c, g)
              => /\ SoundOf(version, Worlds[world].callback, c, g, shown.certs, t)
                 /\ Backed(v, g.store, shown.certs, t)
    PROVE  TrustInv'
  <1> DEFINE ok == v.state # "FAILED"
             outcome == IF ~ok THEN "rejected" ELSE IF done THEN "accepted" ELSE c.outcome
             d == Decided(c, v, shown, t, now, outcome)
             g0 == cfg[e0]
             w == world
             u == version
             callback == Worlds[world].callback
             show == shown
             s == now
  <1>1. /\ conn' = [conn EXCEPT ![e0] = d] /\ stage' = (IF ok THEN next ELSE "failed")
        /\ UNCHANGED <<world, todo, cfg, staple, clock, version, shown>>
    BY DecideIs
  <1>2. EndOK(e0, w, u, c, g0) BY DEF TrustInv
  <1>3. outcome = "accepted" /\ AskedOf(e0, c, g) => Held(u, callback, c, g, show, t, s) OBVIOUS
  <1>4. d = Decided(c, v, show, t, s, outcome) /\ g = ConfigOf(c, g0, Worlds[w].system)
        /\ callback = Worlds[w].callback
    OBVIOUS
  <1> HIDE DEF outcome, d, g0, w, u, callback, show, s, ok
  <1>5. /\ EndOK(e0, w, u, d, g0) /\ d.attached = c.attached /\ d.outcome = outcome
        /\ d.v = v /\ d.peer = show.certs /\ d.checked = t
        /\ ConfigOf(d, g0, Worlds[w].system) = g /\ (AskedOf(e0, d, g) <=> AskedOf(e0, c, g))
        /\ \A certs : SoundOf(u, callback, d, g, certs, t) <=> SoundOf(u, callback, c, g, certs, t)
    <2>1. Deciding(e0, w, u, g0, c, v, show, t, s, outcome, g, d) BY <1>2, <1>3, <1>4 DEF Deciding
    <2> QED BY <1>4, <2>1, DecidedOK
  <1>6. EndOK(e0, world, version, d, cfg[e0]) BY <1>5 DEF w, u, g0
  <1>7. /\ DOMAIN cfg' = Ends /\ DOMAIN conn' = Ends
        /\ \A e \in Ends : EndOK(e, world', version', conn'[e], cfg'[e])
        /\ conn'[e0] = d /\ \A e \in Ends : e # e0 => conn'[e] = conn[e]
    BY <1>1, <1>6, ConnStep
  <1>8. Static' BY <1>1 DEF TrustInv, Static
  <1>9. stage' \notin {"setup", "hello", "server_cert", "client_cert"} BY <1>1
  <1>10. conn'["server"].attached
    <2>1. conn["server"].attached /\ "server" \in Ends BY DEF TrustInv, Ends
    <2> QED BY <1>5, <1>7, <2>1
  <1>11. ASSUME stage' = "status"
         PROVE  Pending(version, Worlds[world].callback, d, g, shown.certs)
    <2>1. ok /\ next = "status" /\ e0 = "client" BY <1>1, <1>11
    <2> SUFFICES ASSUME AskedOf("client", d, g)
                 PROVE  /\ d.peer = shown.certs
                        /\ SoundOf(version, Worlds[world].callback, d, g, shown.certs, d.checked)
                        /\ Backed(d.v, g.store, shown.certs, d.checked)
      BY DEF Pending
    <2>2. AskedOf(e0, c, g) BY <1>5, <2>1
    <2>3. /\ SoundOf(u, callback, c, g, shown.certs, t)
          /\ Backed(v, g.store, shown.certs, t)
      BY <2>1, <2>2 DEF ok, u, callback
    <2>4. SoundOf(u, callback, d, g, shown.certs, t) BY <1>5, <2>3
    <2> QED BY <1>5, <2>3, <2>4 DEF show, u, callback
  <1>12. stage' = "status"
           => Pending(version', Worlds[world'].callback, conn'["client"],
                      ConfigOf(conn'["client"], cfg'["client"], Worlds[world'].system), shown'.certs)
    <2> SUFFICES ASSUME stage' = "status"
                 PROVE  Pending(version, Worlds[world].callback, conn'["client"],
                                ConfigOf(conn'["client"], cfg["client"], Worlds[world].system), shown.certs)
      BY <1>1
    <2>1. e0 = "client" BY <1>1
    <2>2. conn'["client"] = d BY <1>7, <2>1
    <2>3. g = ConfigOf(d, cfg["client"], Worlds[world].system) BY <1>5, <2>1 DEF g0, w
    <2> QED BY <1>11, <2>2, <2>3
  <1> QED BY <1>7, <1>8, <1>9, <1>10, <1>12 DEF TrustInv

\* Time never leaves the instants.
LEMMA NowIs ==
    ASSUME TrustInv
    PROVE  now \in Nat
  <1>1. clock \in 1..Len(Instants) BY DEF TrustInv, Static
  <1>2. Instants \in Seq(Nat) BY TimeAssumption
  <1> QED BY <1>1, <1>2 DEF now

\* A chain that was shown, to a connection whose validator fits its configuration.
LEMMA ChainHeld ==
    ASSUME TrustInv, NEW e \in Ends, NEW c, c = conn[e], e = "client" \/ c.attached,
           NEW g, g = ConfigOf(c, cfg[e], Worlds[world].system), NEW certs \in Seq(DOMAIN Cert),
           NEW v, v = s2n_x509_validator_validate_cert_chain(c, e, certs)
    PROVE  /\ v \in ValidatorType /\ v.skip = c.v.skip /\ v.check_ocsp = c.v.check_ocsp /\ v.depth = c.v.depth
           /\ g.store \in StoreType
           /\ AskedOf(e, c, g) => ~c.v.skip /\ c.v.check_ocsp = g.check_ocsp
           /\ AskedOf(e, c, g) /\ v.state # "FAILED"
                 => /\ SoundOf(version, Worlds[world].callback, c, g, certs, now)
                    /\ Backed(v, g.store, certs, now)
  <1>1. Static /\ EndOK(e, world, version, c, cfg[e]) BY DEF TrustInv
  <1>2. world \in DOMAIN Worlds BY <1>1 DEF Static
  <1>3. Worlds[world].system \in SUBSET DOMAIN Cert /\ Worlds[world].names \subseteq Seq(STRING)
    BY <1>2, WorldAssumption
  <1>4. ConfigOK(g)
    <2>1. ConfigOK(cfg[e]) BY <1>1 DEF EndOK
    <2>2. ConfigOK(NewConfig(Worlds[world].system)) BY <1>3, NewConfigOK
    <2> QED BY <2>1, <2>2 DEF ConfigOf
  <1>5. g = Config(c, e) BY ConfigIs
  <1>6. ConnOK(c, Worlds[world].names) /\ Fitted(e, c, g) BY <1>1 DEF EndOK
  <1>7. g.store \in StoreType BY <1>4 DEF ConfigOK
  <1>8. c.v \in ValidatorType /\ c.server_name \in Seq(STRING)
    <2> DEFINE names == Worlds[world].names
               name == c.server_name
    <2>1. c.v \in ValidatorType /\ name \in names \cup {<<>>} BY <1>6 DEF ConnOK
    <2>2. names \subseteq Seq(STRING) BY <1>3
    <2> HIDE DEF names, name
    <2>3. <<>> \in Seq(STRING) OBVIOUS
    <2>4. name \in Seq(STRING) BY <2>1, <2>2, <2>3
    <2> QED BY <2>1, <2>4 DEF name
  <1>9. v \in ValidatorType /\ v.skip = c.v.skip /\ v.check_ocsp = c.v.check_ocsp /\ v.depth = c.v.depth
    <2>1. Config(c, e).store \in StoreType BY <1>5, <1>7
    <2> QED BY <1>8, <2>1, ChainType
  <1>10. AskedOf(e, c, g) => Prepared(c, g) BY <1>6 DEF Fitted
  <1>11. AskedOf(e, c, g) => ~c.v.skip /\ c.v.check_ocsp = g.check_ocsp BY <1>10 DEF Prepared
  <1>12. ASSUME AskedOf(e, c, g), v.state # "FAILED"
         PROVE  /\ SoundOf(version, Worlds[world].callback, c, g, certs, now)
                /\ Backed(v, g.store, certs, now)
    <2>1. ~c.v.skip /\ c.v.depth = Depth(g) /\ Comparing(c, g) BY <1>10, <1>12 DEF Prepared
    <2>2. Sound(c, g, certs, now) /\ Backed(v, g.store, certs, now)
      BY <1>5, <1>7, <1>8, <1>12, <2>1, ChainSound
    <2> QED BY <2>2, SoundIs
  <1> QED BY <1>7, <1>9, <1>11, <1>12

\* The client's decision on a chain, and in TLS 1.3 on the response.
LEMMA ServerCertOK ==
    ASSUME TrustInv, s2n_server_cert_recv
    PROVE  TrustInv'
  <1> DEFINE c == conn["client"]
             certs == shown.certs
             response == shown.response
             v == s2n_x509_validator_validate_cert_chain(c, "client", certs)
             answered == s2n_x509_validator_validate_cert_stapled_ocsp_response(v, response)
             x == IF v.state = "FAILED" \/ version < 13 \/ response = None THEN v ELSE answered
             kind == IF Cert[Head(certs)].kind \in scene.kinds THEN x ELSE Failed(x)
             separate == version < 13 /\ response # None
             next == IF separate THEN "status" ELSE "server_done"
             g == ConfigOf(c, cfg["client"], Worlds[world].system)
             t == now
  <1>1. stage = "server_cert" /\ Decide("client", kind, t, ~separate, next) BY Zenon DEF s2n_server_cert_recv
  <1>2. certs \in Seq(DOMAIN Cert) /\ response \in DOMAIN Response \cup {None} BY DEF TrustInv, Static, ShownType
  <1>3. "client" \in Ends /\ c.outcome # "accepted" BY <1>1 DEF TrustInv, Ends
  <1>4. now \in Nat BY NowIs
  <1>5. /\ v \in ValidatorType /\ v.skip = c.v.skip /\ v.check_ocsp = c.v.check_ocsp /\ v.depth = c.v.depth
        /\ g.store \in StoreType
        /\ AskedOf("client", c, g) => ~c.v.skip /\ c.v.check_ocsp = g.check_ocsp
        /\ AskedOf("client", c, g) /\ v.state # "FAILED"
              => /\ SoundOf(version, Worlds[world].callback, c, g, certs, t)
                 /\ Backed(v, g.store, certs, t)
    BY <1>2, <1>3, ChainHeld
  <1> HIDE DEF v, g
  <1>6. /\ answered \in ValidatorType /\ answered.skip = v.skip /\ answered.check_ocsp = v.check_ocsp
        /\ answered.depth = v.depth
    BY <1>5, ResponseType
  <1>7. /\ x \in ValidatorType /\ x.skip = v.skip /\ x.check_ocsp = v.check_ocsp /\ x.depth = v.depth
    <2> HIDE DEF answered
    <2> QED BY <1>5, <1>6
  <1>8. /\ kind \in ValidatorType /\ kind.skip = c.v.skip /\ kind.check_ocsp = c.v.check_ocsp
        /\ kind.depth = c.v.depth /\ (kind.state # "FAILED" => kind = x)
    <2> DEFINE z == Failed(x)
    <2> HIDE DEF x
    <2>1. z \in ValidatorType /\ z.skip = x.skip /\ z.check_ocsp = x.check_ocsp /\ z.depth = x.depth
          /\ z.state = "FAILED"
      BY <1>7 DEF Failed, ValidatorType
    <2> HIDE DEF z
    <2>2. kind = x \/ kind = z BY DEF z
    <2> HIDE DEF kind
    <2> QED BY <1>5, <1>7, <2>1, <2>2
  <1>9. x.state # "FAILED" => v.state # "FAILED" OBVIOUS
  <1>10. ASSUME kind.state # "FAILED", AskedOf("client", c, g)
         PROVE  /\ SoundOf(version, Worlds[world].callback, c, g, certs, t)
                /\ Backed(v, g.store, certs, t) /\ ~v.skip /\ v.check_ocsp = g.check_ocsp
                /\ x.state # "FAILED" /\ kind = x
    <2>1. kind = x /\ x.state # "FAILED" BY <1>8, <1>10
    <2>2. v.state # "FAILED" BY <1>9, <2>1
    <2> QED BY <1>5, <1>10, <2>1, <2>2
  <1>11. ~separate /\ kind.state # "FAILED" /\ AskedOf("client", c, g)
            => Held(version, Worlds[world].callback, c, g, shown, t, now)
    <2> SUFFICES ASSUME ~separate, kind.state # "FAILED", AskedOf("client", c, g), g.check_ocsp, response # None
                 PROVE  Vouches(response, certs[1], g.store, certs, t, now)
      BY <1>10 DEF Held
    <2>1. /\ Backed(v, g.store, certs, t) /\ ~v.skip /\ v.check_ocsp = g.check_ocsp
          /\ x.state # "FAILED"
      BY <1>10
    <2>2. x = answered BY <1>9, <2>1
    <2>3. answered.state # "FAILED" BY <2>1, <2>2
    <2>4. response \in DOMAIN Response BY <1>2
    <2> HIDE DEF response, certs, t
    <2> QED BY <1>2, <1>4, <1>5, <2>1, <2>3, <2>4, ResponseVouches
  <1>12. next = "status" /\ kind.state # "FAILED" /\ AskedOf("client", c, g)
            => /\ SoundOf(version, Worlds[world].callback, c, g, certs, t)
               /\ Backed(kind, g.store, certs, t)
    <2> SUFFICES ASSUME next = "status", kind.state # "FAILED", AskedOf("client", c, g)
                 PROVE  /\ SoundOf(version, Worlds[world].callback, c, g, certs, t)
                        /\ Backed(kind, g.store, certs, t)
      OBVIOUS
    <2>1. kind = v BY <1>10
    <2> QED BY <1>10, <2>1
  <1> DEFINE e0 == "client"
             done == ~separate
  <1>13. /\ next \notin {"setup", "hello", "server_cert", "client_cert"} /\ done \in BOOLEAN /\ stage # "setup"
         /\ e0 \in Ends /\ c = conn[e0] /\ g = ConfigOf(c, cfg[e0], Worlds[world].system)
    BY <1>1, <1>3 DEF g
  <1>14. /\ done /\ kind.state # "FAILED" /\ AskedOf(e0, c, g)
              => Held(version, Worlds[world].callback, c, g, shown, t, now)
         /\ next = "status" /\ kind.state # "FAILED" /\ AskedOf(e0, c, g)
              => /\ SoundOf(version, Worlds[world].callback, c, g, shown.certs, t)
                 /\ Backed(kind, g.store, shown.certs, t)
         /\ Decide(e0, kind, t, done, next) /\ (next = "status" => e0 = "client")
         /\ (~done => c.outcome # "accepted")
    BY <1>1, <1>3, <1>11, <1>12
  <1> HIDE DEF kind, c, e0, done, next, t
  <1> QED BY <1>8, <1>13, <1>14, DecideStep

\* The decision on a response that came in a message of its own.
LEMMA StatusOK ==
    ASSUME TrustInv, s2n_server_status_recv
    PROVE  TrustInv'
  <1> DEFINE c == conn["client"]
             certs == shown.certs
             response == shown.response
             v == c.v
             x == s2n_x509_validator_validate_cert_stapled_ocsp_response(v, response)
             g == ConfigOf(c, cfg["client"], Worlds[world].system)
             t == c.checked
             w == world
             callback == Worlds[world].callback
  <1>1. stage = "status" /\ Decide("client", x, t, TRUE, "server_done") BY Zenon DEF s2n_server_status_recv
  <1>2. certs \in Seq(DOMAIN Cert) /\ response \in DOMAIN Response \cup {None} BY DEF TrustInv, Static, ShownType
  <1>3. "client" \in Ends /\ w \in DOMAIN Worlds BY DEF Ends, TrustInv, Static
  <1>4. now \in Nat BY NowIs
  <1>5. EndOK("client", w, version, c, cfg["client"]) BY <1>3 DEF TrustInv
  <1>6. v \in ValidatorType /\ Fitted("client", c, g) BY <1>5 DEF EndOK, ConnOK
  <1>7. g.store \in StoreType
    <2>1. ConfigOK(cfg["client"]) BY <1>5 DEF EndOK
    <2>2. Worlds[w].system \in SUBSET DOMAIN Cert BY <1>3, WorldAssumption
    <2>3. ConfigOK(NewConfig(Worlds[w].system)) BY <2>2, NewConfigOK
    <2> QED BY <2>1, <2>3 DEF ConfigOf, ConfigOK
  <1>8. Pending(version, callback, c, g, certs) BY <1>1 DEF TrustInv
  <1>9. x \in ValidatorType /\ x.skip = c.v.skip /\ x.check_ocsp = c.v.check_ocsp /\ x.depth = c.v.depth
    BY <1>6, ResponseType
  <1>10. ASSUME x.state # "FAILED", AskedOf("client", c, g)
         PROVE  Held(version, callback, c, g, shown, t, now)
    <2>1. SoundOf(version, callback, c, g, certs, t) /\ Backed(v, g.store, certs, t) BY <1>8, <1>10 DEF Pending
    <2>2. ~v.skip /\ v.check_ocsp = g.check_ocsp BY <1>6, <1>10 DEF Fitted, Prepared
    <2> SUFFICES ASSUME g.check_ocsp, response # None
                 PROVE  Vouches(response, certs[1], g.store, certs, t, now)
      BY <2>1 DEF Held
    <2>3. response \in DOMAIN Response /\ v.check_ocsp BY <1>2, <2>2
    <2>4. x.state # "FAILED" BY <1>10
    <2> HIDE DEF response, certs, v, g
    <2> QED BY <1>2, <1>4, <1>6, <1>7, <2>1, <2>2, <2>3, <2>4, ResponseVouches
  <1> DEFINE e0 == "client"
             next == "server_done"
             done == TRUE
  <1>11. /\ next \notin {"setup", "hello", "server_cert", "client_cert"} /\ done \in BOOLEAN /\ stage # "setup"
         /\ e0 \in Ends /\ c = conn[e0] /\ g = ConfigOf(c, cfg[e0], Worlds[world].system)
         /\ done /\ x.state # "FAILED" /\ AskedOf(e0, c, g)
              => Held(version, Worlds[world].callback, c, g, shown, t, now)
         /\ next # "status" /\ Decide(e0, x, t, done, next) /\ done
    BY <1>1, <1>3, <1>10
  <1> HIDE DEF x, c, e0, done, next, t, g
  <1> QED BY <1>9, <1>11, DecideStep

\* The client's chain, or none.
LEMMA CertReqOK ==
    ASSUME TrustInv, s2n_cert_req_recv
    PROVE  TrustInv'
  <1> DEFINE g == Config(conn["client"], "client")
             chain == s2n_config_get_single_default_cert(g)
  <1>1. /\ stage = "server_done" /\ UNCHANGED <<conn, version>>
        /\ \/ Handshaking("done") /\ shown' = shown
           \/ Handshaking("failed") /\ shown' = shown
           \/ /\ shown' = IF chain = None THEN Nothing
                          ELSE [certs |-> Chain[chain].certs, chain |-> chain, response |-> None, honest |-> TRUE]
              /\ Handshaking("client_cert")
    BY Zenon DEF s2n_cert_req_recv
  <1>2. "client" \in Ends /\ Static /\ world \in DOMAIN Worlds BY DEF Ends, TrustInv, Static
  <1>3. ConfigOK(g)
    <2>1. ConfigOK(cfg["client"]) BY <1>2 DEF TrustInv, EndOK
    <2>2. Worlds[world].system \in SUBSET DOMAIN Cert BY <1>2, WorldAssumption
    <2>3. ConfigOK(NewConfig(Worlds[world].system)) BY <2>2, NewConfigOK
    <2> QED BY <2>1, <2>3 DEF Config, scene
  <1>4. g.defaults \in ByType BY <1>3 DEF ConfigOK
  <1>5. chain \in DOMAIN Chain \cup {None} BY <1>4, SingleDefault
  <1> HIDE DEF chain
  <1>6. CASE shown' = shown /\ (Handshaking("done") \/ Handshaking("failed"))
    <2>1. shown' \in ShownType BY <1>2, <1>6 DEF Static
    <2> QED BY <1>1, <1>6, <2>1, MessageStep
  <1>7. CASE /\ shown' = IF chain = None THEN Nothing
                         ELSE [certs |-> Chain[chain].certs, chain |-> chain, response |-> None, honest |-> TRUE]
             /\ Handshaking("client_cert")
    <2>1. Nothing \in ShownType BY DEF Nothing, ShownType
    <2>2. chain # None => Chain[chain].certs \in Seq(DOMAIN Cert) BY <1>5, TableAssumption
    <2>3. shown' \in ShownType
      <3>1. CASE chain = None BY <1>7, <2>1, <3>1
      <3>2. CASE chain # None BY <1>5, <1>7, <2>2, <3>2 DEF ShownType
      <3> QED BY <3>1, <3>2
    <2>4. shown'.response = None BY <1>7 DEF Nothing
    <2> QED BY <1>1, <1>7, <2>3, <2>4, MessageStep
  <1> QED BY <1>1, <1>6, <1>7

\* The server's decision.
LEMMA ClientCertOK ==
    ASSUME TrustInv, s2n_client_cert_recv
    PROVE  TrustInv'
  <1> DEFINE c == conn["server"]
             certs == shown.certs
             v == s2n_x509_validator_validate_cert_chain(c, "server", certs)
             last == IF ClientAuth("server") = "OPTIONAL" THEN "done" ELSE "failed"
             g == ConfigOf(c, cfg["server"], Worlds[world].system)
             t == now
  <1>1. /\ stage = "client_cert"
        /\ \/ UNCHANGED <<conn, version, shown>> /\ Handshaking(last)
           \/ Decide("server", v, t, TRUE, "done")
    BY Zenon DEF s2n_client_cert_recv
  <1>2. /\ "server" \in Ends /\ shown \in ShownType /\ certs \in Seq(DOMAIN Cert)
    BY DEF Ends, TrustInv, Static, ShownType
  <1>3. CASE UNCHANGED <<conn, version, shown>> /\ Handshaking(last)
    <2>1. last \in {"done", "failed"} OBVIOUS
    <2> HIDE DEF last
    <2>2. shown' \in ShownType BY <1>2, <1>3
    <2> QED BY <1>1, <1>3, <2>1, <2>2, MessageStep
  <1>4. CASE Decide("server", v, t, TRUE, "done")
    <2>1. c.attached BY <1>1 DEF TrustInv
    <2>2. /\ v \in ValidatorType /\ v.skip = c.v.skip /\ v.check_ocsp = c.v.check_ocsp /\ v.depth = c.v.depth
          /\ AskedOf("server", c, g) /\ v.state # "FAILED"
                => SoundOf(version, Worlds[world].callback, c, g, certs, t)
      BY <1>2, <2>1, ChainHeld
    <2>3. shown.response = None BY <1>1 DEF TrustInv
    <2> DEFINE e0 == "server"
               next == "done"
               done == TRUE
    <2>4. /\ next \notin {"setup", "hello", "server_cert", "client_cert"} /\ done \in BOOLEAN /\ stage # "setup"
          /\ e0 \in Ends /\ c = conn[e0] /\ g = ConfigOf(c, cfg[e0], Worlds[world].system)
          /\ done /\ v.state # "FAILED" /\ AskedOf(e0, c, g)
               => Held(version, Worlds[world].callback, c, g, shown, t, now)
          /\ next # "status" /\ Decide(e0, v, t, done, next) /\ done
      BY <1>1, <1>2, <1>4, <2>2, <2>3 DEF Held
    <2> HIDE DEF v, c, e0, done, next, t, g
    <2> QED BY <2>2, <2>4, DecideStep
  <1> QED BY <1>1, <1>3, <1>4

\* Another handshake of the same connections.
LEMMA ReuseOK ==
    ASSUME TrustInv, Reuse
    PROVE  TrustInv'
  <1>1. /\ conn' = [e \in Ends |-> s2n_connection_wipe(conn[e], e)]
        /\ stage' = "setup" /\ shown' = Nothing /\ UNCHANGED <<world, todo, cfg, staple, version, clock>>
    BY DEF Reuse
  <1>2. Static /\ DOMAIN cfg = Ends BY DEF TrustInv
  <1>3. ASSUME NEW e \in Ends
        PROVE  EndOK(e, world, version, conn'[e], cfg[e]) /\ conn'[e].outcome = "open"
    <2> DEFINE b == conn[e].attached
               z == [Zeroed EXCEPT !.attached = b]
               g == cfg[e]
               w == world
               u == version
               c == conn'[e]
    <2>1. EndOK(e, w, u, conn[e], g) /\ w \in DOMAIN Worlds BY <1>2 DEF TrustInv, Static
    <2>2. b \in BOOLEAN /\ ConfigOK(g) BY <2>1 DEF EndOK, ConnOK
    <2>3. ConnOK(z, Worlds[w].names) /\ z.attached = b /\ z.outcome = "open" BY <2>2, ZeroedOK
    <2>4. c = s2n_connection_set_config(z, e, Config(conn[e], e)) BY <1>1 DEF s2n_connection_wipe
    <2>5. Config(conn[e], e) = ConfigOf(z, g, Worlds[w].system)
      <3> HIDE DEF z
      <3> QED BY <2>3 DEF Config, ConfigOf, scene
    <2> HIDE DEF z, g, w, u, c, b
    <2>6. Renewed(c, e, w, z, g) BY <2>4, <2>5 DEF Renewed
    <2>7. EndOK(e, w, u, c, g) /\ c.outcome = "open" BY <2>1, <2>2, <2>3, <2>6, WipedOK
    <2> QED BY <2>7 DEF w, u, c, g
  <1>4. Static'
    <2>1. Nothing \in ShownType BY DEF Nothing, ShownType
    <2> QED BY <1>1, <1>2, <2>1 DEF Static
  <1>5. /\ \A e \in Ends : EndOK(e, world', version', conn'[e], cfg'[e])
        /\ \A e \in Ends : conn'[e].outcome # "accepted"
    BY <1>1, <1>3
  <1>6. DOMAIN cfg' = Ends /\ DOMAIN conn' = Ends BY <1>1, <1>2
  <1> QED BY <1>1, <1>4, <1>5, <1>6 DEF TrustInv

\* Time goes on; what was checked was checked when it was.
LEMMA TickOK ==
    ASSUME TrustInv, Tick
    PROVE  TrustInv'
  <1>1. /\ clock < Len(Instants) /\ clock' = clock + 1
        /\ UNCHANGED <<world, todo, cfg, staple, conn, version, stage, shown>>
    BY DEF Tick
  <1>2. Static'
    <2> DEFINE n == Len(Instants)
    <2>1. n \in Nat BY TimeAssumption
    <2>2. clock \in 1..n /\ clock < n BY <1>1 DEF TrustInv, Static
    <2> HIDE DEF n
    <2>3. clock' \in 1..n BY <1>1, <2>1, <2>2
    <2> QED BY <1>1, <2>3 DEF TrustInv, Static, n
  <1> QED BY <1>1, <1>2 DEF TrustInv

-----------------------------------------------------------------------------
(***************************************************************************)
(* The results.                                                            *)
(***************************************************************************)
\* Every step keeps the invariant.
LEMMA TrustInvNext ==
    ASSUME TrustInv, [Next]_vars
    PROVE  TrustInv'
  <1>1. CASE Configure BY <1>1, ConfigureOK
  <1>2. CASE SetUp BY <1>2, SetUpOK
  <1>3. CASE ClientHello BY <1>3, HelloOK
  <1>4. CASE s2n_server_cert_send BY <1>4, CertSendOK
  <1>5. CASE StrangersCert("hello", "server_cert") BY <1>5, StrangersOK
  <1>6. CASE s2n_server_cert_recv BY <1>6, ServerCertOK
  <1>7. CASE s2n_server_status_recv BY <1>7, StatusOK
  <1>8. CASE s2n_cert_req_recv BY <1>8, CertReqOK
  <1>9. CASE s2n_client_cert_recv BY <1>9, ClientCertOK
  <1>10. CASE StrangersCert("server_done", "client_cert") BY <1>10, StrangersOK
  <1>11. CASE Reuse BY <1>11, ReuseOK
  <1>12. CASE Tick BY <1>12, TickOK
  <1>13. CASE UNCHANGED vars
    <2>1. UNCHANGED <<world, todo, cfg, staple, conn, version, stage, shown, clock>> BY <1>13 DEF vars
    <2>2. Static' BY <2>1 DEF TrustInv, Static
    <2> QED BY <2>1, <2>2 DEF TrustInv
  <1> QED
    BY <1>1, <1>2, <1>3, <1>4, <1>5, <1>6, <1>7, <1>8, <1>9, <1>10, <1>11, <1>12, <1>13, Zenon DEF Next

(***************************************************************************)
(* For every table of certificates and chains, every world of callers and  *)
(* strangers, every clock and time zone: no endpoint that was asked to     *)
(* verify accepts a chain that is not trustworthy to it                    *)
(* (s2n_x509_validator_validate_cert_chain, s2n_connection_set_config,     *)
(* s2n_connection_wipe).                                                   *)
(***************************************************************************)
THEOREM AcceptedIsTrustworthy == Spec => []OnlyTrustedAccepted
  <1>1. Init => TrustInv BY TrustInvInit
  <1>2. TrustInv /\ [Next]_vars => TrustInv' BY TrustInvNext
  <1>3. TrustInv => OnlyTrustedAccepted BY TrustInvImplies
  <1> QED BY <1>1, <1>2, <1>3, PTL DEF Spec
=============================================================================
