---------------------------- MODULE ProcessProofs ----------------------------
(***************************************************************************)
(* What is proved of Process.                                              *)
(*                                                                         *)
(* Generators of random numbers are not shared, for any number of          *)
(* processes, threads, seeds and pages, any kernel, and any interleaving   *)
(* of forks with the calls of the library.                                 *)
(* A thread is Current when it would use its generators as they are and    *)
(* they are its own: it did not come with a fork, or was seeded since. *)
(* The argument is about one process at a time: what a step may do to the  *)
(* threads of the one process it changes (Advances) cannot make two        *)
(* current threads share, as long as every process is Sound.               *)
(*                                                                         *)
(* No memory of a connection is lost, and a wiped connection is as a new   *)
(* one, for any limit on pages and any number of handshakes and calls.     *)
(* The blocks in use are those the cells hold (Owned): every call of       *)
(* s2n_mem.c and s2n_stuffer.c keeps it so if it finds its cell in order   *)
(* (the lemmas called Served), hence so does every function of             *)
(* s2n_connection.c, which is a sequence of such calls, and what finds the *)
(* cells of a handshake in order is MInv, which is inductive.              *)
(***************************************************************************)
EXTENDS Process, TLAPS, FiniteSetTheorems, WellFoundedInduction

Ages == 0..MaxPages
Generators == {"public", "private", "null", "zero"} \X Nat
ThreadType == [alive : BOOLEAN, ptr : Ages, public : Generators, private : Generators]
ProcessType == [alive : BOOLEAN, entropy_fd : BOOLEAN, page : Ages, atfork : BOOLEAN,
                mix : {"urandom", "rdrand"}, flag : [Ages -> {0, 1}], thread : [Threads -> ThreadType],
                heirs : SUBSET Threads]

Current(pr, t) == pr.thread[t].alive /\ ~Forked(pr, t) /\ t \notin pr.heirs

\* Every generator is null, was never seeded, or has a seed that was drawn.
Drawn(g, kind, n) == g = Null \/ g = Zero \/ \E s \in 1..n : g = <<kind, s>>
Seeded(pr, n) == \A t \in Threads : Drawn(pr.thread[t].public, "public", n) /\ Drawn(pr.thread[t].private, "private", n)

(***************************************************************************)
(* A flag of a page: the variable zero stays 0, a thread points to no page *)
(* that is still to come, a process without a page has no fork handler.    *)
(***************************************************************************)
Pages(pr) ==
    /\ pr.flag[0] = 0
    /\ ~pr.atfork => pr.page = 0
    /\ \A t \in Threads : pr.thread[t].ptr <= pr.page

(***************************************************************************)
(* A thread at the current page whose flag is down came with a fork, and   *)
(* if the flag of one that did is up, another thread raised it.            *)
(***************************************************************************)
Passes(pr, t) == \E w \in Threads \ pr.heirs : pr.thread[w].alive /\ pr.thread[w].ptr = pr.thread[t].ptr
Inherited(pr) ==
    /\ \A t \in Threads : pr.thread[t].alive /\ pr.thread[t].ptr = pr.page /\ pr.page > 0 /\ t \notin pr.heirs
                            => pr.flag[pr.page] = 1
    /\ \A t \in pr.heirs : pr.thread[t].alive /\ ~Forked(pr, t) => Passes(pr, t)

NeverZero(pr) == \A t \in Threads : Current(pr, t) => pr.thread[t].public # Zero /\ pr.thread[t].private # Zero

Sound(pr, n) ==
    pr \in ProcessType /\ Seeded(pr, n) /\ Pages(pr) /\ Inherited(pr) /\ NeverZero(pr)

\* No two current threads have the same generator.
Unique ==
    \A p, q \in Processes, t, u \in Threads :
        Current(proc[p], t) /\ Current(proc[q], u) /\ ~(p = q /\ t = u) =>
          /\ proc[p].thread[t].public = proc[q].thread[u].public => proc[p].thread[t].public = Null
          /\ proc[p].thread[t].private = proc[q].thread[u].private => proc[p].thread[t].private = Null

RInv ==
    /\ seeds \in Nat /\ kernel \in Kernels /\ DOMAIN proc = Processes
    /\ proc = [p \in Processes |-> proc[p]]
    /\ \A p \in Processes : Sound(proc[p], seeds)
    /\ Unique

(***************************************************************************)
(* What a step does to the threads of the process it changes: a thread     *)
(* that is current afterwards was so before, and its generators are the    *)
(* same or gone, except t0, which may have new seeds.                      *)
(***************************************************************************)
KeptFor(g, h) == h = Null \/ h = g
Advances(pr, new, t0) ==
    \A t \in Threads : Current(new, t) =>
        \/ /\ Current(pr, t)
           /\ KeptFor(pr.thread[t].public, new.thread[t].public)
           /\ KeptFor(pr.thread[t].private, new.thread[t].private)
        \/ /\ t = t0
           /\ new.thread[t].public = <<"public", seeds + 1>>
           /\ new.thread[t].private = <<"private", seeds + 2>>
-----------------------------------------------------------------------------
\* Two current threads share no generator after a step of one process.
LEMMA AdvanceKeepsUnique ==
    ASSUME RInv, NEW p \in Processes, NEW new, NEW t0 \in Threads,
           seeds' \in Nat, seeds' >= seeds,
           proc' = [proc EXCEPT ![p] = new], kernel' \in Kernels,
           Sound(new, seeds'), Advances(proc[p], new, t0)
    PROVE  RInv'
  <1>1. /\ DOMAIN proc' = Processes /\ proc' = [q \in Processes |-> proc'[q]]
        /\ proc'[p] = new /\ \A q \in Processes : q # p => proc'[q] = proc[q]
    BY DEF RInv
  <1>2. ASSUME NEW q \in Processes PROVE Sound(proc'[q], seeds')
    <2>1. CASE q = p BY <2>1, <1>1
    <2>2. CASE q # p
      <3>1. Sound(proc[q], seeds) /\ proc'[q] = proc[q] BY <1>1, <2>2 DEF RInv
      <3>2. Seeded(proc[q], seeds') BY <3>1 DEF Sound, Seeded, Drawn, RInv
      <3> QED BY <3>1, <3>2 DEF Sound
    <2> QED BY <2>1, <2>2
  <1> DEFINE Gone(g, h) == g = h => g = Null
  <1>3. ASSUME NEW t \in Threads, NEW q \in Processes, NEW u \in Threads, q # p,
               Current(new, t), Current(proc[q], u)
        PROVE  /\ Gone(new.thread[t].public, proc[q].thread[u].public)
               /\ Gone(new.thread[t].private, proc[q].thread[u].private)
    <2>1. CASE Current(proc[p], t) /\ KeptFor(proc[p].thread[t].public, new.thread[t].public)
                 /\ KeptFor(proc[p].thread[t].private, new.thread[t].private)
      BY <2>1, <1>3 DEF RInv, Unique, KeptFor
    <2>2. CASE new.thread[t].public = <<"public", seeds + 1>> /\ new.thread[t].private = <<"private", seeds + 2>>
      <3>1. Drawn(proc[q].thread[u].public, "public", seeds) /\ Drawn(proc[q].thread[u].private, "private", seeds)
        BY DEF RInv, Sound, Seeded
      <3>2. seeds \in Nat BY DEF RInv
      <3> QED BY <2>2, <3>1, <3>2 DEF Drawn, Null, Zero
    <2> QED BY <2>1, <2>2, <1>3 DEF Advances
  <1>4. ASSUME NEW t \in Threads, NEW u \in Threads, t # u, Current(new, t), Current(new, u)
        PROVE  /\ Gone(new.thread[t].public, new.thread[u].public)
               /\ Gone(new.thread[t].private, new.thread[u].private)
    <2> DEFINE Old(v) == Current(proc[p], v) /\ KeptFor(proc[p].thread[v].public, new.thread[v].public)
                           /\ KeptFor(proc[p].thread[v].private, new.thread[v].private)
               Reseeded(v) == v = t0 /\ new.thread[v].public = <<"public", seeds + 1>>
                           /\ new.thread[v].private = <<"private", seeds + 2>>
    <2>1. (Old(t) \/ Reseeded(t)) /\ (Old(u) \/ Reseeded(u)) BY <1>4 DEF Advances
    <2>2. CASE Old(t) /\ Old(u) BY <2>2, <1>4 DEF RInv, Unique, KeptFor
    <2>3. ASSUME NEW v \in Threads, NEW w \in Threads, Old(v), Reseeded(w)
          PROVE  /\ new.thread[v].public = new.thread[w].public => new.thread[v].public = Null
                 /\ new.thread[v].private = new.thread[w].private => new.thread[v].private = Null
      <3>1. Drawn(proc[p].thread[v].public, "public", seeds) /\ Drawn(proc[p].thread[v].private, "private", seeds)
        BY DEF RInv, Sound, Seeded
      <3>2. seeds \in Nat BY DEF RInv
      <3> QED BY <2>3, <3>1, <3>2 DEF Drawn, Null, Zero, KeptFor
    <2>4. CASE Reseeded(t) /\ Reseeded(u) BY <2>4, <1>4
    <2> QED BY <2>1, <2>2, <2>3, <2>4
  <1>5. Unique'
    <2> SUFFICES ASSUME NEW q \in Processes, NEW r \in Processes, NEW t \in Threads, NEW u \in Threads,
                        Current(proc'[q], t), Current(proc'[r], u), ~(q = r /\ t = u)
                 PROVE  /\ Gone(proc'[q].thread[t].public, proc'[r].thread[u].public)
                        /\ Gone(proc'[q].thread[t].private, proc'[r].thread[u].private)
      BY DEF Unique, Current, Forked
    <2>1. CASE q = p /\ r = p BY <2>1, <1>1, <1>4
    <2>2. CASE q = p /\ r # p BY <2>2, <1>1, <1>3
    <2>3. CASE q # p /\ r = p
      <3>1. /\ Gone(new.thread[u].public, proc[q].thread[t].public)
            /\ Gone(new.thread[u].private, proc[q].thread[t].private)
        BY <2>3, <1>1, <1>3
      <3> QED BY <2>3, <3>1, <1>1
    <2>4. CASE q # p /\ r # p BY <2>4, <1>1 DEF RInv, Unique
    <2> QED BY <2>1, <2>2, <2>3, <2>4
  <1>6. QED
    <2>1. (\A q \in Processes : Sound(proc[q], seeds))'
      BY <1>2 DEF Sound, Seeded, Pages, Inherited, Passes, NeverZero, Current, Forked
    <2> QED BY <1>1, <2>1, <1>5 DEF RInv

(***************************************************************************)
(* s2n_defend_if_forked, whatever the operating system grants: a thread    *)
(* without both seeds is not current afterwards, so that it is the flag,   *)
(* raised last, which makes the generators usable.                         *)
(***************************************************************************)
LEMMA DefendKeepsSound ==
    ASSUME seeds \in Nat, NEW p \in Processes, NEW pr, Sound(pr, seeds),
           NEW t \in Threads, pr.thread[t].alive, pr.page > 0, NEW n \in 0..2
    PROVE  LET new == s2n_defend_if_forked(pr, t, n)
           IN  /\ seeds + Used(pr, t, n) \in Nat /\ seeds + Used(pr, t, n) >= seeds
               /\ Sound(new, seeds + Used(pr, t, n))
               /\ Advances(pr, new, t)
  <1> USE RandomAssumption
  <1> DEFINE new == s2n_defend_if_forked(pr, t, n)
             got == Granted(pr, n)
  <1>0. pr \in ProcessType /\ pr.thread[t] \in ThreadType /\ got \in 0..2
    BY DEF Sound, ProcessType, Granted
  <1>1. CASE ~Forked(pr, t)
    <2>1. new = pr /\ Used(pr, t, n) = 0 BY <1>1 DEF s2n_defend_if_forked, Used
    <2>2. Advances(pr, pr, t) BY DEF Advances, KeptFor
    <2> QED BY <2>1, <2>2
  <1>2. CASE Forked(pr, t) /\ got < 2
    <2> DEFINE th == [pr.thread[t] EXCEPT !.public = IF got = 1 THEN <<"public", seeds + 1>> ELSE Zero,
                                          !.private = IF got = 1 THEN Zero ELSE Null]
    <2>1. new = [pr EXCEPT !.thread = [pr.thread EXCEPT ![t] = th]]
      <3>1. got = 0 \/ got = 1 BY <1>0, <1>2
      <3> HIDE DEF got
      <3>2. new = [pr EXCEPT !.thread[t] =
                     [s2n_rand_cleanup_thread(pr.thread[t]) EXCEPT
                        !.public = s2n_drbg_instantiate("public", IF 1 <= got THEN seeds + 1 ELSE 0),
                        !.private = IF got = 0 THEN Null
                                    ELSE s2n_drbg_instantiate("private", IF 2 <= got THEN seeds + 2 ELSE 0)]]
        BY <1>2 DEF s2n_defend_if_forked, got
      <3>3. /\ s2n_drbg_instantiate("public", IF 1 <= got THEN seeds + 1 ELSE 0)
                 = IF got = 1 THEN <<"public", seeds + 1>> ELSE Zero
            /\ (IF got = 0 THEN Null ELSE s2n_drbg_instantiate("private", IF 2 <= got THEN seeds + 2 ELSE 0))
                 = IF got = 1 THEN Zero ELSE Null
        BY <3>1 DEF s2n_drbg_instantiate
      <3>4. new = [pr EXCEPT !.thread[t] =
                     [s2n_rand_cleanup_thread(pr.thread[t]) EXCEPT
                        !.public = IF got = 1 THEN <<"public", seeds + 1>> ELSE Zero,
                        !.private = IF got = 1 THEN Zero ELSE Null]]
        BY <3>2, <3>3
      <3> HIDE DEF new
      <3>5. [s2n_rand_cleanup_thread(pr.thread[t]) EXCEPT
                        !.public = IF got = 1 THEN <<"public", seeds + 1>> ELSE Zero,
                        !.private = IF got = 1 THEN Zero ELSE Null] = th
        BY <1>0 DEF s2n_rand_cleanup_thread, ThreadType
      <3> QED BY <3>4, <3>5
    <2>2. Used(pr, t, n) = got BY <1>2 DEF Used
    <2>3. /\ th \in ThreadType /\ th.alive = pr.thread[t].alive /\ th.ptr = pr.thread[t].ptr
          /\ Drawn(th.public, "public", seeds + got) /\ Drawn(th.private, "private", seeds + got)
      <3>0. /\ Zero \in Generators /\ Null \in Generators
            /\ <<"public", seeds + 1>> \in Generators
        BY DEF Zero, Null, Generators
      <3>1. th.alive = pr.thread[t].alive /\ th.ptr = pr.thread[t].ptr BY <1>0 DEF ThreadType
      <3>2. got = 0 \/ got = 1 BY <1>0, <1>2
      <3>3. CASE got = 0
        <4>1. th.public = Zero /\ th.private = Null BY <1>0, <3>3 DEF ThreadType
        <4>2. th \in ThreadType BY <1>0, <3>0, <3>3 DEF ThreadType
        <4> QED BY <3>1, <4>1, <4>2 DEF Drawn
      <3>4. CASE got = 1
        <4>1. th.public = <<"public", seeds + 1>> /\ th.private = Zero BY <1>0, <3>4 DEF ThreadType
        <4>2. th \in ThreadType BY <1>0, <3>0, <3>4 DEF ThreadType
        <4>3. Drawn(th.public, "public", seeds + got) BY <4>1, <3>4 DEF Drawn
        <4> QED BY <3>1, <4>1, <4>2, <4>3 DEF Drawn
      <3> QED BY <3>2, <3>3, <3>4
    <2> HIDE DEF th, new, got
    <2>4. /\ new \in ProcessType
          /\ new.page = pr.page /\ new.atfork = pr.atfork /\ new.flag = pr.flag /\ new.alive = pr.alive
          /\ new.heirs = pr.heirs
          /\ new.thread[t] = th /\ \A u \in Threads : u # t => new.thread[u] = pr.thread[u]
      BY <2>1, <2>3, <1>0 DEF ProcessType
    <2>5. \A u \in Threads : Current(new, u) => u # t /\ Current(pr, u)
      BY <2>4, <2>3, <1>2 DEF Current, Forked
    <2>6. Seeded(new, seeds + got)
      BY <2>4, <2>3, <1>0 DEF Seeded, Sound, Drawn
    <2>7. Pages(new) BY <2>4, <2>3 DEF Pages, Sound
    <2>8. Inherited(new)
      <3>1. pr.heirs \in SUBSET Threads BY <1>0 DEF ProcessType
      <3>2. \A u \in Threads : new.thread[u].alive = pr.thread[u].alive /\ new.thread[u].ptr = pr.thread[u].ptr
        BY <2>3, <2>4
      <3>3. \A u \in Threads : Passes(pr, u) => Passes(new, u) BY <3>2, <2>4 DEF Passes
      <3>4. \A u \in Threads : Forked(new, u) = Forked(pr, u) BY <3>2, <2>4 DEF Forked
      <3> QED BY <3>1, <3>2, <3>3, <3>4, <2>4 DEF Inherited, Sound
    <2>9. NeverZero(new) BY <2>4, <2>5 DEF NeverZero, Sound
    <2>10. Advances(pr, new, t) BY <2>4, <2>5 DEF Advances, KeptFor
    <2> QED BY <2>2, <2>4, <2>6, <2>7, <2>8, <2>9, <2>10, <1>0 DEF Sound, new
  <1>3. CASE Forked(pr, t) /\ got = 2
    <2> DEFINE th == [pr.thread[t] EXCEPT !.public = <<"public", seeds + 1>>, !.private = <<"private", seeds + 2>>,
                                          !.ptr = pr.page]
    <2>1. new = [pr EXCEPT !.thread = [pr.thread EXCEPT ![t] = th], !.flag = [pr.flag EXCEPT ![pr.page] = 1],
                          !.heirs = pr.heirs \ {t}]
      <3> DEFINE base == [s2n_rand_cleanup_thread(pr.thread[t]) EXCEPT
                            !.public = s2n_drbg_instantiate("public", IF 1 <= got THEN seeds + 1 ELSE 0),
                            !.private = IF got = 0 THEN Null
                                        ELSE s2n_drbg_instantiate("private", IF 2 <= got THEN seeds + 2 ELSE 0)]
      <3>1. ~(got < 2) BY <1>3
      <3>2. new = [pr EXCEPT !.thread[t] = [base EXCEPT !.ptr = pr.page], !.flag[pr.page] = 1, !.heirs = @ \ {t}]
        BY <1>3, <3>1 DEF s2n_defend_if_forked
      <3> HIDE DEF got
      <3>3. /\ s2n_drbg_instantiate("public", IF 1 <= got THEN seeds + 1 ELSE 0) = <<"public", seeds + 1>>
            /\ (IF got = 0 THEN Null ELSE s2n_drbg_instantiate("private", IF 2 <= got THEN seeds + 2 ELSE 0))
                 = <<"private", seeds + 2>>
        BY <1>3 DEF s2n_drbg_instantiate
      <3>4. base = [s2n_rand_cleanup_thread(pr.thread[t]) EXCEPT
                      !.public = <<"public", seeds + 1>>, !.private = <<"private", seeds + 2>>]
        BY <3>3
      <3> HIDE DEF new, base
      <3>5. [base EXCEPT !.ptr = pr.page] = th
        BY <1>0, <3>4 DEF s2n_rand_cleanup_thread, ThreadType
      <3> QED BY <3>2, <3>5
    <2>2. Used(pr, t, n) = 2 BY <1>3 DEF Used
    <2>3. /\ th \in ThreadType /\ th.alive = pr.thread[t].alive /\ th.ptr = pr.page
          /\ th.public = <<"public", seeds + 1>> /\ th.private = <<"private", seeds + 2>>
      <3>1. <<"public", seeds + 1>> \in Generators /\ <<"private", seeds + 2>> \in Generators BY DEF Generators
      <3>2. pr.page \in Ages BY <1>0 DEF ProcessType
      <3> QED BY <1>0, <3>1, <3>2 DEF ThreadType
    <2> HIDE DEF th, new, got
    <2>4. /\ new \in ProcessType
          /\ new.page = pr.page /\ new.atfork = pr.atfork /\ new.alive = pr.alive /\ new.heirs = pr.heirs \ {t}
          /\ new.flag[pr.page] = 1 /\ \A m \in Ages : m # pr.page => new.flag[m] = pr.flag[m]
          /\ new.thread[t] = th /\ \A u \in Threads : u # t => new.thread[u] = pr.thread[u]
      BY <2>1, <2>3, <1>0 DEF ProcessType
    <2>5. \A u \in Threads : pr.thread[u].ptr \in Ages /\ pr.page \in Ages
      BY <1>0 DEF ProcessType, ThreadType
    <2>6. \A u \in Threads : Current(new, u) /\ u # t => Current(pr, u)
      <3> SUFFICES ASSUME NEW u \in Threads, Current(new, u), u # t PROVE Current(pr, u) OBVIOUS
      <3>1. pr.thread[u].alive /\ new.thread[u] = pr.thread[u] /\ u \notin pr.heirs BY <2>4 DEF Current
      <3>3. CASE pr.thread[u].ptr = pr.page BY <3>1, <3>3 DEF Sound, Inherited, Current, Forked
      <3>4. CASE pr.thread[u].ptr # pr.page BY <3>1, <3>4, <2>4, <2>5 DEF Current, Forked
      <3> QED BY <3>3, <3>4
    <2>7. Seeded(new, seeds + 2)
      <3>1. Drawn(th.public, "public", seeds + 2) /\ Drawn(th.private, "private", seeds + 2) BY <2>3 DEF Drawn
      <3>2. ASSUME NEW u \in Threads, u # t
            PROVE  Drawn(new.thread[u].public, "public", seeds + 2) /\ Drawn(new.thread[u].private, "private", seeds + 2)
        BY <2>4, <3>2 DEF Seeded, Sound, Drawn
      <3> QED BY <3>1, <3>2, <2>4 DEF Seeded
    <2>8. Pages(new)
      <3>1. pr.page # 0 /\ 0 \in Ages BY <2>5 DEF Ages
      <3> QED BY <3>1, <2>4, <2>3, <2>5 DEF Pages, Sound, Ages
    <2>9. Inherited(new)
      <3>1. ASSUME NEW u \in new.heirs, new.thread[u].alive, ~Forked(new, u) PROVE Passes(new, u)
        <4>1. u \in Threads /\ u \in pr.heirs /\ u # t /\ new.thread[u] = pr.thread[u] /\ t \notin new.heirs
          BY <2>4, <1>0 DEF ProcessType
        <4>2. CASE pr.thread[u].ptr = pr.page BY <4>1, <4>2, <2>3, <2>4 DEF Passes
        <4>3. CASE pr.thread[u].ptr # pr.page
          <5>1. ~Forked(pr, u) /\ pr.thread[u].alive BY <4>1, <4>3, <3>1, <2>4, <2>5 DEF Forked
          <5>2. PICK w \in Threads \ pr.heirs : pr.thread[w].alive /\ pr.thread[w].ptr = pr.thread[u].ptr
            BY <5>1, <4>1 DEF Sound, Inherited, Passes
          <5>3. w # t BY <5>1, <5>2, <1>3 DEF Forked
          <5> QED BY <4>1, <5>2, <5>3, <2>4 DEF Passes
        <4> QED BY <4>2, <4>3
      <3>2. ASSUME NEW u \in Threads, new.thread[u].alive, new.thread[u].ptr = new.page PROVE new.flag[new.page] = 1
        BY <2>4
      <3> QED BY <3>1, <3>2 DEF Inherited
    <2>10. NeverZero(new)
      <3>1. th.public # Zero /\ th.private # Zero BY <2>3 DEF Zero
      <3> QED BY <3>1, <2>4, <2>6 DEF NeverZero, Sound
    <2>11. Advances(pr, new, t) BY <2>3, <2>4, <2>6 DEF Advances, KeptFor
    <2> QED BY <2>2, <2>4, <2>7, <2>8, <2>9, <2>10, <2>11 DEF Sound, new
  <1> QED BY <1>0, <1>1, <1>2, <1>3
-----------------------------------------------------------------------------
(***************************************************************************)
(* One lemma for each operation that changes processes.                    *)
(***************************************************************************)
LEMMA RandomDataStep ==
    ASSUME RInv, NEW p \in Processes, NEW t \in Threads, s2n_get_random_data(p, t)
    PROVE  RInv'
  <1>1. PICK n \in 0..2 : Seeds(proc[p], t, n) /\ proc' = [proc EXCEPT ![p] = s2n_defend_if_forked(proc[p], t, n)]
    BY DEF s2n_get_random_data
  <1>2. /\ seeds \in Nat /\ Sound(proc[p], seeds) /\ proc[p].thread[t].alive /\ proc[p].page > 0
        /\ seeds' = seeds + Used(proc[p], t, n) /\ kernel' \in Kernels
    BY <1>1 DEF RInv, s2n_get_random_data, Runs, Seeds
  <1> DEFINE new == s2n_defend_if_forked(proc[p], t, n)
  <1>3. /\ seeds + Used(proc[p], t, n) \in Nat /\ seeds + Used(proc[p], t, n) >= seeds
        /\ Sound(new, seeds + Used(proc[p], t, n)) /\ Advances(proc[p], new, t)
    BY <1>2, DefendKeepsSound
  <1> HIDE DEF new
  <1>4. proc' = [proc EXCEPT ![p] = new] BY <1>1 DEF new
  <1> QED BY <1>2, <1>3, <1>4, AdvanceKeepsUnique

LEMMA RandInitStep ==
    ASSUME RInv, NEW p \in Processes, NEW t \in Threads, s2n_rand_init(p, t)
    PROVE  RInv'
  <1> USE RandomAssumption
  <1> DEFINE page == proc[p].page + 1
             Opened(word) ==
                 [proc[p] EXCEPT !.entropy_fd = TRUE, !.page = page, !.atfork = TRUE,
                                 !.mix = IF kernel.rdrand THEN "rdrand" ELSE @,
                                 !.flag = [proc[p].flag EXCEPT ![page] = word, ![proc[p].thread[t].ptr] = 0]]
  <1>1. PICK n \in 0..2, word \in {0, 1} :
           Seeds(Opened(word), t, n) /\ proc' = [proc EXCEPT ![p] = s2n_defend_if_forked(Opened(word), t, n)]
    BY DEF s2n_rand_init
  <1> DEFINE pr == Opened(word)
             old == proc[p]
  <1>2. /\ seeds \in Nat /\ Sound(old, seeds) /\ old.thread[t].alive /\ old.page < MaxPages
        /\ kernel' \in Kernels /\ old \in ProcessType /\ old.heirs \in SUBSET Threads
        /\ old.page \in Ages /\ \A u \in Threads : old.thread[u].ptr \in Ages /\ old.thread[u].ptr <= old.page
    BY <1>1 DEF RInv, s2n_rand_init, Runs, Seeds, Sound, ProcessType, ThreadType, Pages
  <1>3. page \in Ages /\ page > 0 /\ old.thread[t].ptr # page /\ old.page < page BY <1>2 DEF Ages
  <1>4. (IF kernel.rdrand THEN "rdrand" ELSE old.mix) \in {"urandom", "rdrand"}
    BY <1>2 DEF ProcessType
  <1>5. [proc[p].flag EXCEPT ![page] = word, ![proc[p].thread[t].ptr] = 0] \in [Ages -> {0, 1}]
    BY <1>2, <1>3 DEF ProcessType
  <1>6. /\ pr \in ProcessType /\ pr.page = page /\ pr.atfork = TRUE /\ pr.thread = old.thread /\ pr.heirs = old.heirs
        /\ pr.flag = [old.flag EXCEPT ![page] = word, ![old.thread[t].ptr] = 0]
    BY <1>2, <1>3, <1>4, <1>5 DEF ProcessType
  <1> HIDE DEF pr, page, Opened, old
  <1>7. /\ pr.flag[old.thread[t].ptr] = 0
        /\ \A m \in Ages : m # page => pr.flag[m] = 0 \/ pr.flag[m] = old.flag[m]
    <2>1. old.flag \in [Ages -> {0, 1}] BY <1>2 DEF ProcessType
    <2> QED BY <1>2, <1>3, <1>6, <2>1
  <1>8. \A u \in Threads : old.thread[u].ptr # page BY <1>2, <1>3 DEF Ages
  <1>9. \A u \in Threads : Current(pr, u) => Current(old, u)
    BY <1>2, <1>6, <1>7, <1>8 DEF Current, Forked
  <1>10. Sound(pr, seeds)
    <2>1. Seeded(pr, seeds) BY <1>2, <1>6 DEF Sound, Seeded
    <2>2. Pages(pr)
      <3>1. pr.flag[0] = 0
        <4>1. 0 \in Ages /\ 0 # page BY <1>3 DEF Ages
        <4> QED BY <4>1, <1>7, <1>2 DEF Sound, Pages
      <3>2. \A u \in Threads : pr.thread[u].ptr <= pr.page BY <1>2, <1>3, <1>6 DEF Ages
      <3> QED BY <3>1, <3>2, <1>6 DEF Pages
    <2>3. Inherited(pr)
      <3>1. \A u \in Threads : ~Forked(pr, u) => ~Forked(old, u) BY <1>2, <1>6, <1>7, <1>8 DEF Forked
      <3>2. \A u \in Threads : Passes(old, u) => Passes(pr, u) BY <1>6 DEF Passes
      <3> QED BY <3>1, <3>2, <1>2, <1>6, <1>8 DEF Sound, Inherited
    <2>4. NeverZero(pr) BY <1>2, <1>6, <1>9 DEF Sound, NeverZero
    <2> QED BY <1>6, <2>1, <2>2, <2>3, <2>4 DEF Sound
  <1> DEFINE new == s2n_defend_if_forked(pr, t, n)
  <1>11. /\ seeds + Used(pr, t, n) \in Nat /\ seeds + Used(pr, t, n) >= seeds
         /\ Sound(new, seeds + Used(pr, t, n)) /\ Advances(pr, new, t)
    <2>1. pr.thread[t].alive /\ pr.page > 0 BY <1>2, <1>3, <1>6
    <2> QED BY <1>2, <1>10, <2>1, DefendKeepsSound
  <1> HIDE DEF new
  <1>12. Advances(proc[p], new, t) BY <1>9, <1>11, <1>6 DEF Advances, old
  <1>13. proc' = [proc EXCEPT ![p] = new] /\ seeds' = seeds + Used(pr, t, n) BY <1>1 DEF new, pr, Seeds
  <1> QED BY <1>2, <1>11, <1>12, <1>13, AdvanceKeepsUnique

LEMMA CleanupStep ==
    ASSUME RInv, NEW p \in Processes, NEW t \in Threads, s2n_cleanup(p, t)
    PROVE  RInv'
  <1> USE RandomAssumption
  <1> DEFINE old == proc[p]
             th == s2n_rand_cleanup_thread(old.thread[t])
             pr == [old EXCEPT !.thread[t] = th]
             final == t = main_thread[p] /\ ~kernel.atexit_cleanup
             new == IF final THEN s2n_rand_cleanup(pr) ELSE pr
  <1>1. /\ proc' = [proc EXCEPT ![p] = new] /\ seeds' = seeds /\ kernel' = kernel
    BY DEF s2n_cleanup
  <1>2. /\ seeds \in Nat /\ kernel \in Kernels /\ Sound(old, seeds) /\ old \in ProcessType
        /\ old.thread[t] \in ThreadType
    BY DEF RInv, Sound, ProcessType
  <1>3. /\ th \in ThreadType /\ th.alive = old.thread[t].alive /\ th.ptr = old.thread[t].ptr
        /\ th.public = Null /\ th.private = Null
    <2>1. Null \in Generators BY DEF Null, Generators
    <2> QED BY <1>2, <2>1 DEF s2n_rand_cleanup_thread, ThreadType
  <1> HIDE DEF th, final
  <1>4. /\ pr \in ProcessType /\ pr.page = old.page /\ pr.atfork = old.atfork /\ pr.flag = old.flag /\ pr.heirs = old.heirs
        /\ pr.thread = [old.thread EXCEPT ![t] = th]
    BY <1>2, <1>3 DEF ProcessType
  <1> HIDE DEF pr
  <1>5. /\ s2n_rand_cleanup(pr) \in ProcessType /\ s2n_rand_cleanup(pr).page = old.page
        /\ s2n_rand_cleanup(pr).atfork = old.atfork /\ s2n_rand_cleanup(pr).flag = old.flag
        /\ s2n_rand_cleanup(pr).heirs = old.heirs
        /\ s2n_rand_cleanup(pr).thread = [old.thread EXCEPT ![t] = th]
    BY <1>4 DEF ProcessType, s2n_rand_cleanup
  <1>6. /\ new \in ProcessType /\ new.page = old.page /\ new.atfork = old.atfork /\ new.flag = old.flag
        /\ new.heirs = old.heirs
        /\ new.thread = [old.thread EXCEPT ![t] = th]
    BY <1>4, <1>5
  <1> HIDE DEF new, old
  <1>7. new.thread[t] = th /\ \A u \in Threads : u # t => new.thread[u] = old.thread[u]
    BY <1>6, <1>2 DEF ProcessType
  <1>8. \A u \in Threads : Current(new, u) => Current(old, u) BY <1>6, <1>7, <1>3 DEF Current, Forked
  <1>9. Sound(new, seeds')
    <2>1. Seeded(new, seeds) BY <1>2, <1>3, <1>7 DEF Sound, Seeded, Drawn
    <2>2. Pages(new) BY <1>2, <1>3, <1>6, <1>7 DEF Sound, Pages
    <2>3. Inherited(new)
      <3>1. old.heirs \in SUBSET Threads BY <1>2 DEF ProcessType
      <3>2. \A u \in Threads : new.thread[u].alive = old.thread[u].alive /\ new.thread[u].ptr = old.thread[u].ptr
        BY <1>3, <1>7
      <3> QED BY <3>1, <3>2, <1>2, <1>6 DEF Sound, Inherited, Passes, Forked
    <2>4. NeverZero(new)
      <3>1. Null # Zero BY DEF Null, Zero
      <3> QED BY <3>1, <1>2, <1>3, <1>7, <1>8 DEF Sound, NeverZero
    <2> QED BY <1>1, <1>6, <2>1, <2>2, <2>3, <2>4 DEF Sound
  <1>10. Advances(proc[p], new, t) BY <1>8, <1>7, <1>3 DEF Advances, KeptFor, old
  <1>11. seeds' \in Nat /\ seeds' >= seeds /\ kernel' \in Kernels BY <1>1, <1>2
  <1> QED BY <1>1, <1>9, <1>10, <1>11, AdvanceKeepsUnique

(***************************************************************************)
(* A child's only thread is never current: the kernel wiped the page, or   *)
(* the handler ran, or the parent had no page and its flag is zero.        *)
(***************************************************************************)
LEMMA ForkStep ==
    ASSUME RInv, NEW p \in Processes, NEW t \in Threads, NEW q \in Processes,
           NEW how \in {"fork", "clone"}, Fork(p, t, q, how)
    PROVE  RInv'
  <1> USE RandomAssumption
  <1> DEFINE old == proc[p]
             thread == [u \in Threads |-> IF u = t THEN old.thread[t] ELSE Unborn]
             flag == IF kernel.wipes THEN [n \in Ages |-> 0] ELSE old.flag
             copy == [old EXCEPT !.thread = thread, !.flag = flag, !.heirs = {t}]
             new == Child(old, t, how)
  <1>1. /\ proc' = [proc EXCEPT ![q] = new] /\ seeds' = seeds /\ kernel' = kernel
        /\ how = "clone" => kernel.wipes
        /\ q > p
    BY DEF Fork
  <1>2. /\ seeds \in Nat /\ kernel \in Kernels /\ Sound(old, seeds) /\ old \in ProcessType
        /\ old.thread[t] \in ThreadType /\ old.flag \in [Ages -> {0, 1}] /\ old.thread[t].ptr \in Ages
        /\ kernel.wipes \in BOOLEAN
    BY DEF RInv, Sound, ProcessType, ThreadType
  <1>3. Unborn \in ThreadType /\ Unborn.alive = FALSE /\ Unborn.ptr = 0 /\ Unborn.public = Null /\ Unborn.private = Null
    <2>1. Null \in Generators /\ 0 \in Ages BY DEF Null, Generators, Ages
    <2> QED BY <2>1 DEF Unborn, ThreadType
  <1>4. thread \in [Threads -> ThreadType] /\ thread[t] = old.thread[t] /\ \A u \in Threads : u # t => thread[u] = Unborn
    BY <1>2, <1>3
  <1>5. flag \in [Ages -> {0, 1}] /\ flag[0] = 0 /\ (kernel.wipes => flag[old.thread[t].ptr] = 0)
    BY <1>2 DEF Sound, Pages, Ages
  <1>6. copy \in ProcessType /\ copy.thread = thread /\ copy.flag = flag /\ copy.page = old.page /\ copy.atfork = old.atfork
        /\ copy.heirs = {t}
    BY <1>2, <1>4, <1>5 DEF ProcessType
  <1>7. new = IF how = "fork" /\ old.atfork THEN s2n_on_fork(copy, t) ELSE copy BY DEF Child, Ages
  <1> HIDE DEF copy, thread, flag, new
  <1>8. /\ new \in ProcessType /\ new.thread = thread /\ new.page = old.page /\ new.atfork = old.atfork
        /\ new.heirs = {t} /\ new.flag[0] = 0 /\ new.flag[old.thread[t].ptr] = 0
    <2>1. CASE how = "fork" /\ old.atfork
      <3>1. new = [copy EXCEPT !.flag = [flag EXCEPT ![old.thread[t].ptr] = 0]]
        BY <1>7, <2>1, <1>6, <1>4 DEF s2n_on_fork
      <3>2. [flag EXCEPT ![old.thread[t].ptr] = 0] \in [Ages -> {0, 1}] BY <1>5
      <3>3. [flag EXCEPT ![old.thread[t].ptr] = 0][0] = 0 /\ [flag EXCEPT ![old.thread[t].ptr] = 0][old.thread[t].ptr] = 0
        BY <1>5, <1>2 DEF Ages
      <3> QED BY <3>1, <3>2, <3>3, <1>6 DEF ProcessType
    <2>2. CASE ~(how = "fork" /\ old.atfork)
      <3>1. new = copy BY <2>2, <1>7
      <3>2. CASE kernel.wipes BY <3>1, <3>2, <1>6, <1>5
      <3>3. CASE ~kernel.wipes
        <4>1. how = "fork" /\ ~old.atfork BY <3>3, <1>1, <2>2
        <4>2. old.thread[t].ptr = 0 BY <4>1, <1>2 DEF Sound, Pages, Ages
        <4> QED BY <3>1, <4>2, <1>6, <1>5
      <3> QED BY <3>2, <3>3
    <2> QED BY <2>1, <2>2
  <1> HIDE DEF old
  <1>9. \A u \in Threads : ~Current(new, u) BY <1>8, <1>4, <1>3 DEF Current, Forked
  <1>10. Sound(new, seeds')
    <2>1. Seeded(new, seeds) BY <1>2, <1>3, <1>4, <1>8 DEF Sound, Seeded, Drawn
    <2>2. Pages(new)
      <3>1. old.page \in Ages BY <1>2 DEF ProcessType
      <3> QED BY <3>1, <1>2, <1>3, <1>4, <1>8 DEF Sound, Pages, Ages
    <2>3. Inherited(new)
      <3>1. \A u \in Threads : u # t => ~new.thread[u].alive BY <1>3, <1>4, <1>8
      <3>2. Forked(new, t) BY <1>4, <1>8 DEF Forked
      <3> QED BY <3>1, <3>2, <1>8 DEF Inherited
    <2>4. NeverZero(new) BY <1>9 DEF NeverZero
    <2> QED BY <1>1, <1>8, <2>1, <2>2, <2>3, <2>4 DEF Sound
  <1>11. Advances(proc[q], new, t) BY <1>9 DEF Advances
  <1>12. seeds' \in Nat /\ seeds' >= seeds /\ kernel' \in Kernels BY <1>1, <1>2
  <1> QED BY <1>1, <1>10, <1>11, <1>12, AdvanceKeepsUnique

\* A new thread points to the variable zero, so it is not current.
LEMMA StartThreadStep ==
    ASSUME RInv, NEW p \in Processes, NEW t \in Threads, StartThread(p, t)
    PROVE  RInv'
  <1> USE RandomAssumption
  <1> DEFINE old == proc[p]
             new == [old EXCEPT !.thread = [old.thread EXCEPT ![t] = NewThread]]
  <1>1. /\ seeds \in Nat /\ kernel \in Kernels /\ Sound(old, seeds) /\ old \in ProcessType /\ old.page \in Ages
    BY DEF RInv, Sound, ProcessType
  <1>2. seeds' = seeds /\ kernel' = kernel /\ proc' = [proc EXCEPT ![p] = new] /\ ~old.thread[t].alive
    BY <1>1 DEF StartThread, RInv, ProcessType
  <1>3. /\ NewThread \in ThreadType /\ NewThread.alive = TRUE /\ NewThread.ptr = 0
        /\ NewThread.public = Null /\ NewThread.private = Null
    <2>1. Null \in Generators /\ 0 \in Ages BY DEF Null, Generators, Ages
    <2> QED BY <2>1 DEF NewThread, Unborn, ThreadType
  <1>4. /\ new \in ProcessType /\ new.page = old.page /\ new.atfork = old.atfork /\ new.flag = old.flag
        /\ new.heirs = old.heirs /\ old.heirs \in SUBSET Threads
        /\ new.thread[t] = NewThread /\ \A u \in Threads : u # t => new.thread[u] = old.thread[u]
    BY <1>1, <1>3 DEF ProcessType
  <1> HIDE DEF new, old
  <1>5. \A u \in Threads : Current(new, u) => u # t /\ Current(old, u)
    BY <1>1, <1>3, <1>4 DEF Current, Forked, Sound, Pages
  <1>6. Sound(new, seeds')
    <2>1. Seeded(new, seeds) BY <1>1, <1>3, <1>4 DEF Sound, Seeded, Drawn
    <2>2. Pages(new) BY <1>1, <1>3, <1>4 DEF Sound, Pages, Ages
    <2>3. Inherited(new)
      <3>1. ASSUME NEW u \in Threads, new.thread[u].alive, new.thread[u].ptr = new.page, new.page > 0, u \notin new.heirs
            PROVE  new.flag[new.page] = 1
        <4>1. u # t BY <3>1, <1>3, <1>4
        <4> QED BY <3>1, <4>1, <1>1, <1>4 DEF Sound, Inherited
      <3>2. ASSUME NEW u \in new.heirs, new.thread[u].alive, ~Forked(new, u) PROVE Passes(new, u)
        <4>1. u \in Threads /\ u \in old.heirs BY <1>4
        <4>2. u # t BY <3>2, <1>1, <1>3, <1>4 DEF Forked, Sound, Pages
        <4>3. old.thread[u].alive /\ ~Forked(old, u) BY <3>2, <4>1, <4>2, <1>4 DEF Forked
        <4>4. PICK w \in Threads \ old.heirs : old.thread[w].alive /\ old.thread[w].ptr = old.thread[u].ptr
          BY <4>1, <4>3, <1>1 DEF Sound, Inherited, Passes
        <4>5. w # t BY <4>4, <1>2
        <4> QED BY <4>1, <4>2, <4>4, <4>5, <1>4 DEF Passes
      <3> QED BY <3>1, <3>2 DEF Inherited
    <2>4. NeverZero(new) BY <1>1, <1>4, <1>5 DEF Sound, NeverZero
    <2> QED BY <1>2, <1>4, <2>1, <2>2, <2>3, <2>4 DEF Sound
  <1>7. Advances(proc[p], new, t) BY <1>4, <1>5 DEF Advances, KeptFor, old
  <1>8. seeds' \in Nat /\ seeds' >= seeds /\ kernel' \in Kernels BY <1>1, <1>2
  <1> QED BY <1>2, <1>6, <1>7, <1>8, AdvanceKeepsUnique

LEMMA RInvInitially == Init => RInv
  <1> USE RandomAssumption
  <1> SUFFICES ASSUME Init PROVE RInv OBVIOUS
  <1> DEFINE First(t) == [NoProcess EXCEPT !.alive = TRUE, !.thread[t] = NewThread]
  <1>1. PICK t \in Threads : proc = [p \in Processes |-> IF p = 1 THEN First(t) ELSE NoProcess]
    BY DEF Init, RandomInit
  <1>2. seeds = 0 /\ kernel \in Kernels BY DEF Init, RandomInit
  <1>3. 0 \in Ages /\ Null \in Generators BY DEF Ages, Null, Generators
  <1>4. /\ Unborn \in ThreadType /\ Unborn.alive = FALSE /\ Unborn.ptr = 0 /\ Unborn.public = Null /\ Unborn.private = Null
        /\ NewThread \in ThreadType /\ NewThread.alive = TRUE /\ NewThread.ptr = 0
        /\ NewThread.public = Null /\ NewThread.private = Null
    BY <1>3 DEF Unborn, NewThread, ThreadType
  <1>5. /\ NoProcess \in ProcessType /\ NoProcess.page = 0 /\ NoProcess.thread = [u \in Threads |-> Unborn] /\ NoProcess.heirs = {}
        /\ NoProcess.flag[0] = 0
    BY <1>3, <1>4 DEF NoProcess, ProcessType, Ages
  <1>6. /\ First(t) \in ProcessType /\ First(t).page = 0 /\ First(t).flag[0] = 0 /\ First(t).heirs = {}
        /\ First(t).thread = [[u \in Threads |-> Unborn] EXCEPT ![t] = NewThread]
    BY <1>4, <1>5 DEF ProcessType
  <1> HIDE DEF First
  <1>7. ASSUME NEW p \in Processes
        PROVE  /\ proc[p] \in ProcessType /\ proc[p].page = 0 /\ proc[p].flag[0] = 0 /\ proc[p].heirs = {}
               /\ \A u \in Threads : /\ proc[p].thread[u].ptr = 0
                                     /\ proc[p].thread[u].public = Null /\ proc[p].thread[u].private = Null
    <2>1. CASE p = 1
      <3>1. proc[p] = First(t) BY <1>1, <2>1
      <3> QED BY <2>1, <3>1, <1>4, <1>6
    <2>2. CASE p # 1
      <3>1. proc[p] = NoProcess BY <1>1, <2>2
      <3> QED BY <2>2, <3>1, <1>4, <1>5
    <2> QED BY <2>1, <2>2
  <1>8. \A p \in Processes, u \in Threads : ~Current(proc[p], u) BY <1>7 DEF Current, Forked
  <1>9. ASSUME NEW p \in Processes PROVE Sound(proc[p], seeds)
    <2>1. Seeded(proc[p], seeds) BY <1>7 DEF Seeded, Drawn
    <2>2. Pages(proc[p]) BY <1>7 DEF Pages
    <2>3. Inherited(proc[p])
      <3>1. proc[p].page = 0 /\ proc[p].heirs = {} BY <1>7
      <3>2. ~(proc[p].page > 0) BY <3>1
      <3> QED BY <3>1, <3>2 DEF Inherited
    <2>4. NeverZero(proc[p]) BY <1>8 DEF NeverZero
    <2> QED BY <1>7, <2>1, <2>2, <2>3, <2>4 DEF Sound
  <1>10. Unique BY <1>8 DEF Unique
  <1>11. DOMAIN proc = Processes /\ proc = [p \in Processes |-> proc[p]] BY <1>1
  <1> QED BY <1>2, <1>9, <1>10, <1>11 DEF RInv

LEMMA RInvIsInductive ==
    ASSUME RInv, [Next]_vars
    PROVE  RInv'
  <1>1. CASE UNCHANGED randomVars
    BY <1>1 DEF randomVars, RInv, Sound, Seeded, Pages, Inherited, Passes, NeverZero, Unique, Current, Forked
  <1>2. ASSUME NEW p \in Processes, NEW t \in Threads, s2n_init(p, t) PROVE RInv'
    BY <1>2, RandInitStep DEF s2n_init
  <1>3. ASSUME NEW p \in Processes, NEW t \in Threads, s2n_cleanup(p, t) PROVE RInv'
    BY <1>3, CleanupStep
  <1>4. CASE ForksNext BY <1>4, RandomDataStep, StartThreadStep, ForkStep DEF ForksNext
  <1> QED BY <1>1, <1>2, <1>3, <1>4 DEF Next, vars

\* Sound and unique generators cannot be shared by threads that draw and are not overlooked.
LEMMA RInvSuffices == RInv => GeneratorsNotShared
  <1> SUFFICES ASSUME RInv PROVE GeneratorsNotShared OBVIOUS
  <1> DEFINE Uses(p, t, kind) == Draws(p, t, kind) /\ ~Overlooked(<<p, t, kind>>)
  <1>1. ASSUME NEW p \in Processes, NEW t \in Threads, NEW kind \in Kinds, Uses(p, t, kind)
        PROVE  /\ Current(proc[p], t) /\ Sound(proc[p], seeds)
               /\ proc[p].thread[t][kind] # Null /\ proc[p].thread[t][kind] # Zero
               /\ \E s \in Nat : proc[p].thread[t][kind] = <<kind, s>>
    <2>0. Sound(proc[p], seeds) /\ proc[p].thread[t].alive /\ ~Forked(proc[p], t) /\ proc[p].thread[t][kind] # Null
      BY <1>1 DEF Draws, Runs, s2n_drbg_generate, RInv
    <2>1. t \notin proc[p].heirs
      <3> SUFFICES ASSUME t \in proc[p].heirs PROVE FALSE OBVIOUS
      <3>1. Passes(proc[p], t) BY <2>0 DEF Sound, Inherited
      <3> QED BY <3>1, <1>1 DEF Passes, Overlooked
    <2>4. Current(proc[p], t) BY <2>0, <2>1 DEF Current
    <2>2. CASE kind = "public" BY <2>0, <2>4, <2>2 DEF Sound, NeverZero, Seeded, Drawn
    <2>3. CASE kind = "private" BY <2>0, <2>4, <2>3 DEF Sound, NeverZero, Seeded, Drawn
    <2> QED BY <2>0, <2>4, <2>2, <2>3 DEF Kinds
  <1>2. ASSUME NEW p \in Processes, NEW t \in Threads, NEW k \in Kinds, Uses(p, t, k),
               NEW q \in Processes, NEW u \in Threads, NEW l \in Kinds, Uses(q, u, l),
               proc[p].thread[t][k] = proc[q].thread[u][l]
        PROVE  p = q /\ t = u /\ k = l
    <2>1. k = l BY <1>1, <1>2
    <2>2. CASE k = "public" BY <1>1, <1>2, <2>1, <2>2 DEF RInv, Unique
    <2>3. CASE k = "private" BY <1>1, <1>2, <2>1, <2>3 DEF RInv, Unique
    <2> QED BY <2>1, <2>2, <2>3 DEF Kinds
  <1> HIDE DEF Uses
  <1> DEFINE Defended == {u \in Drawing : ~Overlooked(u)}
  <1>3. ASSUME NEW v \in Defended
        PROVE  \E p \in Processes, t \in Threads, k \in Kinds : v = <<p, t, k>> /\ Uses(p, t, k)
    BY <1>3 DEF Drawing, Uses
  <1>4. \A v \in Defended : Generator(v) # Zero BY <1>1, <1>3 DEF Generator
  <1>5. ASSUME NEW v \in Defended, NEW w \in Defended, Generator(v) = Generator(w) PROVE v = w
    <2>1. PICK p \in Processes, t \in Threads, k \in Kinds : v = <<p, t, k>> /\ Uses(p, t, k) BY <1>3
    <2>2. PICK q \in Processes, u \in Threads, l \in Kinds : w = <<q, u, l>> /\ Uses(q, u, l) BY <1>3
    <2> QED BY <1>2, <1>5, <2>1, <2>2 DEF Generator
  <1> QED BY <1>4, <1>5 DEF GeneratorsNotShared

-----------------------------------------------------------------------------
(***************************************************************************)
(* No two threads draw from one generator and none from one that has no    *)
(* seed, unless it came with a fork and another thread of the child was    *)
(* seeded before it (s2n_random.c): forks, bare clones on kernels that     *)
(* wipe pages, threads started anywhere, failing entropy, and s2n_init and *)
(* s2n_cleanup may come in any order and any number.                       *)
(***************************************************************************)
THEOREM GeneratorsAreNotShared == Spec => []GeneratorsNotShared
  <1>1. RInv /\ [Next]_vars => RInv' BY RInvIsInductive
  <1> QED BY <1>1, RInvInitially, RInvSuffices, PTL DEF Spec

-----------------------------------------------------------------------------
(***************************************************************************)
(* The memory of a connection.  A block tells the field it was allocated   *)
(* for; CellOk is what a cell of each kind may be between two calls.       *)
(***************************************************************************)
Objects == Pointers \cup Library
Buffers == Stuffers \ {"cookie_stuffer"}
PagesOf(f) == IF f \in Pointers THEN 1 ELSE 0

Block == Fields \X Nat \X Nat
CellType == [data : Block \cup {NoBlock, UserBlock}, size : Nat, room : Nat, growable : BOOLEAN,
             alloced : BOOLEAN, sgrowable : BOOLEAN, tainted : BOOLEAN, r : Nat, w : Nat]
HeapType == [init : BOOLEAN, mlock : BOOLEAN, live : SUBSET Block, bad : BOOLEAN]
StateType == [m : HeapType, c : [Fields -> CellType], managed_io : BOOLEAN, limit : Limits, ok : BOOLEAN]

\* A cell that holds memory of its own.
Filled(c) == c.data \in Block

\* An object is there with all its pages, or its pointer is null or the application's.
ObjectOk(f, c) ==
    /\ c.data = NoBlock => c = Empty
    /\ Filled(c) => c = [Empty EXCEPT !.data = c.data, !.size = PagesOf(f), !.room = PagesOf(f), !.growable = TRUE]
    /\ c.data = UserBlock => f = "recv_io_context" /\ c = [Empty EXCEPT !.data = UserBlock]

\* A blob has room exactly if it has memory, and then it can grow.
BlobOk(c) ==
    /\ c.data # UserBlock /\ c.size <= c.room
    /\ c.data = NoBlock => c.room = 0 /\ ~c.growable
    /\ Filled(c) => c.size > 0 /\ c.growable

Plain(c) == ~c.alloced /\ ~c.sgrowable /\ ~c.tainted /\ c.r = 0 /\ c.w = 0

\* A stuffer was allocated as a growable one, or has nothing.
StufferOk(c) == c.alloced = c.sgrowable /\ (Filled(c) => c.alloced)

CellOk(f, c) ==
    /\ Filled(c) => c.data[1] = f
    /\ f \in Objects => ObjectOk(f, c)
    /\ f \in Blobs => BlobOk(c) /\ Plain(c)
    /\ f \in Stuffers => BlobOk(c) /\ StufferOk(c)
    /\ f = "cookie_stuffer" => c.data = NoBlock

(***************************************************************************)
(* The blocks in use, but for those in A which nobody holds, are those the *)
(* cells hold, and nothing was freed that was not in use.                  *)
(***************************************************************************)
Owned(s, A) ==
    /\ s \in StateType /\ ~s.m.bad /\ IsFiniteSet(s.m.live)
    /\ A \subseteq s.m.live
    /\ \A f \in Fields : CellOk(f, s.c[f])
    /\ \A f \in Fields : Filled(s.c[f]) => s.c[f].data \in s.m.live \ A
    /\ \A b \in s.m.live \ A : s.c[b[1]].data = b

\* The contexts of the transport are the library's only if managed_io says so.
IoOk(s) ==
    /\ Filled(s.c["send_io_context"]) \/ Filled(s.c["recv_io_context"]) => s.managed_io
    /\ s.c["recv_io_context"].data = UserBlock => ~s.managed_io

(***************************************************************************)
(* What a handshake has not yet allocated: the calls that allocate without *)
(* looking come once each.                                                 *)
(***************************************************************************)
Pending(e, fields) == e \notin events => \A f \in fields : cell[f].data \notin Block
Untouched ==
    /\ heap.init /\ events \subseteq Of(mode) \cup {"set_ctx", "second_hello"}
    /\ Pending("s2n_connection_set_read_fd", {"recv_io_context"})
    /\ Pending("s2n_connection_set_write_fd", {"send_io_context"})
    /\ "set_ctx" \notin events => cell["recv_io_context"].data # UserBlock
    /\ events \cap {"s2n_connection_set_read_fd", "s2n_connection_set_write_fd"} = {} => ~managed_io
    /\ Pending("s2n_quic_transport_params_recv", {"peer_quic_transport_parameters"})
    /\ Pending("s2n_client_cert_recv", {"client_public_key"})
    /\ Pending("s2n_server_cert_recv", {"server_public_key"})
    /\ Pending("s2n_dh_generate_ephemeral_key", {"dh_params"})
    /\ events \cap {"s2n_kem_generate_keypair", "s2n_kem_recv_public_key"} = {} =>
          \A f \in {"kem_public_key", "kem_shared_secret"} : cell[f].data \notin Block

MInv ==
    /\ Owned(State, abandoned) /\ IoOk(State)
    /\ phase \in {"none", "new", "handshake", "done", "slim", "broken"}
    /\ scene \in {"forks", "connections"} /\ (scene = "forks" => phase = "none")
    /\ phase = "none" => \A f \in Fields : ~Filled(cell[f])
    /\ phase # "none" => \A f \in {"self", "keys", "hmacs"} : Filled(cell[f])
    /\ phase = "new" => events = {}
    /\ phase \in {"new", "handshake"} => Untouched
    /\ ReusedAsNew

-----------------------------------------------------------------------------
\* A set of natural numbers has a least one.
LEMMA LeastNatural ==
    ASSUME NEW T, T \subseteq Nat, T # {}
    PROVE  \E x \in T : \A y \in T : x <= y
  <1> DEFINE R == OpToRel(<, Nat)
  <1>1. IsWellFoundedOn(R, Nat) BY NatLessThanWellFounded
  <1>2. \A x, y \in Nat : y < x => <<y, x>> \in R BY DEF OpToRel
  <1> HIDE DEF R
  <1>3. PICK x \in T : \A y \in T : ~ (<<y, x>> \in R) BY <1>1, WFMin
  <1>4. ASSUME NEW y \in T PROVE x <= y
    <2>1. x \in Nat /\ y \in Nat OBVIOUS
    <2>2. ~(y < x) BY <1>2, <1>3, <2>1
    <2> QED BY <2>1, <2>2
  <1> QED BY <1>4

\* What holds of zero and of the next number holds of all.
LEMMA SetInduction ==
    ASSUME NEW S, 0 \in S, \A n \in Nat : n \in S => n + 1 \in S
    PROVE  Nat \subseteq S
  <1> DEFINE T == Nat \ S
  <1> SUFFICES ASSUME T # {} PROVE FALSE OBVIOUS
  <1>1. PICK x \in T : \A y \in T : x <= y BY LeastNatural
  <1>2. x # 0 /\ x - 1 \in Nat /\ x - 1 \notin T BY <1>1
  <1> QED BY <1>1, <1>2

-----------------------------------------------------------------------------
\* The kinds of fields exclude each other.
LEMMA FieldKinds ==
    /\ Fields = Objects \cup Blobs \cup Stuffers
    /\ Objects \cap Blobs = {} /\ Objects \cap Stuffers = {} /\ Blobs \cap Stuffers = {}
    /\ "none" \notin Fields /\ "user" \notin Fields
    /\ "cookie_stuffer" \in Stuffers /\ "recv_io_context" \in Objects /\ "send_io_context" \in Objects
  BY DEF Fields, Objects, Pointers, Library, Blobs, Stuffers

\* A block tells its field, and is neither null nor the application's.
LEMMA BlockIsOurs ==
    /\ NoBlock \notin Block /\ UserBlock \notin Block /\ NoBlock # UserBlock
    /\ \A b \in Block : b[1] \in Fields /\ b # NoBlock /\ b # UserBlock
  BY FieldKinds DEF Block, NoBlock, UserBlock

\* The cell of a field that holds nothing.
LEMMA EmptyCell == Empty \in CellType /\ ~Filled(Empty) /\ Empty.data = NoBlock
  BY BlockIsOurs DEF Empty, CellType, Filled

\* FreshBlock finds a number that no block of the field has.
LEMMA FreshIsFresh ==
    ASSUME NEW s \in StateType, IsFiniteSet(s.m.live), NEW f \in Fields, NEW n \in Nat
    PROVE  FreshBlock(s, f, n) \in Block /\ FreshBlock(s, f, n) \notin s.m.live /\ FreshBlock(s, f, n)[1] = f
                 /\ FreshBlock(s, f, n)[3] = n
  <1> DEFINE L == s.m.live
             C == Cardinality(L)
             Taken(i) == \E b \in L : <<b[1], b[2]>> = <<f, i>>
             First(i) == /\ \A b \in L : <<b[1], b[2]>> # <<f, i>>
                         /\ \A j \in 1..(i - 1) : \E b \in L : <<b[1], b[2]>> = <<f, j>>
  <1>1. C \in Nat /\ L \subseteq Block BY FS_CardinalityType DEF StateType, HeapType
  <1>2. \E i \in 1..(C + 1) : ~Taken(i)
    <2> SUFFICES ASSUME \A i \in 1..(C + 1) : Taken(i) PROVE FALSE OBVIOUS
    <2> DEFINE g == [i \in 1..(C + 1) |-> CHOOSE b \in L : <<b[1], b[2]>> = <<f, i>>]
    <2>1. \A i \in 1..(C + 1) : g[i] \in L /\ g[i][2] = i OBVIOUS
    <2>2. g \in [1..(C + 1) -> L] BY <2>1
    <2>3. IsFiniteSet(1..(C + 1)) /\ Cardinality(1..(C + 1)) = C + 1 BY <1>1, FS_Interval
    <2>4. C < C + 1 BY <1>1
    <2> HIDE DEF g
    <2>5. \E x, y \in 1..(C + 1) : x # y /\ g[x] = g[y]
      <3> DEFINE S == 1..(C + 1)
      <3>1. IsFiniteSet(S) /\ Cardinality(L) < Cardinality(S) /\ g \in [S -> L] BY <2>2, <2>3, <2>4
      <3>2. IsFiniteSet(L) OBVIOUS
      <3> HIDE DEF S, L
      <3>3. \E x, y \in S : x # y /\ g[x] = g[y] BY <3>1, <3>2, FS_PigeonHole
      <3> QED BY <3>3 DEF S
    <2> QED BY <2>1, <2>5
  <1>3. PICK i \in {j \in 1..(C + 1) : ~Taken(j)} : \A j \in {k \in 1..(C + 1) : ~Taken(k)} : i <= j
    <2> DEFINE T == {j \in 1..(C + 1) : ~Taken(j)}
    <2>1. T \subseteq Nat /\ T # {} BY <1>1, <1>2
    <2> HIDE DEF T
    <2>2. \E x \in T : \A y \in T : x <= y BY <2>1, LeastNatural
    <2> QED BY <2>2 DEF T
  <1>4. i \in 1..(C + 1) /\ First(i)
    <2>1. ASSUME NEW j \in 1..(i - 1) PROVE Taken(j)
      <3>1. j \in 1..(C + 1) /\ ~(i <= j) BY <1>1, <1>3
      <3> QED BY <1>3, <3>1
    <2> QED BY <1>3, <2>1
  <1> DEFINE k == CHOOSE j \in 1..(C + 1) : First(j)
  <1>5. k \in 1..(C + 1) /\ First(k) BY <1>4
  <1>6. FreshBlock(s, f, n) = <<f, k, n>> BY Zenon DEF FreshBlock
  <1>7. k \in Nat BY <1>1, <1>5
  <1> HIDE DEF k
  <1>8. <<f, k, n>> \in Block BY <1>7 DEF Block
  <1>9. <<f, k, n>> \notin L BY <1>5
  <1> QED BY <1>6, <1>8, <1>9

(***************************************************************************)
(* A call on the cell f that changes no other.  Its cell keeps its block,  *)
(* gives it up or takes a new one in its place.                            *)
(***************************************************************************)
Near(s, t, f) ==
    /\ t \in StateType /\ t.m.init = s.m.init /\ t.managed_io = s.managed_io /\ t.limit = s.limit
    /\ \A g \in Fields : g # f => t.c[g] = s.c[g]

Keeps(s, t, f) == t.c[f].data = s.c[f].data /\ t.m.live = s.m.live
GivesUp(s, t, f) == ~Filled(t.c[f]) /\ t.m.live = s.m.live \ {s.c[f].data}
Takes(s, t, f) ==
    \E b \in Block : /\ b \notin s.m.live /\ b[1] = f /\ t.c[f].data = b
                     /\ t.m.live = (s.m.live \cup {b}) \ {s.c[f].data}

\* Ownership after a call that changed one cell.
LEMMA OneCell ==
    ASSUME NEW s, NEW t, NEW A, NEW f \in Fields, Owned(s, A), Near(s, t, f), ~t.m.bad, CellOk(f, t.c[f]),
           Keeps(s, t, f) \/ GivesUp(s, t, f) \/ Takes(s, t, f)
    PROVE  Owned(t, A)
  <1>1. /\ s \in StateType /\ t \in StateType /\ A \subseteq s.m.live /\ s.m.live \subseteq Block
        /\ s.c \in [Fields -> CellType] /\ t.c \in [Fields -> CellType] /\ IsFiniteSet(s.m.live)
    BY DEF Owned, Near, StateType, HeapType
  <1>2. /\ \A g \in Fields : Filled(s.c[g]) => s.c[g].data \in s.m.live \ A /\ s.c[g].data[1] = g
        /\ \A b \in s.m.live \ A : s.c[b[1]].data = b
    BY DEF Owned, CellOk
  <1>3. /\ \A g \in Fields : CellOk(g, t.c[g])
        /\ \A g \in Fields : g # f => t.c[g] = s.c[g]
    BY DEF Owned, Near
  <1>4. \A b \in Block : b[1] \in Fields BY BlockIsOurs
  <1>5. s.c[f].data \notin A BY <1>1, <1>2 DEF Filled
  <1>6. CASE Keeps(s, t, f)
    BY <1>1, <1>2, <1>3, <1>4, <1>6 DEF Owned, Keeps, Filled
  <1>7. CASE GivesUp(s, t, f)
    <2>1. IsFiniteSet(t.m.live) 
      <3>1. \A L, x : IsFiniteSet(L) => IsFiniteSet(L \ {x}) BY FS_RemoveElement
      <3>2. IsFiniteSet(s.m.live \ {s.c[f].data}) BY <1>1, <3>1, Zenon
      <3> QED BY <1>7, <3>2, Zenon DEF GivesUp
    <2>2. A \subseteq t.m.live BY <1>1, <1>5, <1>7 DEF GivesUp
    <2>3. \A g \in Fields : Filled(t.c[g]) => t.c[g].data \in t.m.live \ A
      BY <1>1, <1>2, <1>3, <1>7 DEF GivesUp, Filled
    <2>4. \A b \in t.m.live \ A : t.c[b[1]].data = b
      BY <1>1, <1>2, <1>3, <1>4, <1>7 DEF GivesUp, Filled
    <2> QED BY <1>1, <1>3, <2>1, <2>2, <2>3, <2>4 DEF Owned
  <1>8. CASE Takes(s, t, f)
    <2>1. PICK b \in Block : /\ b \notin s.m.live /\ b[1] = f /\ t.c[f].data = b
                             /\ t.m.live = (s.m.live \cup {b}) \ {s.c[f].data}
      BY <1>8 DEF Takes
    <2>0. s.c[f].data # b BY <1>2, <2>1 DEF Filled
    <2>2. IsFiniteSet(t.m.live) 
      <3>1. \A L, x : IsFiniteSet(L) => IsFiniteSet(L \ {x}) BY FS_RemoveElement
      <3>2. \A L, x : IsFiniteSet(L) => IsFiniteSet(L \cup {x}) BY FS_AddElement
      <3>3. IsFiniteSet((s.m.live \cup {b}) \ {s.c[f].data}) BY <1>1, <3>1, <3>2, Zenon
      <3> QED BY <2>1, <3>3, Zenon
    <2>3. A \subseteq t.m.live BY <1>1, <1>5, <2>1
    <2>4. \A g \in Fields : Filled(t.c[g]) => t.c[g].data \in t.m.live \ A
      <3> SUFFICES ASSUME NEW g \in Fields, Filled(t.c[g]) PROVE t.c[g].data \in t.m.live \ A OBVIOUS
      <3>1. CASE g = f BY <1>1, <2>0, <2>1, <3>1
      <3>2. CASE g # f
        <4>1. t.c[g] = s.c[g] /\ s.c[g].data \in s.m.live \ A /\ s.c[g].data[1] = g BY <1>2, <1>3, <3>2
        <4>2. s.c[g].data # s.c[f].data BY <1>2, <3>2, <4>1, <1>1 DEF Filled
        <4> QED BY <2>1, <4>1, <4>2
      <3> QED BY <3>1, <3>2
    <2>5. \A d \in t.m.live \ A : t.c[d[1]].data = d
      <3> SUFFICES ASSUME NEW d \in t.m.live \ A PROVE t.c[d[1]].data = d OBVIOUS
      <3>1. CASE d = b BY <2>1, <3>1
      <3>2. CASE d # b
        <4>1. d \in s.m.live \ A /\ s.c[d[1]].data = d /\ d # s.c[f].data /\ d[1] \in Fields
          BY <1>1, <1>2, <1>4, <2>1, <3>2
        <4>2. d[1] # f BY <4>1
        <4> QED BY <1>3, <4>1, <4>2
      <3> QED BY <3>1, <3>2
    <2> QED BY <1>1, <1>3, <2>2, <2>3, <2>4, <2>5 DEF Owned
  <1> QED BY <1>6, <1>7, <1>8

-----------------------------------------------------------------------------
(***************************************************************************)
(* The operations of Memory, one by one.                                   *)
(***************************************************************************)
Served(s, t, f, A) == Owned(t, A) /\ Near(s, t, f)
Alike(s, t) == t.m.init = s.m.init /\ t.managed_io = s.managed_io /\ t.limit = s.limit /\ t.ok = s.ok

\* What ownership says of the types.
LEMMA Typed ==
    ASSUME NEW s, NEW A, Owned(s, A)
    PROVE  /\ s \in StateType /\ s.m \in HeapType /\ s.c \in [Fields -> CellType] /\ ~s.m.bad
           /\ s.m.live \subseteq Block /\ IsFiniteSet(s.m.live)
           /\ \A f \in Fields : s.c[f] \in CellType /\ CellOk(f, s.c[f])
           /\ \A f \in Fields : Filled(s.c[f]) => s.c[f].data \in s.m.live
  BY DEF Owned, StateType, HeapType

\* A call that fails before it did anything.
LEMMA Failed ==
    ASSUME NEW s, NEW A, Owned(s, A)
    PROVE  /\ \A f \in Fields : Served(s, Fail(s), f, A)
           /\ ~Fail(s).ok /\ Fail(s).m = s.m /\ Fail(s).c = s.c /\ Fail(s).managed_io = s.managed_io
  <1>1. /\ Fail(s) \in StateType /\ ~Fail(s).ok /\ Fail(s).m = s.m /\ Fail(s).c = s.c
        /\ Fail(s).managed_io = s.managed_io /\ Fail(s).limit = s.limit
    <2>1. s \in StateType BY Typed
    <2> QED BY <2>1 DEF Fail, StateType
  <1> HIDE DEF Fail
  <1> QED BY <1>1 DEF Owned, Served, Near

\* A state with one cell replaced.
LEMMA SetCell ==
    ASSUME NEW s \in StateType, NEW f \in Fields, NEW c \in CellType
    PROVE  LET t == [s EXCEPT !.c[f] = c] IN
           /\ t \in StateType /\ t.m = s.m /\ t.c[f] = c /\ Alike(s, t)
           /\ \A g \in Fields : g # f => t.c[g] = s.c[g]
  BY DEF StateType, Alike

\* A cell that keeps its block.
LEMMA CellKept ==
    ASSUME NEW s, NEW A, Owned(s, A), NEW f \in Fields, NEW c \in CellType, CellOk(f, c), c.data = s.c[f].data
    PROVE  LET t == [s EXCEPT !.c[f] = c] IN Served(s, t, f, A) /\ t.c[f] = c /\ t.ok = s.ok
  <1> DEFINE t == [s EXCEPT !.c[f] = c]
  <1>1. /\ t \in StateType /\ t.m = s.m /\ t.c[f] = c /\ Alike(s, t)
        /\ \A g \in Fields : g # f => t.c[g] = s.c[g]
    BY Typed, SetCell
  <1> HIDE DEF t
  <1>2. Near(s, t, f) /\ Keeps(s, t, f) /\ ~t.m.bad BY <1>1, Typed DEF Near, Alike, Keeps
  <1>3. Owned(t, A) BY <1>1, <1>2, OneCell
  <1>4. Served(s, t, f, A) /\ t.c[f] = c /\ t.ok = s.ok BY <1>1, <1>2, <1>3 DEF Served, Alike
  <1> QED BY <1>4 DEF t

\* A block in use is released.
LEMMA ReleaseIs ==
    ASSUME NEW s \in StateType, ~s.m.bad, NEW d \in s.m.live
    PROVE  LET r == Release(s, d) IN
           /\ r \in StateType /\ r.m.live = s.m.live \ {d} /\ ~r.m.bad /\ r.c = s.c /\ Alike(s, r)
  <1>0. s.m \in HeapType BY DEF StateType
  <1>1. d \in Block /\ d # NoBlock /\ d # UserBlock BY <1>0, BlockIsOurs DEF HeapType
  <1>2. Release(s, d) = [s EXCEPT !.m.live = @ \ {d}, !.m.bad = @ \/ d \notin s.m.live \/ d = UserBlock]
    BY <1>1 DEF Release
  <1>3. s.m.bad \/ d \notin s.m.live \/ d = UserBlock <=> FALSE BY <1>1
  <1>4. Release(s, d) = [s EXCEPT !.m.live = @ \ {d}, !.m.bad = FALSE]
    BY <1>0, <1>2, <1>3 DEF StateType, HeapType
  <1> DEFINE m == [s.m EXCEPT !.live = @ \ {d}, !.bad = FALSE]
             r == Release(s, d)
  <1>5. r = [s EXCEPT !.m = m] BY <1>4 DEF StateType
  <1>6. m \in HeapType /\ m.live = s.m.live \ {d} /\ ~m.bad /\ m.init = s.m.init BY <1>0 DEF HeapType
  <1> HIDE DEF m, r
  <1>7. r \in StateType /\ r.m.live = s.m.live \ {d} /\ ~r.m.bad /\ r.c = s.c /\ Alike(s, r)
    BY <1>5, <1>6 DEF StateType, Alike
  <1> QED BY <1>7 DEF r

\* A cell whose block is released.
LEMMA Released ==
    ASSUME NEW s, NEW A, Owned(s, A), NEW f \in Fields, s.c[f].data # UserBlock
    PROVE  LET r == Release(s, s.c[f].data) IN
           /\ r \in StateType /\ r.m.live = s.m.live \ {s.c[f].data} /\ ~r.m.bad /\ r.c = s.c /\ Alike(s, r)
  <1>1. s.c[f].data \in Block \cup {NoBlock, UserBlock} BY Typed DEF CellType
  <1>2. CASE s.c[f].data = NoBlock
    BY <1>2, Typed, BlockIsOurs DEF Release, Alike
  <1>3. CASE s.c[f].data \in Block
    <2>1. s \in StateType /\ ~s.m.bad /\ s.c[f].data \in s.m.live BY <1>3, Typed DEF Filled
    <2> QED BY <2>1, ReleaseIs
  <1> QED BY <1>1, <1>2, <1>3

\* The cell gives up its block.
LEMMA CellReleased ==
    ASSUME NEW s, NEW A, Owned(s, A), NEW f \in Fields, s.c[f].data # UserBlock,
           NEW c \in CellType, CellOk(f, c), ~Filled(c)
    PROVE  LET t == [Release(s, s.c[f].data) EXCEPT !.c[f] = c] IN
           Served(s, t, f, A) /\ t.c[f] = c /\ t.ok = s.ok
  <1> DEFINE r == Release(s, s.c[f].data)
             t == [r EXCEPT !.c[f] = c]
  <1>1. /\ r \in StateType /\ r.m.live = s.m.live \ {s.c[f].data} /\ ~r.m.bad /\ r.c = s.c /\ Alike(s, r)
    BY Released
  <1> HIDE DEF r
  <1>2. /\ t \in StateType /\ t.m = r.m /\ t.c[f] = c /\ Alike(r, t)
        /\ \A g \in Fields : g # f => t.c[g] = r.c[g]
    BY <1>1, SetCell
  <1> HIDE DEF t
  <1>3. Near(s, t, f) /\ GivesUp(s, t, f) /\ ~t.m.bad BY <1>1, <1>2 DEF Near, Alike, GivesUp
  <1>4. Owned(t, A) BY <1>2, <1>3, OneCell
  <1>5. Served(s, t, f, A) /\ t.c[f] = c /\ t.ok = s.ok BY <1>1, <1>2, <1>3, <1>4 DEF Served, Alike
  <1> QED BY <1>5 DEF t, r

\* What s2n_free leaves of a cell.
LEMMA NoBlobCell ==
    ASSUME NEW c \in CellType
    PROVE  /\ NoBlob(c) \in CellType /\ ~Filled(NoBlob(c)) /\ NoBlob(c).data = NoBlock
           /\ NoBlob(c).size = 0 /\ NoBlob(c).room = 0 /\ ~NoBlob(c).growable
           /\ NoBlob(c).alloced = c.alloced /\ NoBlob(c).sgrowable = c.sgrowable
           /\ NoBlob(c).tainted = c.tainted /\ NoBlob(c).r = c.r /\ NoBlob(c).w = c.w
  BY BlockIsOurs DEF NoBlob, CellType, Filled

\* A blob or stuffer without memory is in order.
LEMMA NoBlobOk ==
    ASSUME NEW f \in Blobs \cup Stuffers, NEW c \in CellType, CellOk(f, c)
    PROVE  CellOk(f, NoBlob(c))
  <1>1. c.alloced \in BOOLEAN /\ c.sgrowable \in BOOLEAN BY DEF CellType
  <1> QED BY <1>1, NoBlobCell, FieldKinds, BlockIsOurs DEF CellOk, BlobOk, Plain, StufferOk

\* Nothing is a good content of every cell.
LEMMA EmptyOk == \A f \in Fields : CellOk(f, Empty)
  BY EmptyCell, FieldKinds, BlockIsOurs DEF CellOk, ObjectOk, BlobOk, Plain, StufferOk, Empty

\* s2n_free, of a blob or of the blob in a stuffer.
LEMMA FreeServed ==
    ASSUME NEW s, NEW A, Owned(s, A), NEW f \in Blobs \cup Stuffers
    PROVE  LET t == s2n_free(s, f) IN
           /\ Served(s, t, f, A)
           /\ s.m.init => t.ok = s.ok /\ t.c[f] = NoBlob(s.c[f])
           /\ ~s.m.init => t = Fail(s)
  <1>1. f \in Fields /\ s.c[f] \in CellType /\ CellOk(f, s.c[f]) BY Typed, FieldKinds
  <1>2. BlobOk(s.c[f]) /\ s.c[f].data # UserBlock BY <1>1 DEF CellOk, BlobOk
  <1>3. s2n_blob_is_growable(s.c[f])
    BY <1>1, <1>2 DEF s2n_blob_is_growable, BlobOk, Filled, CellType
  <1>4. CASE s.m.init
    <2> DEFINE c == NoBlob(s.c[f])
    <2>1. c \in CellType /\ CellOk(f, c) /\ ~Filled(c) BY <1>1, NoBlobCell, NoBlobOk
    <2>2. s2n_free(s, f) = [Release(s, s.c[f].data) EXCEPT !.c[f] = c]
      <3>1. Release(s, s.c[f].data).c[f] = s.c[f] BY <1>1, <1>2, Released
      <3>2. s2n_free(s, f) = [Release(s, s.c[f].data) EXCEPT !.c[f] = NoBlob(@)]
        BY <1>3, <1>4 DEF s2n_free, Ensure
      <3> QED BY <3>1, <3>2
    <2> HIDE DEF c
    <2>3. Served(s, s2n_free(s, f), f, A) /\ s2n_free(s, f).c[f] = c /\ s2n_free(s, f).ok = s.ok
      BY <1>1, <1>2, <2>1, <2>2, CellReleased
    <2> QED BY <1>4, <2>3 DEF c
  <1>5. CASE ~s.m.init
    <2>1. s2n_free(s, f) = Fail(s) BY <1>5 DEF s2n_free, Ensure
    <2> QED BY <1>1, <1>5, <2>1, Failed
  <1> QED BY <1>4, <1>5

\* The cell takes a new block, and the old one goes.
LEMMA CellTaken ==
    ASSUME NEW s, NEW A, Owned(s, A), NEW f \in Fields, NEW b \in Block, b \notin s.m.live, b[1] = f,
           NEW t \in StateType, Alike(s, t), ~t.m.bad, CellOk(f, t.c[f]), t.c[f].data = b,
           t.m.live = (s.m.live \cup {b}) \ {s.c[f].data}, \A g \in Fields : g # f => t.c[g] = s.c[g]
    PROVE  Served(s, t, f, A)
  <1>1. Near(s, t, f) /\ Takes(s, t, f) BY DEF Near, Takes, Alike
  <1>2. Owned(t, A) BY <1>1, OneCell
  <1> QED BY <1>1, <1>2 DEF Served

\* One more block in use, and a cell that holds it.
Added(s, t, f, b, c) ==
    /\ t \in StateType /\ t.m.live = s.m.live \cup {b} /\ ~t.m.bad /\ t.c[f] = c /\ Alike(s, t)
    /\ \A g \in Fields : g # f => t.c[g] = s.c[g]
\* A state with one block more, held by one cell.
LEMMA BlockAdded ==
    ASSUME NEW s, NEW A, Owned(s, A), NEW f \in Fields, NEW b \in Block, NEW c \in CellType
    PROVE  Added(s, [[s EXCEPT !.m.live = @ \cup {b}] EXCEPT !.c[f] = c], f, b, c)
  <1> DEFINE m == [s.m EXCEPT !.live = @ \cup {b}]
             x == [s EXCEPT !.m = m]
             t == [x EXCEPT !.c[f] = c]
  <1>1. s \in StateType /\ s.m \in HeapType /\ ~s.m.bad BY Typed
  <1>2. m \in HeapType /\ m.live = s.m.live \cup {b} /\ ~m.bad /\ m.init = s.m.init BY <1>1 DEF HeapType
  <1> HIDE DEF m
  <1>3. x \in StateType /\ x.m = m /\ x.c = s.c /\ x.managed_io = s.managed_io /\ x.limit = s.limit /\ x.ok = s.ok
    BY <1>1, <1>2 DEF StateType
  <1>4. [s EXCEPT !.m.live = @ \cup {b}] = x BY <1>1 DEF m, StateType
  <1> HIDE DEF x
  <1>5. /\ t \in StateType /\ t.m = x.m /\ t.c[f] = c /\ Alike(x, t)
        /\ \A g \in Fields : g # f => t.c[g] = x.c[g]
    BY <1>3, SetCell
  <1> HIDE DEF t
  <1>6. /\ t \in StateType /\ t.m.live = s.m.live \cup {b} /\ ~t.m.bad /\ t.c[f] = c /\ Alike(s, t)
        /\ \A g \in Fields : g # f => t.c[g] = s.c[g]
    BY <1>2, <1>3, <1>5 DEF Alike
  <1> QED BY <1>4, <1>6 DEF t, Added

(***************************************************************************)
(* s2n_realloc of a blob, or of a stuffer that is growable.                *)
(***************************************************************************)
Grows(f, c) == f \in Blobs \/ (f \in Buffers /\ c.alloced)
Grown(old, new, n) ==
    /\ new.size = n /\ Filled(new) /\ new.growable
    /\ new.alloced = old.alloced /\ new.sgrowable = old.sgrowable
    /\ new.tainted = old.tainted /\ new.r = old.r /\ new.w = old.w

\* s2n_realloc keeps every block owned, also when it fails.
LEMMA ReallocServed ==
    ASSUME NEW s, NEW A, Owned(s, A), NEW f \in Fields, Grows(f, s.c[f]), NEW n \in Nat, n # 0
    PROVE  LET t == s2n_realloc(s, f, n) IN
           /\ Served(s, t, f, A)
           /\ t = Fail(s) \/ (t.ok = s.ok /\ Grown(s.c[f], t.c[f], n))
  <1> DEFINE c == s.c[f]
             b == FreshBlock(s, f, n)
             new == [c EXCEPT !.data = b, !.size = n, !.room = n, !.growable = TRUE]
             moved == [[s EXCEPT !.m.live = @ \cup {b}] EXCEPT !.c[f] = new]
             t == s2n_realloc(s, f, n)
  <1>1. /\ s \in StateType /\ c \in CellType /\ CellOk(f, c) /\ IsFiniteSet(s.m.live)
        /\ Filled(c) => c.data \in s.m.live
    BY Typed
  <1>2. /\ f \in Blobs \cup Stuffers /\ f \notin Objects /\ f # "cookie_stuffer" /\ BlobOk(c)
        /\ f \in Blobs => Plain(c)
        /\ f \in Stuffers => c.alloced /\ StufferOk(c)
    BY <1>1, FieldKinds DEF CellOk, Grows, Buffers
  <1>3. s2n_blob_is_growable(c)
    BY <1>1, <1>2 DEF s2n_blob_is_growable, BlobOk, Filled, CellType
  <1>4. CASE s.m.init /\ n <= c.room
    <2> DEFINE d == [c EXCEPT !.size = n]
    <2>1. t = [s EXCEPT !.c[f] = d]
      <3>1. t = [s EXCEPT !.c[f].size = n] BY <1>3, <1>4 DEF s2n_realloc, Ensure
      <3> QED BY <1>1, <3>1 DEF StateType
    <2>2. Filled(c) BY <1>1, <1>2, <1>4 DEF BlobOk, CellType, Filled
    <2>3. /\ d \in CellType /\ d.data = c.data /\ Filled(d) /\ d.size = n /\ d.room = c.room
          /\ d.growable = c.growable /\ d.alloced = c.alloced /\ d.sgrowable = c.sgrowable
          /\ d.tainted = c.tainted /\ d.r = c.r /\ d.w = c.w
      BY <1>1, <2>2 DEF CellType, Filled
    <2> HIDE DEF d
    <2>4. CellOk(f, d)
      BY <1>1, <1>2, <1>4, <2>2, <2>3 DEF CellOk, BlobOk, Plain, StufferOk
    <2> HIDE DEF t, c
    <2>5. Served(s, t, f, A) /\ t.c[f] = d /\ t.ok = s.ok BY <1>1, <2>1, <2>3, <2>4, CellKept DEF c
    <2>6. c.growable BY <1>2, <2>2 DEF BlobOk
    <2> QED BY <2>3, <2>5, <2>6 DEF t, c, Grown
  <1>5. CASE s.m.init /\ ~(n <= c.room) /\ CanAllocate(s, n)
    <2>1. b \in Block /\ b \notin s.m.live /\ b[1] = f BY <1>1, FreshIsFresh
    <2> HIDE DEF b
    <2>2. /\ new \in CellType /\ new.data = b /\ Filled(new) /\ new.size = n /\ new.room = n /\ new.growable
          /\ new.alloced = c.alloced /\ new.sgrowable = c.sgrowable
          /\ new.tainted = c.tainted /\ new.r = c.r /\ new.w = c.w
      BY <1>1, <2>1 DEF CellType, Filled
    <2>3. t = IF c.room > 0 THEN Release(moved, c.data) ELSE moved
      BY <1>3, <1>5 DEF s2n_realloc, Ensure, b
    <2> HIDE DEF new
    <2>4. CellOk(f, new)
      BY <1>1, <1>2, <2>1, <2>2, BlockIsOurs DEF CellOk, BlobOk, Plain, StufferOk
    <2>5. /\ moved \in StateType /\ moved.m.live = s.m.live \cup {b} /\ ~moved.m.bad /\ moved.c[f] = new
          /\ Alike(s, moved) /\ \A g \in Fields : g # f => moved.c[g] = s.c[g]
      <3>1. Added(s, moved, f, b, new) BY <2>1, <2>2, BlockAdded
      <3> QED BY <3>1 DEF Added
    <2> HIDE DEF moved
    <2>6. /\ t \in StateType /\ t.m.live = (s.m.live \cup {b}) \ {c.data} /\ ~t.m.bad /\ t.c = moved.c /\ Alike(s, t)
      <3>1. CASE c.room > 0
        <4>1. Filled(c) BY <1>1, <1>2, <3>1 DEF BlobOk, CellType, Filled
        <4>2. c.data \in moved.m.live BY <1>1, <2>5, <4>1
        <4>3. LET r == Release(moved, c.data) IN
              /\ r \in StateType /\ r.m.live = moved.m.live \ {c.data} /\ ~r.m.bad /\ r.c = moved.c /\ Alike(moved, r)
          BY <2>5, <4>2, ReleaseIs
        <4>4. t = Release(moved, c.data) BY <2>3, <3>1
        <4> HIDE DEF c, t
        <4> QED BY <2>5, <4>3, <4>4 DEF Alike
      <3>2. CASE ~(c.room > 0)
        <4>1. c.data = NoBlock /\ t = moved BY <1>1, <1>2, <2>3, <3>2 DEF BlobOk, CellType, Filled
        <4>2. NoBlock \notin s.m.live \cup {b} BY <1>1, <2>1, BlockIsOurs DEF StateType, HeapType
        <4> HIDE DEF c, t
        <4> QED BY <2>5, <4>1, <4>2
      <3> QED BY <3>1, <3>2
    <2> HIDE DEF t
    <2>7. Served(s, t, f, A) BY <2>1, <2>2, <2>4, <2>5, <2>6, CellTaken
    <2> QED BY <2>2, <2>5, <2>6, <2>7 DEF Grown, Alike, t
  <1>6. CASE ~s.m.init \/ (~(n <= c.room) /\ ~CanAllocate(s, n))
    <2>1. t = Fail(s) BY <1>6 DEF s2n_realloc, Ensure
    <2> QED BY <2>1, Failed
  <1> QED BY <1>4, <1>5, <1>6

-----------------------------------------------------------------------------
\* A cell that is not filled and not the application's is null.
LEMMA NullCell ==
    ASSUME NEW s, NEW A, Owned(s, A), NEW f \in Fields, ~Filled(s.c[f]), s.c[f].data # UserBlock
    PROVE  s.c[f].data = NoBlock
  BY Typed DEF CellType, Filled

\* The application never lends a blob or a stuffer.
LEMMA BlobIsNotUsers ==
    ASSUME NEW s, NEW A, Owned(s, A), NEW f \in Blobs \cup Stuffers
    PROVE  f \in Fields /\ s.c[f].data # UserBlock
  BY Typed, FieldKinds DEF CellOk, BlobOk

\* A record is what its fields are.
LEMMA CellsEqual ==
    ASSUME NEW c \in CellType, NEW d \in CellType, c.data = d.data, c.size = d.size, c.room = d.room,
           c.growable = d.growable, c.alloced = d.alloced, c.sgrowable = d.sgrowable, c.tainted = d.tainted,
           c.r = d.r, c.w = d.w
    PROVE  c = d
  BY DEF CellType

\* Writing a cell back changes nothing.
LEMMA StateKept ==
    ASSUME NEW s \in StateType, NEW f \in Fields
    PROVE  [s EXCEPT !.c[f] = s.c[f]] = s
  BY DEF StateType

\* Doing nothing serves any cell.
LEMMA ServedItself ==
    ASSUME NEW s, NEW A, Owned(s, A), NEW f \in Fields
    PROVE  Served(s, s, f, A)
  BY Typed DEF Served, Near

\* s2n_alloc of an empty blob.
LEMMA AllocServed ==
    ASSUME NEW s, NEW A, Owned(s, A), NEW f \in Blobs, ~Filled(s.c[f]), NEW n \in Nat, n # 0
    PROVE  LET t == s2n_alloc(s, f, n) IN
           /\ Served(s, t, f, A)
           /\ t = Fail(s) \/ (t.ok = s.ok /\ Grown(s.c[f], t.c[f], n))
  <1> DEFINE c == s.c[f]
  <1>1. /\ f \in Fields /\ s \in StateType /\ c \in CellType /\ c.data = NoBlock /\ CellOk(f, c)
    BY Typed, NullCell, BlobIsNotUsers
  <1>2. c.size = 0 /\ c.room = 0 /\ ~c.growable BY <1>1, FieldKinds DEF CellOk, BlobOk, CellType
  <1>3. NoBlob(c) = c
    <2>1. c.growable = NoBlob(c).growable BY <1>1, <1>2, NoBlobCell DEF CellType
    <2> QED BY <1>1, <1>2, <2>1, NoBlobCell, CellsEqual
  <1>4. [s EXCEPT !.c[f] = NoBlob(@)] = s BY <1>1, <1>3 DEF StateType
  <1>5. s2n_alloc(s, f, n) = IF s.m.init THEN s2n_realloc(s, f, n) ELSE Fail(s)
    BY <1>4 DEF s2n_alloc, Ensure
  <1>6. CASE s.m.init BY <1>1, <1>5, <1>6, ReallocServed DEF Grows
  <1>7. CASE ~s.m.init BY <1>1, <1>5, <1>7, Failed
  <1> QED BY <1>6, <1>7

\* s2n_dup, which frees what it finds.
LEMMA DupServed ==
    ASSUME NEW s, NEW A, Owned(s, A), NEW f \in Blobs, NEW n \in Nat, n # 0
    PROVE  Served(s, s2n_dup(s, f, n), f, A)
  <1>0. f \in Fields BY FieldKinds
  <1>1. CASE s.m.init /\ s.c[f].size = 0 /\ s.c[f].data = NoBlock
    <2>1. s2n_dup(s, f, n) = s2n_alloc(s, f, n) BY <1>1 DEF s2n_dup, Ensure
    <2>2. ~Filled(s.c[f]) BY <1>1, BlockIsOurs DEF Filled
    <2> QED BY <2>1, <2>2, AllocServed
  <1>2. CASE ~(s.m.init /\ s.c[f].size = 0 /\ s.c[f].data = NoBlock)
    <2>1. s2n_dup(s, f, n) = Fail(s) BY <1>2 DEF s2n_dup, Ensure
    <2> QED BY <1>0, <2>1, Failed
  <1> QED BY <1>1, <1>2

\* s2n_blob_zeroize_free.
LEMMA ZeroizeServed ==
    ASSUME NEW s, NEW A, Owned(s, A), NEW f \in Blobs
    PROVE  LET t == s2n_blob_zeroize_free(s, f) IN
           /\ Served(s, t, f, A) /\ (s.m.init => t.ok = s.ok)
           /\ t = Fail(s) \/ ~Filled(t.c[f])
  <1>0. f \in Fields /\ s.c[f] \in CellType /\ BlobOk(s.c[f]) BY Typed, FieldKinds DEF CellOk
  <1>1. CASE s.m.init /\ s.c[f].room > 0
    <2>1. s2n_blob_zeroize_free(s, f) = s2n_free(s, f) BY <1>1 DEF s2n_blob_zeroize_free, Ensure
    <2>2. ~Filled(NoBlob(s.c[f])) BY <1>0, NoBlobCell
    <2> QED BY <1>1, <2>1, <2>2, FreeServed
  <1>2. CASE s.m.init /\ ~(s.c[f].room > 0)
    <2>1. s2n_blob_zeroize_free(s, f) = s BY <1>2 DEF s2n_blob_zeroize_free, Ensure
    <2>2. ~Filled(s.c[f]) BY <1>0, <1>2 DEF BlobOk, CellType
    <2> QED BY <1>0, <2>1, <2>2, ServedItself
  <1>3. CASE ~s.m.init
    <2>1. s2n_blob_zeroize_free(s, f) = Fail(s) BY <1>3 DEF s2n_blob_zeroize_free, Ensure
    <2> QED BY <1>0, <1>3, <2>1, Failed
  <1> QED BY <1>1, <1>2, <1>3

\* An object behind a null pointer.
LEMMA NewServed ==
    ASSUME NEW s, NEW A, Owned(s, A), NEW f \in Objects, s.c[f].data = NoBlock
    PROVE  LET t == NewObject(s, f, PagesOf(f)) IN
           /\ Served(s, t, f, A)
           /\ t = Fail(s) \/ (t.ok = s.ok /\ Filled(t.c[f]))
  <1> DEFINE n == PagesOf(f)
             b == FreshBlock(s, f, n)
             c == [Empty EXCEPT !.data = b, !.size = n, !.room = n, !.growable = TRUE]
             t == NewObject(s, f, n)
  <1>1. f \in Fields /\ f \notin Blobs /\ f \notin Stuffers /\ f # "cookie_stuffer" BY FieldKinds
  <1>2. n \in Nat /\ s \in StateType /\ IsFiniteSet(s.m.live) BY Typed DEF PagesOf
  <1>3. CASE s.m.init /\ CanAllocate(s, n)
    <2>1. b \in Block /\ b \notin s.m.live /\ b[1] = f BY <1>1, <1>2, FreshIsFresh
    <2>2. t = [[s EXCEPT !.m.live = @ \cup {b}] EXCEPT !.c[f] = c] BY <1>3 DEF NewObject, Ensure
    <2> HIDE DEF b
    <2>3. c \in CellType /\ c.data = b /\ Filled(c) BY <1>2, <2>1 DEF CellType, Empty, Filled
    <2>4. CellOk(f, c)
      <3>1. c = [Empty EXCEPT !.data = c.data, !.size = n, !.room = n, !.growable = TRUE] BY <2>3
      <3> HIDE DEF c
      <3> QED BY <1>1, <2>1, <2>3, <3>1, BlockIsOurs DEF CellOk, ObjectOk
    <2> HIDE DEF c
    <2> HIDE DEF t
    <2>5. Added(s, t, f, b, c)
      <3>1. Added(s, [[s EXCEPT !.m.live = @ \cup {b}] EXCEPT !.c[f] = c], f, b, c)
        BY <1>1, <2>1, <2>3, BlockAdded
      <3> QED BY <2>2, <3>1
    <2>6. t.m.live = (s.m.live \cup {b}) \ {s.c[f].data}
      <3>1. NoBlock \notin s.m.live \cup {b} BY <2>1, Typed, BlockIsOurs
      <3> QED BY <2>5, <3>1 DEF Added
    <2>7. Served(s, t, f, A) BY <1>1, <2>1, <2>3, <2>4, <2>5, <2>6, CellTaken DEF Added
    <2> QED BY <2>3, <2>5, <2>7 DEF Added, Alike, t
  <1>4. CASE ~(s.m.init /\ CanAllocate(s, n))
    <2>1. t = Fail(s) BY <1>4 DEF NewObject, Ensure
    <2> QED BY <1>1, <2>1, Failed
  <1> QED BY <1>3, <1>4

\* s2n_free_object of an object of the library.
LEMMA FreeObjectServed ==
    ASSUME NEW s, NEW A, Owned(s, A), NEW f \in Objects, s.c[f].data # UserBlock
    PROVE  LET t == s2n_free_object(s, f) IN
           /\ Served(s, t, f, A) /\ (s.m.init => t.ok = s.ok)
           /\ t = Fail(s) \/ t.c[f].data = NoBlock
  <1>0. f \in Fields BY FieldKinds
  <1>1. CASE s.c[f].data = NoBlock
    <2>1. s2n_free_object(s, f) = s BY <1>1 DEF s2n_free_object
    <2> QED BY <1>0, <1>1, <2>1, ServedItself
  <1>2. CASE s.c[f].data # NoBlock /\ s.m.init
    <2>1. s2n_free_object(s, f) = [Release(s, s.c[f].data) EXCEPT !.c[f] = Empty]
      BY <1>2 DEF s2n_free_object, Ensure
    <2> QED BY <1>0, <2>1, CellReleased, EmptyCell, EmptyOk
  <1>3. CASE s.c[f].data # NoBlock /\ ~s.m.init
    <2>1. s2n_free_object(s, f) = Fail(s) BY <1>3 DEF s2n_free_object, Ensure
    <2> QED BY <1>0, <1>3, <2>1, Failed
  <1> QED BY <1>1, <1>2, <1>3

\* An allocation that looks first.
LEMMA NewIfNullServed ==
    ASSUME NEW s, NEW A, Owned(s, A), NEW f \in Objects
    PROVE  LET t == NewObjectIfNull(s, f, PagesOf(f)) IN
           /\ Served(s, t, f, A)
           /\ t = Fail(s) \/ (t.ok = s.ok /\ Filled(t.c[f]))
  <1>0. f \in Fields BY FieldKinds
  <1>1. CASE s.c[f].data = NoBlock BY <1>1, NewServed DEF NewObjectIfNull, Ensure
  <1>2. CASE s.c[f].data # NoBlock BY <1>0, <1>2, Failed DEF NewObjectIfNull, Ensure
  <1> QED BY <1>1, <1>2

\* What s2n_connection_wipe allocates again when s2n_connection_free_handshake took it.
LEMMA RestoreServed ==
    ASSUME NEW s, NEW A, Owned(s, A), NEW f \in Objects, s.c[f].data # UserBlock
    PROVE  LET t == RestoreObject(s, f, PagesOf(f)) IN
           /\ Served(s, t, f, A)
           /\ t = Fail(s) \/ (t.ok = s.ok /\ Filled(t.c[f]))
  <1>0. f \in Fields BY FieldKinds
  <1>1. CASE s.c[f].data = NoBlock BY <1>1, NewServed DEF RestoreObject
  <1>2. CASE s.c[f].data # NoBlock
    <2>1. Filled(s.c[f]) BY <1>0, <1>2, Typed DEF CellType, Filled
    <2> QED BY <1>0, <1>2, <2>1, ServedItself DEF RestoreObject
  <1> QED BY <1>1, <1>2

-----------------------------------------------------------------------------
(***************************************************************************)
(* Stuffers.                                                               *)
(***************************************************************************)
LEMMA NothingToEmpty == NoBlob(Empty) = Empty
  <1>1. /\ Empty.data = NoBlock /\ Empty.size = 0 /\ Empty.room = 0 /\ Empty.growable = FALSE
    BY DEF Empty
  <1>2. NoBlob(Empty).growable = FALSE BY EmptyCell DEF NoBlob, CellType
  <1> DEFINE e == Empty
             d == NoBlob(e)
  <1>3. /\ e \in CellType /\ d \in CellType /\ d.data = e.data /\ d.size = e.size /\ d.room = e.room
        /\ d.growable = e.growable /\ d.alloced = e.alloced /\ d.sgrowable = e.sgrowable
        /\ d.tainted = e.tainted /\ d.r = e.r /\ d.w = e.w
    BY <1>1, <1>2, EmptyCell, NoBlobCell
  <1> HIDE DEF d, e
  <1>4. d = e BY <1>3, CellsEqual
  <1> QED BY <1>4 DEF d, e

NewStuffer == [Empty EXCEPT !.alloced = TRUE, !.sgrowable = TRUE]

\* A growable stuffer without memory.
LEMMA NewStufferOk ==
    NewStuffer \in CellType /\ ~Filled(NewStuffer) /\ \A f \in Stuffers : CellOk(f, NewStuffer)
  <1> DEFINE c == NewStuffer
  <1>1. /\ c.data = NoBlock /\ c.size = 0 /\ c.room = 0 /\ c.growable = FALSE /\ c.alloced /\ c.sgrowable
        /\ c \in CellType
    BY DEF NewStuffer, Empty, CellType
  <1>2. c.alloced = c.sgrowable BY DEF NewStuffer, Empty
  <1> HIDE DEF c
  <1>3. ~Filled(c) BY <1>1, BlockIsOurs DEF Filled
  <1>4. \A f \in Stuffers : CellOk(f, c)
    BY <1>1, <1>2, <1>3, FieldKinds, BlockIsOurs DEF CellOk, BlobOk, StufferOk
  <1> QED BY <1>1, <1>3, <1>4 DEF c

\* s2n_stuffer_growable_alloc of a stuffer without memory, to none.
LEMMA GrowableAllocServed ==
    ASSUME NEW s, NEW A, Owned(s, A), NEW f \in Stuffers, ~Filled(s.c[f]), s.ok
    PROVE  LET t == s2n_stuffer_growable_alloc(s, f, 0) IN
           /\ Served(s, t, f, A) /\ ~Filled(t.c[f]) /\ (s.m.init => t.ok) /\ (t.ok => t.c[f] = NewStuffer)
  <1> DEFINE x == [s EXCEPT !.c[f] = Empty]
             y == s2n_alloc(x, f, 0)
             t == s2n_stuffer_growable_alloc(s, f, 0)
  <1>1. f \in Fields /\ s.c[f].data = NoBlock BY FieldKinds, BlobIsNotUsers, NullCell
  <1>0. Empty \in CellType /\ CellOk(f, Empty) /\ Empty.data = s.c[f].data BY <1>1, EmptyCell, EmptyOk
  <1>2. Served(s, x, f, A) /\ x.c[f] = Empty /\ x.ok = s.ok BY <1>0, <1>1, CellKept
  <1>3. t = IF y.ok THEN [y EXCEPT !.c[f].alloced = TRUE, !.c[f].sgrowable = TRUE] ELSE y
    BY DEF s2n_stuffer_growable_alloc
  <1> HIDE DEF x
  <1>4. Owned(x, A) /\ x \in StateType /\ x.m.init = s.m.init BY <1>2 DEF Served, Near, Owned
  <1>5. [x EXCEPT !.c[f] = NoBlob(@)] = x
    <2> QED BY <1>1, <1>2, <1>4, NothingToEmpty DEF StateType
  <1>6. y = IF s.m.init THEN s2n_free(x, f) ELSE Fail(x)
    <2>1. s2n_blob_is_growable(x.c[f]) BY <1>2 DEF s2n_blob_is_growable, Empty
    <2>2. s2n_realloc(x, f, 0) = IF x.m.init THEN s2n_free(x, f) ELSE Fail(x) BY <2>1 DEF s2n_realloc, Ensure
    <2> QED BY <1>4, <1>5, <2>2 DEF s2n_alloc, Ensure
  <1> HIDE DEF y, t
  <1>7. CASE s.m.init
    <2>1. Served(x, y, f, A) /\ y.ok /\ y.c[f] = Empty
      <3> QED BY <1>2, <1>4, <1>6, <1>7, NothingToEmpty, FreeServed
    <2>2. t = [y EXCEPT !.c[f] = NewStuffer]
      <3>1. y \in StateType BY <2>1 DEF Served, Near
      <3>2. t = [y EXCEPT !.c[f].alloced = TRUE, !.c[f].sgrowable = TRUE] BY <1>3, <2>1
      <3> QED BY <2>1, <3>1, <3>2 DEF NewStuffer, StateType
    <2>3. Served(y, t, f, A) /\ t.c[f] = NewStuffer /\ t.ok
      <3>1. Owned(y, A) BY <2>1 DEF Served
      <3>2. NewStuffer.data = Empty.data BY DEF NewStuffer, Empty
      <3> QED BY <1>1, <2>1, <2>2, <3>1, <3>2, CellKept, NewStufferOk
    <2> QED BY <1>1, <1>2, <2>1, <2>3, NewStufferOk DEF Served, Near, t
  <1>8. CASE ~s.m.init
    <2>1. y = Fail(x) /\ t = y BY <1>3, <1>4, <1>6, <1>8, Failed
    <2>2. Served(x, t, f, A) /\ ~t.ok /\ t.c[f] = Empty BY <1>1, <1>2, <1>4, <2>1, Failed
    <2> QED BY <1>1, <1>2, <1>8, <2>2, EmptyCell DEF Served, Near, t
  <1> QED BY <1>7, <1>8

\* s2n_stuffer_free.
LEMMA StufferFreeServed ==
    ASSUME NEW s, NEW A, Owned(s, A), NEW f \in Stuffers, s.ok
    PROVE  LET t == s2n_stuffer_free(s, f) IN
           Served(s, t, f, A) /\ (s.m.init => t.ok) /\ (t.ok => t.c[f] = Empty)
  <1> DEFINE x == IF s.c[f].alloced THEN s2n_free(s, f) ELSE s
             t == s2n_stuffer_free(s, f)
  <1>1. f \in Fields /\ s.c[f] \in CellType /\ CellOk(f, s.c[f]) BY Typed, FieldKinds
  <1>2. t = IF x.ok THEN [x EXCEPT !.c[f] = Empty] ELSE x BY DEF s2n_stuffer_free
  <1>3. Served(s, x, f, A) /\ (s.m.init => x.ok) /\ (x.ok => x.c[f].data = NoBlock)
    <2>1. CASE s.c[f].alloced
      <3>1. NoBlob(s.c[f]).data = NoBlock BY <1>1, NoBlobCell
      <3>2. CASE s.m.init BY <2>1, <3>1, <3>2, FreeServed
      <3>3. CASE ~s.m.init BY <2>1, <3>3, FreeServed, Failed
      <3> QED BY <3>2, <3>3
    <2>2. CASE ~s.c[f].alloced
      <3>1. ~Filled(s.c[f]) BY <1>1, <2>2 DEF CellOk, StufferOk
      <3> QED BY <1>1, <2>2, <3>1, ServedItself, NullCell, BlobIsNotUsers
    <2> QED BY <2>1, <2>2
  <1> HIDE DEF x, t
  <1>4. CASE x.ok
    <2>1. Owned(x, A) BY <1>3 DEF Served
    <2>2. Served(x, t, f, A) /\ t.c[f] = Empty /\ t.ok
      BY <1>1, <1>2, <1>3, <1>4, <2>1, CellKept, EmptyCell, EmptyOk
    <2> QED BY <1>1, <1>3, <2>2 DEF Served, Near, t
  <1>5. CASE ~x.ok BY <1>2, <1>3, <1>5 DEF t
  <1> QED BY <1>4, <1>5

\* Moving the cursors.
LEMMA CursorsServed ==
    ASSUME NEW s, NEW A, Owned(s, A), NEW f \in Stuffers, NEW c \in CellType, c.data = s.c[f].data,
           c.size = s.c[f].size,
           c.room = s.c[f].room, c.growable = s.c[f].growable, c.alloced = s.c[f].alloced,
                  c.sgrowable = s.c[f].sgrowable
    PROVE  LET t == [s EXCEPT !.c[f] = c] IN Served(s, t, f, A) /\ t.c[f] = c /\ t.ok = s.ok
  <1>1. f \in Fields /\ f \notin Blobs /\ f \notin Objects /\ CellOk(f, s.c[f]) BY Typed, FieldKinds
  <1>2. CellOk(f, c) BY <1>1 DEF CellOk, BlobOk, StufferOk, Filled
  <1> QED BY <1>1, <1>2, CellKept

Wiped(old, new) ==
    /\ new.data = old.data /\ new.size = old.size /\ new.sgrowable = old.sgrowable
    /\ ~new.tainted /\ new.r = 0 /\ new.w = 0

\* s2n_stuffer_wipe.
LEMMA WipeServed ==
    ASSUME NEW s, NEW A, Owned(s, A), NEW f \in Stuffers
    PROVE  LET t == s2n_stuffer_wipe(s, f) IN Served(s, t, f, A) /\ t.ok = s.ok /\ Wiped(s.c[f], t.c[f])
  <1> DEFINE c == [s.c[f] EXCEPT !.tainted = FALSE, !.r = 0, !.w = 0]
  <1>1. f \in Fields /\ s \in StateType /\ s.c[f] \in CellType BY Typed, FieldKinds
  <1>2. s2n_stuffer_wipe(s, f) = [s EXCEPT !.c[f] = c] BY <1>1 DEF s2n_stuffer_wipe, StateType
  <1>3. /\ c \in CellType /\ c.data = s.c[f].data /\ c.size = s.c[f].size /\ c.room = s.c[f].room
        /\ c.growable = s.c[f].growable /\ c.alloced = s.c[f].alloced /\ c.sgrowable = s.c[f].sgrowable
        /\ ~c.tainted /\ c.r = 0 /\ c.w = 0
    BY <1>1 DEF CellType
  <1> HIDE DEF c
  <1>4. LET t == [s EXCEPT !.c[f] = c] IN Served(s, t, f, A) /\ t.c[f] = c /\ t.ok = s.ok BY <1>3, CursorsServed
  <1> QED BY <1>2, <1>3, <1>4 DEF Wiped

\* s2n_stuffer_raw_read.
LEMMA RawReadServed ==
    ASSUME NEW s, NEW A, Owned(s, A), NEW f \in Stuffers
    PROVE  Served(s, s2n_stuffer_raw_read(s, f), f, A) /\ s2n_stuffer_raw_read(s, f).ok = s.ok
  <1> DEFINE c == [s.c[f] EXCEPT !.r = s.c[f].w, !.tainted = TRUE]
  <1>1. f \in Fields /\ s \in StateType /\ s.c[f] \in CellType BY Typed, FieldKinds
  <1>2. s2n_stuffer_raw_read(s, f) = [s EXCEPT !.c[f] = c] BY <1>1 DEF s2n_stuffer_raw_read, StateType
  <1>3. /\ c \in CellType /\ c.data = s.c[f].data /\ c.size = s.c[f].size /\ c.room = s.c[f].room
        /\ c.growable = s.c[f].growable /\ c.alloced = s.c[f].alloced /\ c.sgrowable = s.c[f].sgrowable
    BY <1>1 DEF CellType
  <1> HIDE DEF c
  <1>4. LET t == [s EXCEPT !.c[f] = c] IN Served(s, t, f, A) /\ t.c[f] = c /\ t.ok = s.ok BY <1>3, CursorsServed
  <1> QED BY <1>2, <1>4

\* s2n_stuffer_rewrite.
LEMMA RewriteServed ==
    ASSUME NEW s, NEW A, Owned(s, A), NEW f \in Stuffers
    PROVE  Served(s, s2n_stuffer_rewrite(s, f), f, A) /\ s2n_stuffer_rewrite(s, f).ok = s.ok
  <1> DEFINE c == [s.c[f] EXCEPT !.r = 0, !.w = 0]
  <1>1. f \in Fields /\ s \in StateType /\ s.c[f] \in CellType BY Typed, FieldKinds
  <1>2. s2n_stuffer_rewrite(s, f) = [s EXCEPT !.c[f] = c] BY <1>1 DEF s2n_stuffer_rewrite, StateType
  <1>3. /\ c \in CellType /\ c.data = s.c[f].data /\ c.size = s.c[f].size /\ c.room = s.c[f].room
        /\ c.growable = s.c[f].growable /\ c.alloced = s.c[f].alloced /\ c.sgrowable = s.c[f].sgrowable
    BY <1>1 DEF CellType
  <1> HIDE DEF c
  <1>4. LET t == [s EXCEPT !.c[f] = c] IN Served(s, t, f, A) /\ t.c[f] = c /\ t.ok = s.ok BY <1>3, CursorsServed
  <1> QED BY <1>2, <1>4

(***************************************************************************)
(* s2n_stuffer_resize, which a tainted or fixed stuffer refuses.           *)
(***************************************************************************)
Resized(old, new, n) ==
    /\ new.size = n /\ new.sgrowable /\ ~new.tainted
    /\ old.r = 0 /\ old.w = 0 => new.r = 0 /\ new.w = 0

\* s2n_stuffer_resize, up, down and to nothing.
LEMMA ResizeServed ==
    ASSUME NEW s, NEW A, Owned(s, A), NEW f \in Buffers, NEW n \in Nat, s.ok
    PROVE  LET t == s2n_stuffer_resize(s, f, n) IN
           Served(s, t, f, A) /\ (t.ok => Resized(s.c[f], t.c[f], n))
  <1> DEFINE c == s.c[f]
             t == s2n_stuffer_resize(s, f, n)
  <1>1. /\ f \in Fields /\ f \in Stuffers /\ f \notin Blobs /\ f \notin Objects /\ f # "cookie_stuffer"
        /\ s \in StateType /\ c \in CellType /\ CellOk(f, c)
    BY Typed, FieldKinds DEF Buffers
  <1>2. BlobOk(c) /\ StufferOk(c) BY <1>1 DEF CellOk
  <1>3. CASE c.tainted \/ ~c.sgrowable
    <2>1. t = Fail(s) BY <1>3 DEF s2n_stuffer_resize, Ensure
    <2> QED BY <1>1, <2>1, Failed
  <1>4. CASE ~c.tainted /\ c.sgrowable /\ n = c.size
    <2>1. t = s BY <1>4 DEF s2n_stuffer_resize, Ensure
    <2>2. Resized(c, c, n) BY <1>4 DEF Resized
    <2> QED BY <1>1, <2>1, <2>2, ServedItself
  <1>5. CASE ~c.tainted /\ c.sgrowable /\ n # c.size /\ n = 0
    <2> DEFINE x == s2n_stuffer_wipe(s, f)
    <2>1. t = s2n_free(x, f) BY <1>5 DEF s2n_stuffer_resize, Ensure
    <2>2. Served(s, x, f, A) /\ x.ok /\ Wiped(c, x.c[f]) BY <1>1, WipeServed
    <2> HIDE DEF x, t
    <2>3. Owned(x, A) /\ x.c[f] \in CellType BY <1>1, <2>2, Typed DEF Served
    <2>4. CASE x.m.init
      <3>1. Served(x, t, f, A) /\ t.c[f] = NoBlob(x.c[f]) BY <1>1, <2>1, <2>3, <2>4, FreeServed
      <3>2. Resized(c, t.c[f], n) BY <1>5, <2>2, <2>3, <3>1, NoBlobCell DEF Resized, Wiped
      <3> QED BY <2>2, <3>1, <3>2 DEF Served, Near, t
    <2>5. CASE ~x.m.init
      <3>1. Served(x, t, f, A) /\ ~t.ok BY <1>1, <2>1, <2>3, <2>5, FreeServed, Failed
      <3> QED BY <2>2, <3>1 DEF Served, Near, t
    <2> QED BY <2>4, <2>5
  <1>6. CASE ~c.tainted /\ c.sgrowable /\ n < c.size /\ n # 0
    <2> DEFINE lr == IF c.r > n THEN n ELSE c.r
               lw == IF c.w > n THEN n ELSE c.w
               d == [c EXCEPT !.size = n, !.r = lr, !.w = lw]
    <2>0. c.size \in Nat /\ c.r \in Nat /\ c.w \in Nat /\ n # c.size BY <1>1, <1>6 DEF CellType
    <2>9. lr \in Nat /\ lw \in Nat /\ (c.r = 0 => lr = 0) /\ (c.w = 0 => lw = 0) BY <2>0
    <2>1. t = [s EXCEPT !.c[f].size = n, !.c[f].r = IF @ > n THEN n ELSE @, !.c[f].w = IF @ > n THEN n ELSE @]
      BY <1>6, <2>0 DEF s2n_stuffer_resize, Ensure
    <2>2. t = [s EXCEPT !.c[f] = d]
      <3>1. t = [s EXCEPT !.c[f].size = n, !.c[f].r = lr, !.c[f].w = lw] BY <1>1, <2>1 DEF StateType, CellType
      <3> HIDE DEF lr, lw
      <3> QED BY <1>1, <3>1 DEF StateType, CellType
    <2> HIDE DEF lr, lw
    <2>3. /\ d \in CellType /\ d.data = c.data /\ d.size = n /\ d.room = c.room
          /\ d.growable = c.growable /\ d.alloced = c.alloced /\ d.sgrowable = c.sgrowable
          /\ d.tainted = c.tainted /\ (c.r = 0 => d.r = 0) /\ (c.w = 0 => d.w = 0)
      BY <1>1, <2>0, <2>9 DEF CellType
    <2> HIDE DEF d, t
    <2>8. d.size <= d.room /\ n > 0 BY <1>1, <1>2, <1>6, <2>0, <2>3 DEF BlobOk, CellType
    <2>4. CellOk(f, d) BY <1>1, <1>2, <2>3, <2>8 DEF CellOk, BlobOk, StufferOk, Filled
    <2>5. Served(s, t, f, A) /\ t.c[f] = d BY <1>1, <2>2, <2>3, <2>4, CellKept
    <2>6. Resized(c, d, n) BY <1>6, <2>3 DEF Resized
    <2> QED BY <2>5, <2>6 DEF t
  <1>7. CASE ~c.tainted /\ c.sgrowable /\ n > c.size
    <2>0. c.size \in Nat /\ n # 0 /\ n # c.size /\ ~(n < c.size) BY <1>1, <1>7 DEF CellType
    <2>1. t = s2n_realloc(s, f, n) BY <1>7, <2>0 DEF s2n_stuffer_resize, Ensure
    <2>2. Grows(f, c) BY <1>1, <1>2, <1>7 DEF Grows, StufferOk
    <2>3. Served(s, t, f, A) /\ (t = Fail(s) \/ (t.ok = s.ok /\ Grown(c, t.c[f], n)))
      BY <1>1, <2>0, <2>1, <2>2, ReallocServed
    <2>4. t.ok => Grown(c, t.c[f], n) BY <2>3, Failed
    <2> QED BY <1>7, <2>3, <2>4 DEF Grown, Resized
  <1>8. n < c.size \/ n = c.size \/ n > c.size BY <1>1 DEF CellType
  <1> QED BY <1>3, <1>4, <1>5, <1>6, <1>7, <1>8

\* s2n_stuffer_growable_alloc of a stuffer without memory, to some.
LEMMA GrowableAllocSomeServed ==
    ASSUME NEW s, NEW A, Owned(s, A), NEW f \in Buffers, ~Filled(s.c[f]), NEW n \in Nat, n # 0, s.ok
    PROVE  Served(s, s2n_stuffer_growable_alloc(s, f, n), f, A)
  <1> DEFINE x == [s EXCEPT !.c[f] = Empty]
             y == s2n_alloc(x, f, n)
             t == s2n_stuffer_growable_alloc(s, f, n)
             b == FreshBlock(x, f, n)
             new == [Empty EXCEPT !.data = b, !.size = n, !.room = n, !.growable = TRUE]
             d == [new EXCEPT !.alloced = TRUE, !.sgrowable = TRUE]
             moved == [[x EXCEPT !.m.live = @ \cup {b}] EXCEPT !.c[f] = new]
  <1>1. f \in Fields /\ f \in Stuffers /\ f \notin Blobs /\ f \notin Objects /\ f # "cookie_stuffer" /\ s.c[f].data = NoBlock
    BY FieldKinds, BlobIsNotUsers, NullCell DEF Buffers
  <1>0. Empty \in CellType /\ CellOk(f, Empty) /\ Empty.data = s.c[f].data BY <1>1, EmptyCell, EmptyOk
  <1>2. Served(s, x, f, A) /\ x.c[f] = Empty /\ x.ok = s.ok BY <1>0, <1>1, CellKept
  <1>2a. x.m = s.m BY <1>0, <1>1, Typed, SetCell
  <1>3. t = IF y.ok THEN [y EXCEPT !.c[f].alloced = TRUE, !.c[f].sgrowable = TRUE] ELSE y
    BY DEF s2n_stuffer_growable_alloc
  <1> HIDE DEF x
  <1>4. Owned(x, A) /\ x \in StateType /\ IsFiniteSet(x.m.live) /\ Near(s, x, f) BY <1>2 DEF Served, Near, Owned
  <1>5. [x EXCEPT !.c[f] = NoBlob(@)] = x BY <1>1, <1>2, <1>4, NothingToEmpty DEF StateType
  <1>6. Empty.room = 0 /\ s2n_blob_is_growable(Empty) BY DEF s2n_blob_is_growable, Empty
  <1>7. CASE x.m.init /\ CanAllocate(x, n)
    <2>1. b \in Block /\ b \notin x.m.live /\ b[1] = f BY <1>1, <1>4, FreshIsFresh
    <2>2. y = moved
      <3>1. ~(n <= Empty.room) /\ ~(Empty.room > 0) BY <1>6
      <3>2. s2n_realloc(x, f, n) = moved BY <1>2, <1>6, <1>7, <3>1 DEF s2n_realloc, Ensure
      <3>3. s2n_alloc(x, f, n) = s2n_realloc(x, f, n) BY <1>5, <1>7 DEF s2n_alloc, Ensure
      <3> QED BY <3>2, <3>3
    <2> HIDE DEF b
    <2>3. new \in CellType BY <2>1 DEF CellType, Empty
    <2>4. /\ d \in CellType /\ d.data = b /\ d.size = n /\ d.room = n /\ d.growable /\ d.alloced /\ d.sgrowable
          /\ d.alloced = d.sgrowable
      BY <2>1 DEF CellType, Empty
    <2>5. Added(x, moved, f, b, new) BY <1>1, <1>4, <2>1, <2>3, BlockAdded
    <2>6. t = [moved EXCEPT !.c[f] = d]
      <3> HIDE DEF moved, y, t, new
      <3>1. t = [moved EXCEPT !.c[f].alloced = TRUE, !.c[f].sgrowable = TRUE]
        BY <1>2, <1>3, <2>2, <2>5 DEF Added, Alike
      <3>2. moved \in StateType /\ moved.c[f] = new BY <2>5 DEF Added
      <3> QED BY <1>1, <3>1, <3>2 DEF StateType
    <2> HIDE DEF moved, t, d, new
    <2>7. /\ t \in StateType /\ t.m = moved.m /\ t.c[f] = d /\ Alike(moved, t)
          /\ \A g \in Fields : g # f => t.c[g] = moved.c[g]
      BY <1>1, <2>4, <2>5, <2>6, SetCell DEF Added
    <2>8. NoBlock \notin s.m.live \cup {b} BY <2>1, Typed, BlockIsOurs
    <2>9. CellOk(f, d) BY <1>1, <2>1, <2>4, BlockIsOurs DEF CellOk, BlobOk, StufferOk, Filled
    <2>10. /\ Alike(s, t) /\ ~t.m.bad /\ t.m.live = (s.m.live \cup {b}) \ {s.c[f].data} /\ b \notin s.m.live
           /\ \A g \in Fields : g # f => t.c[g] = s.c[g]
      BY <1>1, <1>2, <1>2a, <1>4, <2>1, <2>5, <2>7, <2>8 DEF Added, Alike, Near
    <2>11. Served(s, t, f, A) BY <1>1, <2>1, <2>4, <2>7, <2>9, <2>10, CellTaken
    <2> QED BY <2>11 DEF t
  <1>8. CASE ~x.m.init \/ ~CanAllocate(x, n)
    <2>1. ~(n <= Empty.room) BY <1>6
    <2>2. y = Fail(x) BY <1>2, <1>5, <1>6, <1>8, <2>1 DEF s2n_alloc, s2n_realloc, Ensure
    <2> HIDE DEF y, t
    <2>3. Served(x, y, f, A) /\ t = y BY <1>1, <1>3, <1>4, <2>2, Failed
    <2> QED BY <1>2, <2>3 DEF Served, Near, t
  <1> QED BY <1>7, <1>8

\* The stuffer grows as it has to, and the write cursor moves.
LEMMA WriteServed ==
    ASSUME NEW s, NEW A, Owned(s, A), NEW f \in Buffers, NEW n \in Nat, s.ok
    PROVE  Served(s, s2n_stuffer_write(s, f, n), f, A)
  <1> DEFINE c == s.c[f]
             x == IF c.size - c.w >= n THEN s ELSE Ensure(c.sgrowable, s, s2n_stuffer_resize(s, f, c.w + n))
             t == s2n_stuffer_write(s, f, n)
  <1>1. f \in Fields /\ f \in Stuffers /\ c \in CellType /\ c.w + n \in Nat BY Typed, FieldKinds DEF Buffers, CellType
  <1>2. t = IF x.ok THEN [x EXCEPT !.c[f].w = @ + n] ELSE x BY DEF s2n_stuffer_write
  <1>3. Served(s, x, f, A)
    <2>1. CASE c.size - c.w >= n BY <1>1, <2>1, ServedItself
    <2>2. CASE ~(c.size - c.w >= n) /\ c.sgrowable
      <3>1. x = s2n_stuffer_resize(s, f, c.w + n) BY <2>2 DEF Ensure
      <3> HIDE DEF x
      <3> QED BY <1>1, <3>1, ResizeServed
    <2>3. CASE ~(c.size - c.w >= n) /\ ~c.sgrowable
      <3>1. x = Fail(s) BY <2>3 DEF Ensure
      <3> HIDE DEF x
      <3> QED BY <1>1, <3>1, Failed
    <2> QED BY <2>1, <2>2, <2>3
  <1> HIDE DEF x, t
  <1>4. Owned(x, A) /\ x \in StateType /\ x.c[f] \in CellType BY <1>1, <1>3, Typed DEF Served
  <1>5. CASE x.ok
    <2> DEFINE e == x.c[f]
               d == [e EXCEPT !.w = @ + n]
    <2>1. t = [x EXCEPT !.c[f] = d] BY <1>1, <1>2, <1>4, <1>5 DEF StateType
    <2>2. /\ d \in CellType /\ d.data = e.data /\ d.size = e.size /\ d.room = e.room
          /\ d.growable = e.growable /\ d.alloced = e.alloced /\ d.sgrowable = e.sgrowable
      BY <1>4 DEF CellType
    <2> HIDE DEF d
    <2>3. Served(x, t, f, A) BY <1>1, <1>4, <2>1, <2>2, CursorsServed
    <2> QED BY <1>3, <2>3 DEF Served, Near, t
  <1>6. CASE ~x.ok BY <1>2, <1>3, <1>6 DEF t
  <1> QED BY <1>5, <1>6

\* s2n_stuffer_raw_write.
LEMMA RawWriteServed ==
    ASSUME NEW s, NEW A, Owned(s, A), NEW f \in Buffers, NEW n \in Nat, s.ok
    PROVE  Served(s, s2n_stuffer_raw_write(s, f, n), f, A)
  <1> DEFINE x == s2n_stuffer_write(s, f, n)
             t == s2n_stuffer_raw_write(s, f, n)
  <1>1. f \in Fields /\ f \in Stuffers BY FieldKinds DEF Buffers
  <1>2. t = IF x.ok THEN [x EXCEPT !.c[f].tainted = TRUE] ELSE x BY DEF s2n_stuffer_raw_write
  <1>3. Served(s, x, f, A) BY WriteServed
  <1> HIDE DEF x, t
  <1>4. Owned(x, A) /\ x \in StateType /\ x.c[f] \in CellType BY <1>1, <1>3, Typed DEF Served
  <1>5. CASE x.ok
    <2> DEFINE e == x.c[f]
               d == [e EXCEPT !.tainted = TRUE]
    <2>1. t = [x EXCEPT !.c[f] = d] BY <1>1, <1>2, <1>4, <1>5 DEF StateType
    <2>2. /\ d \in CellType /\ d.data = e.data /\ d.size = e.size /\ d.room = e.room
          /\ d.growable = e.growable /\ d.alloced = e.alloced /\ d.sgrowable = e.sgrowable
      BY <1>4 DEF CellType
    <2> HIDE DEF d
    <2>3. Served(x, t, f, A) BY <1>1, <1>4, <2>1, <2>2, CursorsServed
    <2> QED BY <1>3, <2>3 DEF Served, Near, t
  <1>6. CASE ~x.ok BY <1>2, <1>3, <1>6 DEF t
  <1> QED BY <1>5, <1>6

\* s2n_stuffer_resize_if_empty.
LEMMA ResizeIfEmptyServed ==
    ASSUME NEW s, NEW A, Owned(s, A), NEW f \in Buffers, NEW n \in Nat, n # 0
    PROVE  Served(s, s2n_stuffer_resize_if_empty(s, f, n), f, A)
  <1>1. f \in Fields /\ f \in Stuffers /\ CellOk(f, s.c[f]) BY Typed, FieldKinds DEF Buffers
  <1>2. CASE s.c[f].data # NoBlock BY <1>1, <1>2, ServedItself DEF s2n_stuffer_resize_if_empty
  <1>3. CASE s.c[f].data = NoBlock /\ ~s.c[f].tainted /\ s.c[f].sgrowable
    <2>1. s2n_stuffer_resize_if_empty(s, f, n) = s2n_realloc(s, f, n)
      BY <1>3 DEF s2n_stuffer_resize_if_empty, Ensure
    <2>2. Grows(f, s.c[f]) BY <1>1, <1>3 DEF Grows, CellOk, StufferOk
    <2> QED BY <1>1, <2>1, <2>2, ReallocServed
  <1>4. CASE s.c[f].data = NoBlock /\ ~(~s.c[f].tainted /\ s.c[f].sgrowable)
    <2>1. s2n_stuffer_resize_if_empty(s, f, n) = Fail(s) BY <1>4 DEF s2n_stuffer_resize_if_empty, Ensure
    <2> QED BY <1>1, <2>1, Failed
  <1> QED BY <1>2, <1>3, <1>4

-----------------------------------------------------------------------------
(***************************************************************************)
(* A sequence of calls that changes the cells of F only.                   *)
(***************************************************************************)
Between(s, t, A, F) ==
    /\ Owned(t, A) /\ t.m.init = s.m.init /\ t.managed_io = s.managed_io
    /\ \A g \in Fields \ F : t.c[g] = s.c[g]
    /\ t.ok => s.ok

\* One call as a sequence of calls.
LEMMA BetweenServed ==
    ASSUME NEW s, NEW t, NEW A, NEW f, Served(s, t, f, A), s.ok
    PROVE  Between(s, t, A, {f})
  BY DEF Between, Served, Near

\* The empty sequence.
LEMMA BetweenItself ==
    ASSUME NEW s, NEW A, Owned(s, A), NEW F
    PROVE  Between(s, s, A, F)
  BY DEF Between

\* Two sequences after each other.
LEMMA BetweenBetween ==
    ASSUME NEW s, NEW t, NEW u, NEW A, NEW F, NEW G, Between(s, t, A, F), Between(t, u, A, G)
    PROVE  Between(s, u, A, F \cup G)
  BY DEF Between

\* A sequence may change fewer cells than it might.
LEMMA BetweenMore ==
    ASSUME NEW s, NEW t, NEW A, NEW F, NEW G, F \subseteq G, Between(s, t, A, F)
    PROVE  Between(s, t, A, G)
  BY DEF Between

\* A cell of an object is the application's only where the code lets it be.
LEMMA ObjectIsNotUsers ==
    ASSUME NEW s, NEW A, Owned(s, A), NEW f \in Objects, f # "recv_io_context"
    PROVE  f \in Fields /\ s.c[f].data # UserBlock
  BY Typed, FieldKinds DEF CellOk, ObjectOk

IoContexts == {"send_io_context", "recv_io_context"}

\* s2n_connection_free_io_contexts frees what managed_io says is the library's.
LEMMA FreeIoServed ==
    ASSUME NEW s, NEW A, Owned(s, A), IoOk(s), s.ok
    PROVE  LET t == FreeIoContexts(s) IN
           /\ Between(s, t, A, IoContexts) /\ IoOk(t) /\ (s.m.init => t.ok)
           /\ t.ok => \A f \in IoContexts : ~Filled(t.c[f])
  <1> DEFINE x == s2n_free_object(s, "send_io_context")
             y == s2n_free_object(x, "recv_io_context")
             t == FreeIoContexts(s)
  <1>0. /\ "send_io_context" \in Objects /\ "recv_io_context" \in Objects /\ "send_io_context" # "recv_io_context"
        /\ "send_io_context" \in Fields /\ "recv_io_context" \in Fields
    BY FieldKinds
  <1>1. CASE ~s.managed_io
    <2>1. t = s BY <1>1 DEF FreeIoContexts
    <2>2. \A f \in IoContexts : ~Filled(s.c[f]) BY <1>1 DEF IoOk, IoContexts
    <2> QED BY <2>1, <2>2, BetweenItself
  <1>2. CASE s.managed_io
    <2>1. t = IF x.ok THEN y ELSE x BY <1>2 DEF FreeIoContexts
    <2>2. /\ Served(s, x, "send_io_context", A) /\ (s.m.init => x.ok)
          /\ x = Fail(s) \/ x.c["send_io_context"].data = NoBlock
      <3>1. s.c["send_io_context"].data # UserBlock BY <1>0, ObjectIsNotUsers
      <3> QED BY <1>0, <3>1, FreeObjectServed
    <2>3. /\ Owned(x, A) /\ x.c["recv_io_context"] = s.c["recv_io_context"] /\ x.managed_io = s.managed_io
          /\ x.m.init = s.m.init
      BY <1>0, <2>2 DEF Served, Near
    <2>4. x.c["recv_io_context"].data # UserBlock BY <1>2, <2>3 DEF IoOk
    <2>5. /\ Served(x, y, "recv_io_context", A) /\ (x.m.init => y.ok = x.ok)
          /\ y = Fail(x) \/ y.c["recv_io_context"].data = NoBlock
      BY <1>0, <2>3, <2>4, FreeObjectServed
    <2> HIDE DEF x, y, t
    <2>6. Between(s, x, A, IoContexts) BY <2>2, BetweenServed, BetweenMore DEF IoContexts
    <2>7. CASE ~x.ok
      <3>1. x.c["send_io_context"].data = NoBlock \/ x.c["send_io_context"] = s.c["send_io_context"]
        BY <2>2, Failed
      <3>2. IoOk(x) BY <1>2, <2>3, <2>4 DEF IoOk
      <3>3. t = x BY <2>1, <2>7
      <3>4. /\ Between(s, t, A, IoContexts) /\ IoOk(t) /\ (s.m.init => t.ok)
            /\ t.ok => \A f \in IoContexts : ~Filled(t.c[f])
        BY <2>2, <2>6, <2>7, <3>2, <3>3
      <3> QED BY <3>4 DEF t
    <2>8. CASE x.ok
      <3>1. Between(x, y, A, IoContexts) BY <2>5, <2>8, BetweenServed, BetweenMore DEF IoContexts
      <3>2. Between(s, y, A, IoContexts)
        <4>1. Between(s, y, A, IoContexts \cup IoContexts) BY <2>6, <3>1, BetweenBetween
        <4> QED BY <4>1, BetweenMore
      <3>3. y.managed_io /\ y.c["send_io_context"] = x.c["send_io_context"]
        BY <1>0, <1>2, <2>3, <2>5 DEF Served, Near
      <3>4. y.c["recv_io_context"].data # UserBlock
        <4>1. CASE y = Fail(x) BY <2>3, <2>4, <4>1, Failed
        <4>2. CASE y.c["recv_io_context"].data = NoBlock BY <4>2, BlockIsOurs
        <4> QED BY <2>5, <4>1, <4>2
      <3>5. IoOk(y) BY <3>3, <3>4 DEF IoOk
      <3>6. x.c["send_io_context"].data = NoBlock BY <2>2, <2>8, Failed
      <3>7. y.ok => y.c["recv_io_context"].data = NoBlock BY <2>3, <2>5, Failed
      <3>8. y.ok => \A f \in IoContexts : ~Filled(y.c[f])
        BY <3>3, <3>6, <3>7, BlockIsOurs DEF IoContexts, Filled
      <3>9. t = y /\ (s.m.init => y.ok) BY <2>1, <2>3, <2>5, <2>8
      <3> QED BY <3>2, <3>5, <3>8, <3>9 DEF t
    <2> QED BY <2>7, <2>8
  <1> QED BY <1>1, <1>2

PskCells == {"psk_identity", "psk_secret", "psk_list"}

\* s2n_connection_append_psk, whichever of its allocations fails.
LEMMA AppendPskServed ==
    ASSUME NEW s, NEW A, Owned(s, A), s.ok
    PROVE  Between(s, AppendPsk(s), A, PskCells)
  <1> DEFINE t1 == s2n_realloc(s, "psk_identity", 1)
             t2 == IF t1.ok THEN s2n_realloc(t1, "psk_secret", 1) ELSE t1
             t3 == IF t2.ok THEN s2n_realloc(t2, "psk_list", 1) ELSE t2
             t == AppendPsk(s)
  <1>0. /\ \A f \in PskCells : f \in Blobs /\ f \in Fields
        /\ "psk_identity" \in PskCells /\ "psk_secret" \in PskCells /\ "psk_list" \in PskCells
    BY FieldKinds DEF PskCells, Blobs
  <1>00. \A x : Owned(x, A) /\ x.ok => \A f \in PskCells : Between(x, s2n_realloc(x, f, 1), A, PskCells)
    <2> SUFFICES ASSUME NEW x, Owned(x, A), x.ok, NEW f \in PskCells
                 PROVE  Between(x, s2n_realloc(x, f, 1), A, PskCells)
      OBVIOUS
    <2>1. Grows(f, x.c[f]) /\ f \in Fields BY <1>0 DEF Grows
    <2>2. Served(x, s2n_realloc(x, f, 1), f, A) BY <2>1, ReallocServed
    <2> QED BY <2>2, BetweenServed, BetweenMore
  <1>1. t = IF s.c["psk_list"].data = NoBlock /\ t3.ok THEN t3 ELSE Fail(s) BY DEF AppendPsk, Ensure
  <1>2. Between(s, t1, A, PskCells) BY <1>0, <1>00
  <1> HIDE DEF t1
  <1>2a. Owned(t1, A) BY <1>2 DEF Between
  <1>3. Between(t1, t2, A, PskCells)
    <2>1. CASE t1.ok BY <1>0, <1>00, <1>2a, <2>1
    <2>2. CASE ~t1.ok BY <1>2a, <2>2, BetweenItself
    <2> QED BY <2>1, <2>2
  <1> HIDE DEF t2
  <1>3a. Owned(t2, A) BY <1>3 DEF Between
  <1>4. Between(t2, t3, A, PskCells)
    <2>1. CASE t2.ok BY <1>0, <1>00, <1>3a, <2>1
    <2>2. CASE ~t2.ok BY <1>3a, <2>2, BetweenItself
    <2> QED BY <2>1, <2>2
  <1> HIDE DEF t3, t
  <1>5. Between(s, t3, A, PskCells)
    <2>1. Between(s, t2, A, PskCells \cup PskCells) BY <1>2, <1>3, BetweenBetween
    <2>2. Between(s, t3, A, (PskCells \cup PskCells) \cup PskCells) BY <1>4, <2>1, BetweenBetween
    <2> QED BY <2>2, BetweenMore
  <1>6. Between(s, Fail(s), A, PskCells)
    <2>1. Served(s, Fail(s), "psk_list", A) BY <1>0, Failed
    <2> QED BY <1>0, <2>1, BetweenServed, BetweenMore
  <1>7. Between(s, t, A, PskCells) BY <1>1, <1>5, <1>6
  <1> QED BY <1>7 DEF t

\* s2n_connection_zero between saving and restoring, once what is not saved has been freed.
LEMMA ZeroServed ==
    ASSUME NEW s, NEW A, Owned(s, A), \A f \in Fields \ Kept : ~Filled(s.c[f])
    PROVE  LET t == ZeroCells(s) IN
           /\ Owned(t, A) /\ IoOk(t) /\ t.m = s.m /\ ~t.managed_io /\ t.ok = s.ok
           /\ \A f \in Fields : t.c[f] = IF f \in Kept THEN s.c[f] ELSE Empty
  <1> DEFINE cs == [f \in Fields |-> IF f \in Kept THEN s.c[f] ELSE Empty]
             t == ZeroCells(s)
  <1>1. s \in StateType /\ s.c \in [Fields -> CellType] BY Typed
  <1>2. cs \in [Fields -> CellType] /\ \A f \in Fields : cs[f] = IF f \in Kept THEN s.c[f] ELSE Empty
    BY <1>1, EmptyCell
  <1>3. t = [s EXCEPT !.c = cs, !.managed_io = FALSE] BY DEF ZeroCells
  <1> HIDE DEF cs, t
  <1>4. /\ t \in StateType /\ t.m = s.m /\ ~t.managed_io /\ t.ok = s.ok /\ t.c = cs BY <1>1, <1>2, <1>3 DEF StateType
  <1>5. \A f \in Fields : CellOk(f, t.c[f]) BY <1>2, <1>4, EmptyOk, Typed
  <1>6. \A f \in Fields : Filled(t.c[f]) => t.c[f] = s.c[f] BY <1>2, <1>4, EmptyCell
  <1>7. \A b \in s.m.live \ A : t.c[b[1]].data = b
    <2> SUFFICES ASSUME NEW b \in s.m.live \ A PROVE t.c[b[1]].data = b OBVIOUS
    <2>1. b \in Block /\ b[1] \in Fields /\ s.c[b[1]].data = b BY Typed, BlockIsOurs DEF Owned
    <2>2. b[1] \in Kept BY <2>1 DEF Filled
    <2> QED BY <1>2, <1>4, <2>1, <2>2
  <1>8. Owned(t, A) BY <1>4, <1>5, <1>6, <1>7 DEF Owned
  <1>9. IoOk(t)
    <2>1. "send_io_context" \in Fields \ Kept /\ "recv_io_context" \in Fields \ Kept BY FieldKinds DEF Kept
    <2>2. t.c["send_io_context"] = Empty /\ t.c["recv_io_context"] = Empty BY <1>2, <1>4, <2>1
    <2> QED BY <2>2, EmptyCell, BlockIsOurs DEF IoOk
  <1>10. \A f \in Fields : t.c[f] = IF f \in Kept THEN s.c[f] ELSE Empty BY <1>2, <1>4
  <1> QED BY <1>4, <1>8, <1>9, <1>10 DEF t

-----------------------------------------------------------------------------
(***************************************************************************)
(* RunAll: the states a on the way, and the run of two sequences.          *)
(***************************************************************************)
Ops == {"s2n_free", "s2n_free_object", "s2n_alloc", "s2n_realloc", "s2n_dup", "s2n_blob_zeroize_free",
        "new", "new_if_null", "restore", "s2n_stuffer_growable_alloc", "s2n_stuffer_free", "s2n_stuffer_wipe",
        "s2n_stuffer_resize", "s2n_stuffer_resize_if_empty", "s2n_stuffer_write", "s2n_stuffer_raw_read",
        "s2n_stuffer_raw_write", "s2n_stuffer_rewrite", "consumed", "free_io_contexts", "managed", "append_psk",
               "zero"}
Calls == [op : Ops, f : Fields, n : Nat]
IsRun(a, s, calls, n) == a = [i \in 0..n |-> IF i = 0 THEN s ELSE Do(a[i - 1], calls[i])]

IsTrail(a, n) == a = [i \in 0..n |-> a[i]]

\* A run, state by state.
LEMMA RunAt ==
    ASSUME NEW a, NEW s, NEW c, NEW n \in Nat, IsRun(a, s, c, n)
    PROVE  a[0] = s /\ \A i \in 1..n : a[i] = Do(a[i - 1], c[i])
  <1> DEFINE b == [i \in 0..n |-> IF i = 0 THEN s ELSE Do(a[i - 1], c[i])]
  <1>1. a = b BY DEF IsRun
  <1>2. b[0] = s OBVIOUS
  <1>3. \A i \in 1..n : b[i] = Do(a[i - 1], c[i]) OBVIOUS
  <1> HIDE DEF b
  <1> QED BY <1>1, <1>2, <1>3

\* A sequence of states that is a run.
LEMMA RunFrom ==
    ASSUME NEW a, NEW s, NEW c, NEW n \in Nat, IsTrail(a, n),
           a[0] = s, \A i \in 1..n : a[i] = Do(a[i - 1], c[i])
    PROVE  IsRun(a, s, c, n)
  <1> DEFINE V(i) == IF i = 0 THEN s ELSE Do(a[i - 1], c[i])
  <1>1. ASSUME NEW i \in 0..n PROVE a[i] = V(i)
    <2>1. CASE i = 0 BY <2>1
    <2>2. CASE i # 0
      <3>1. i \in 1..n BY <2>2
      <3>2. a[i] = Do(a[i - 1], c[i]) BY <3>1
      <3> QED BY <2>2, <3>2
    <2> QED BY <2>1, <2>2
  <1> HIDE DEF V
  <1>2. a = [i \in 0..n |-> V(i)] BY <1>1 DEF IsTrail
  <1> QED BY <1>2 DEF IsRun, V

\* Every sequence of calls has a run.
LEMMA RunExists ==
    ASSUME NEW s, NEW c, NEW n \in Nat
    PROVE  \E a : IsRun(a, s, c, n)
  <1> DEFINE S == {k \in Nat : \E a : IsRun(a, s, c, k)}
  <1>1. 0 \in S
    <2> DEFINE a == [i \in 0..0 |-> s]
    <2>1. IsTrail(a, 0) /\ a[0] = s BY DEF IsTrail
    <2> HIDE DEF a
    <2>2. IsRun(a, s, c, 0) BY <2>1, RunFrom
    <2> QED BY <2>2
  <1>2. ASSUME NEW k \in Nat, k \in S PROVE k + 1 \in S
    <2>1. PICK a : IsRun(a, s, c, k) BY <1>2
    <2>2. a[0] = s /\ \A i \in 1..k : a[i] = Do(a[i - 1], c[i]) BY <2>1, RunAt
    <2> DEFINE b == [i \in 0..(k + 1) |-> IF i <= k THEN a[i] ELSE Do(a[k], c[k + 1])]
    <2>3. IsTrail(b, k + 1) /\ b[0] = s BY <2>2 DEF IsTrail
    <2>4. \A i \in 1..(k + 1) : b[i] = Do(b[i - 1], c[i])
      <3> SUFFICES ASSUME NEW i \in 1..(k + 1) PROVE b[i] = Do(b[i - 1], c[i]) OBVIOUS
      <3>1. b[i - 1] = a[i - 1] OBVIOUS
      <3>2. CASE i <= k BY <2>2, <3>1, <3>2
      <3>3. CASE ~(i <= k)
        <4>1. i = k + 1 BY <3>3
        <4>2. i - 1 = k /\ b[i] = Do(a[k], c[k + 1]) BY <4>1
        <4> QED BY <3>1, <4>1, <4>2
      <3> QED BY <3>2, <3>3
    <2> HIDE DEF b
    <2>5. IsRun(b, s, c, k + 1) BY <2>3, <2>4, RunFrom
    <2> QED BY <2>5
  <1> HIDE DEF S
  <1>3. Nat \subseteq S BY <1>1, <1>2, SetInduction
  <1> QED BY <1>3 DEF S

\* A run has one end.
LEMMA RunUnique ==
    ASSUME NEW a, NEW b, NEW s, NEW c, NEW n \in Nat, IsRun(a, s, c, n), IsRun(b, s, c, n)
    PROVE  a[n] = b[n]
  <1>1. a[0] = s /\ \A i \in 1..n : a[i] = Do(a[i - 1], c[i]) BY RunAt
  <1>2. b[0] = s /\ \A i \in 1..n : b[i] = Do(b[i - 1], c[i]) BY RunAt
  <1> DEFINE S == {k \in Nat : k <= n => a[k] = b[k]}
  <1>3. 0 \in S BY <1>1, <1>2
  <1>4. ASSUME NEW k \in Nat, k \in S PROVE k + 1 \in S
    <2> SUFFICES ASSUME k + 1 <= n PROVE a[k + 1] = b[k + 1] OBVIOUS
    <2>1. k + 1 \in 1..n /\ (k + 1) - 1 = k /\ a[k] = b[k] BY <1>4
    <2>2. a[k + 1] = Do(a[(k + 1) - 1], c[k + 1]) BY <1>1, <2>1
    <2>3. b[k + 1] = Do(b[(k + 1) - 1], c[k + 1]) BY <1>2, <2>1
    <2> QED BY <2>1, <2>2, <2>3
  <1> HIDE DEF S
  <1>5. Nat \subseteq S BY <1>3, <1>4, SetInduction
  <1> QED BY <1>5 DEF S

\* RunAll is the end of the run.
LEMMA RunIs ==
    ASSUME NEW s, NEW c, Len(c) \in Nat
    PROVE  \E a : IsRun(a, s, c, Len(c)) /\ RunAll(s, c) = a[Len(c)]
  <1> DEFINE F == CHOOSE a : a = [i \in 0..Len(c) |-> IF i = 0 THEN s ELSE Do(a[i - 1], c[i])]
  <1>1. \E a : a = [i \in 0..Len(c) |-> IF i = 0 THEN s ELSE Do(a[i - 1], c[i])]
    <2>1. \E a : IsRun(a, s, c, Len(c)) BY RunExists
    <2> QED BY <2>1, Zenon DEF IsRun
  <1>2. F = [i \in 0..Len(c) |-> IF i = 0 THEN s ELSE Do(F[i - 1], c[i])] BY <1>1, Zenon
  <1>3. IsRun(F, s, c, Len(c)) BY <1>2, Zenon DEF IsRun
  <1>4. RunAll(s, c) = F[Len(c)] BY Zenon DEF RunAll
  <1> QED BY <1>3, <1>4

\* Any run shows what RunAll is.
LEMMA RunValue ==
    ASSUME NEW s, NEW c, Len(c) \in Nat, NEW a, IsRun(a, s, c, Len(c))
    PROVE  RunAll(s, c) = a[Len(c)]
  <1>1. PICK b : IsRun(b, s, c, Len(c)) /\ RunAll(s, c) = b[Len(c)] BY RunIs
  <1> QED BY <1>1, RunUnique

\* No call.
LEMMA RunNone ==
    ASSUME NEW s
    PROVE  RunAll(s, <<>>) = s
  <1>1. PICK a : IsRun(a, s, <<>>, 0) /\ RunAll(s, <<>>) = a[0] BY RunIs
  <1>2. a[0] = s BY <1>1, RunAt
  <1> QED BY <1>1, <1>2

\* One call.
LEMMA RunOne ==
    ASSUME NEW s, NEW x
    PROVE  RunAll(s, <<x>>) = Do(s, x)
  <1>1. PICK a : IsRun(a, s, <<x>>, 1) /\ RunAll(s, <<x>>) = a[1] BY RunIs
  <1>2. a[0] = s /\ \A i \in 1..1 : a[i] = Do(a[i - 1], <<x>>[i]) BY <1>1, RunAt
  <1>3. a[1] = Do(a[1 - 1], <<x>>[1]) BY <1>2
  <1> QED BY <1>1, <1>2, <1>3

\* Calls after calls.
LEMMA RunBoth ==
    ASSUME NEW s, NEW c \in Seq(Calls), NEW d \in Seq(Calls)
    PROVE  RunAll(s, c \o d) = RunAll(RunAll(s, c), d)
  <1> DEFINE n == Len(c)
             m == Len(d)
             e == c \o d
  <1>0. /\ n \in Nat /\ m \in Nat /\ Len(e) = n + m
        /\ \A i \in 1..n : e[i] = c[i]
        /\ \A i \in 1..m : e[n + i] = d[i]
    OBVIOUS
  <1>1. PICK a : IsRun(a, s, c, n) /\ RunAll(s, c) = a[n] BY <1>0, RunIs
  <1>2. PICK b : IsRun(b, a[n], d, m) /\ RunAll(a[n], d) = b[m] BY <1>0, RunIs
  <1> HIDE DEF n, m, e
  <1>3. a[0] = s /\ \A i \in 1..n : a[i] = Do(a[i - 1], c[i]) BY <1>0, <1>1, RunAt
  <1>4. b[0] = a[n] /\ \A i \in 1..m : b[i] = Do(b[i - 1], d[i]) BY <1>0, <1>2, RunAt
  <1> DEFINE r == [i \in 0..(n + m) |-> IF i <= n THEN a[i] ELSE b[i - n]]
  <1>5. IsTrail(r, n + m) /\ r[0] = s /\ r[n + m] = b[m]
    <2>1. r[n + m] = b[m]
      <3>1. CASE m = 0 BY <1>0, <1>4, <3>1
      <3>2. CASE m # 0
        <4>1. n + m \in 0..(n + m) /\ ~(n + m <= n) /\ (n + m) - n = m BY <1>0, <3>2
        <4> QED BY <4>1
      <3> QED BY <3>1, <3>2
    <2> QED BY <1>0, <1>3, <2>1 DEF IsTrail
  <1>6. \A i \in 1..(n + m) : r[i] = Do(r[i - 1], e[i])
    <2> SUFFICES ASSUME NEW i \in 1..(n + m) PROVE r[i] = Do(r[i - 1], e[i]) OBVIOUS
    <2>1. CASE i <= n
      <3>1. i \in 1..n /\ r[i] = a[i] /\ r[i - 1] = a[i - 1] BY <1>0, <2>1
      <3> QED BY <1>0, <1>3, <3>1
    <2>2. CASE ~(i <= n)
      <3>1. i - n \in 1..m /\ n + (i - n) = i /\ r[i] = b[i - n] BY <1>0, <2>2
      <3>2. r[i - 1] = b[(i - n) - 1]
        <4>1. CASE i - 1 <= n
          <5>1. i - 1 = n /\ (i - n) - 1 = 0 BY <1>0, <2>2, <4>1
          <5>2. r[n] = a[n] BY <1>0
          <5> QED BY <1>4, <5>1, <5>2
        <4>2. CASE ~(i - 1 <= n)
          <5>1. r[i - 1] = b[(i - 1) - n] /\ (i - 1) - n = (i - n) - 1 BY <1>0, <4>2
          <5> QED BY <5>1
        <4> QED BY <4>1, <4>2
      <3>3. b[i - n] = Do(b[(i - n) - 1], d[i - n]) BY <1>4, <3>1
      <3>4. e[n + (i - n)] = d[i - n] BY <1>0, <3>1
      <3>5. e[i] = d[i - n] BY <3>1, <3>4
      <3> QED BY <3>1, <3>2, <3>3, <3>5
    <2> QED BY <2>1, <2>2
  <1> HIDE DEF r
  <1>7. IsRun(r, s, e, n + m)
    <2> DEFINE l == n + m
    <2>1. l \in Nat BY <1>0
    <2>2. IsTrail(r, l) /\ r[0] = s /\ \A i \in 1..l : r[i] = Do(r[i - 1], e[i]) BY <1>5, <1>6
    <2> HIDE DEF l
    <2>3. IsRun(r, s, e, l) BY <2>1, <2>2, RunFrom
    <2> QED BY <2>3 DEF l
  <1>8. RunAll(s, e) = r[n + m] BY <1>0, <1>7, RunValue
  <1> QED BY <1>1, <1>2, <1>5, <1>8 DEF e

\* What follows a failure is skipped.
LEMMA RunSkipped ==
    ASSUME NEW s, ~s.ok, NEW c \in Seq(Calls)
    PROVE  RunAll(s, c) = s
  <1> DEFINE a == [i \in 0..Len(c) |-> s]
  <1>1. Len(c) \in Nat /\ \A i \in 1..Len(c) : Do(s, c[i]) = s BY DEF Do
  <1>2. IsTrail(a, Len(c)) /\ a[0] = s /\ a[Len(c)] = s BY <1>1 DEF IsTrail
  <1>3. \A i \in 1..Len(c) : a[i] = s /\ a[i - 1] = s BY <1>1
  <1> HIDE DEF a
  <1>4. IsRun(a, s, c, Len(c)) BY <1>1, <1>2, <1>3, RunFrom
  <1> QED BY <1>1, <1>2, <1>4, RunValue

-----------------------------------------------------------------------------
(***************************************************************************)
(* A call, as the operation it names.                                      *)
(***************************************************************************)
LEMMA DoIs ==
    ASSUME NEW s, s.ok, NEW f, NEW n
    PROVE  /\ Do(s, Call("s2n_free", f, n)) = s2n_free(s, f)
           /\ Do(s, Call("s2n_free_object", f, n)) = s2n_free_object(s, f)
           /\ Do(s, Call("s2n_alloc", f, n)) = s2n_alloc(s, f, n)
           /\ Do(s, Call("s2n_realloc", f, n)) = s2n_realloc(s, f, n)
           /\ Do(s, Call("s2n_dup", f, n)) = s2n_dup(s, f, n)
           /\ Do(s, Call("s2n_blob_zeroize_free", f, n)) = s2n_blob_zeroize_free(s, f)
           /\ Do(s, Call("new", f, n)) = NewObject(s, f, n)
           /\ Do(s, Call("new_if_null", f, n)) = NewObjectIfNull(s, f, n)
           /\ Do(s, Call("restore", f, n)) = RestoreObject(s, f, n)
  BY DEF Do, Call

\* The calls on stuffers.
LEMMA DoStufferIs ==
    ASSUME NEW s, s.ok, NEW f, NEW n
    PROVE  /\ Do(s, Call("s2n_stuffer_growable_alloc", f, n)) = s2n_stuffer_growable_alloc(s, f, n)
           /\ Do(s, Call("s2n_stuffer_free", f, n)) = s2n_stuffer_free(s, f)
           /\ Do(s, Call("s2n_stuffer_wipe", f, n)) = s2n_stuffer_wipe(s, f)
           /\ Do(s, Call("s2n_stuffer_resize", f, n)) = s2n_stuffer_resize(s, f, n)
           /\ Do(s, Call("s2n_stuffer_resize_if_empty", f, n)) = s2n_stuffer_resize_if_empty(s, f, n)
           /\ Do(s, Call("s2n_stuffer_write", f, n)) = s2n_stuffer_write(s, f, n)
           /\ Do(s, Call("s2n_stuffer_raw_read", f, n)) = s2n_stuffer_raw_read(s, f)
           /\ Do(s, Call("s2n_stuffer_raw_write", f, n)) = s2n_stuffer_raw_write(s, f, n)
           /\ Do(s, Call("s2n_stuffer_rewrite", f, n)) = s2n_stuffer_rewrite(s, f)
           /\ Do(s, Call("consumed", f, n)) = Ensure(s2n_stuffer_is_consumed(s, f), s, s)
  BY DEF Do, Call

\* The calls on the connection.
LEMMA DoConnectionIs ==
    ASSUME NEW s, s.ok, NEW f, NEW n
    PROVE  /\ Do(s, Call("free_io_contexts", f, n)) = FreeIoContexts(s)
           /\ Do(s, Call("managed", f, n)) = [s EXCEPT !.managed_io = TRUE]
           /\ Do(s, Call("append_psk", f, n)) = AppendPsk(s)
           /\ Do(s, Call("zero", f, n)) = ZeroCells(s)
  BY DEF Do, Call

(***************************************************************************)
(* The calls that come for many fields in turn.                            *)
(***************************************************************************)
Freeing == {"s2n_free", "s2n_free_object", "s2n_blob_zeroize_free", "s2n_stuffer_free"}
Sure == Freeing \cup {"s2n_stuffer_wipe", "s2n_stuffer_growable_alloc"}
Suits(op, f, c) ==
    \/ op \in {"s2n_free", "s2n_blob_zeroize_free"} /\ f \in Blobs
    \/ op = "s2n_free_object" /\ f \in Objects \ {"recv_io_context"}
    \/ op \in {"s2n_stuffer_free", "s2n_stuffer_wipe"} /\ f \in Stuffers
    \/ op = "s2n_stuffer_resize" /\ f \in Buffers
    \/ op = "s2n_stuffer_growable_alloc" /\ f \in Stuffers /\ ~Filled(c)
After(op, old, new) ==
    /\ op \in Freeing => ~Filled(new)
    /\ op = "s2n_stuffer_wipe" => Wiped(old, new)
    /\ op = "s2n_stuffer_resize" => Resized(old, new, 0)
    /\ op = "s2n_stuffer_growable_alloc" => new = NewStuffer
EachDone(s, t, op, f, A) ==
    /\ f \in Fields /\ Served(s, t, f, A)
    /\ t.ok => After(op, s.c[f], t.c[f])
    /\ s.m.init /\ op \in Sure => t.ok
    /\ ~s.m.init /\ op = "s2n_free" => ~t.ok

\* One of the calls of Each.
LEMMA EachCall ==
    ASSUME NEW s, NEW A, Owned(s, A), s.ok, NEW op, NEW f, Suits(op, f, s.c[f])
    PROVE  EachDone(s, Do(s, Call(op, f, 0)), op, f, A)
  <1> DEFINE t == Do(s, Call(op, f, 0))
  <1>1. CASE op = "s2n_free" /\ f \in Blobs
    <2>1. f \in Fields /\ s.c[f] \in CellType /\ ~Filled(NoBlob(s.c[f])) BY <1>1, FieldKinds, Typed, NoBlobCell
    <2>2. t = s2n_free(s, f) BY <1>1, DoIs
    <2>3. Served(s, t, f, A) /\ (s.m.init => t.ok /\ t.c[f] = NoBlob(s.c[f])) /\ (~s.m.init => t = Fail(s))
      BY <1>1, <2>2, FreeServed
    <2> HIDE DEF t
    <2>4. EachDone(s, t, op, f, A) BY <1>1, <2>1, <2>3, Failed DEF EachDone, After
    <2> QED BY <2>4 DEF t
  <1>2. CASE op = "s2n_blob_zeroize_free" /\ f \in Blobs
    <2>1. f \in Fields BY <1>2, FieldKinds
    <2>2. t = s2n_blob_zeroize_free(s, f) BY <1>2, DoIs
    <2>3. Served(s, t, f, A) /\ (s.m.init => t.ok = s.ok) /\ (t = Fail(s) \/ ~Filled(t.c[f]))
      BY <1>2, <2>2, ZeroizeServed
    <2> HIDE DEF t
    <2>4. EachDone(s, t, op, f, A) BY <1>2, <2>1, <2>3, Failed DEF EachDone, After
    <2> QED BY <2>4 DEF t
  <1>3. CASE op = "s2n_free_object" /\ f \in Objects \ {"recv_io_context"}
    <2>1. f \in Fields /\ s.c[f].data # UserBlock BY <1>3, ObjectIsNotUsers
    <2>2. t = s2n_free_object(s, f) BY <1>3, DoIs
    <2>3. Served(s, t, f, A) /\ (s.m.init => t.ok = s.ok) /\ (t = Fail(s) \/ t.c[f].data = NoBlock)
      BY <1>3, <2>1, <2>2, FreeObjectServed
    <2> HIDE DEF t
    <2>5. t = Fail(s) \/ ~Filled(t.c[f]) BY <2>3, BlockIsOurs DEF Filled
    <2>4. EachDone(s, t, op, f, A) BY <1>3, <2>1, <2>3, <2>5, Failed DEF EachDone, After
    <2> QED BY <2>4 DEF t
  <1>4. CASE op = "s2n_stuffer_free" /\ f \in Stuffers
    <2>1. f \in Fields BY <1>4, FieldKinds
    <2>2. t = s2n_stuffer_free(s, f) BY <1>4, DoStufferIs
    <2>3. Served(s, t, f, A) /\ (s.m.init => t.ok) /\ (t.ok => t.c[f] = Empty)
      BY <1>4, <2>2, StufferFreeServed
    <2> HIDE DEF t
    <2>4. EachDone(s, t, op, f, A) BY <1>4, <2>1, <2>3, EmptyCell DEF EachDone, After
    <2> QED BY <2>4 DEF t
  <1>5. CASE op = "s2n_stuffer_wipe" /\ f \in Stuffers
    <2>1. f \in Fields BY <1>5, FieldKinds
    <2>2. t = s2n_stuffer_wipe(s, f) BY <1>5, DoStufferIs
    <2>3. Served(s, t, f, A) /\ t.ok = s.ok /\ Wiped(s.c[f], t.c[f]) BY <1>5, <2>2, WipeServed
    <2> HIDE DEF t
    <2>4. EachDone(s, t, op, f, A) BY <1>5, <2>1, <2>3 DEF EachDone, After, Freeing
    <2> QED BY <2>4 DEF t
  <1>6. CASE op = "s2n_stuffer_resize" /\ f \in Buffers
    <2>1. f \in Fields BY <1>6, FieldKinds DEF Buffers
    <2>2. t = s2n_stuffer_resize(s, f, 0) BY <1>6, DoStufferIs
    <2>3. Served(s, t, f, A) /\ (t.ok => Resized(s.c[f], t.c[f], 0)) BY <1>6, <2>2, ResizeServed
    <2> HIDE DEF t
    <2>4. EachDone(s, t, op, f, A) BY <1>6, <2>1, <2>3 DEF EachDone, After, Freeing, Sure
    <2> QED BY <2>4 DEF t
  <1>7. CASE op = "s2n_stuffer_growable_alloc" /\ f \in Stuffers /\ ~Filled(s.c[f])
    <2>1. f \in Fields BY <1>7, FieldKinds
    <2>2. t = s2n_stuffer_growable_alloc(s, f, 0) BY <1>7, DoStufferIs
    <2>3. Served(s, t, f, A) /\ (s.m.init => t.ok) /\ (t.ok => t.c[f] = NewStuffer)
      BY <1>7, <2>2, GrowableAllocServed
    <2> HIDE DEF t
    <2>4. EachDone(s, t, op, f, A) BY <1>7, <2>1, <2>3 DEF EachDone, After, Freeing
    <2> QED BY <2>4 DEF t
  <1> QED BY <1>1, <1>2, <1>3, <1>4, <1>5, <1>6, <1>7 DEF Suits

(***************************************************************************)
(* Each: every cell is served, in turn, and none is served twice.          *)
(***************************************************************************)
Distinct(fields) == \A i, j \in 1..Len(fields) : fields[i] = fields[j] => i = j
UpTo(fields, k) == {fields[j] : j \in 1..k}
Among(fields) == UpTo(fields, Len(fields))
EachServed(s, t, op, fields, k, A) ==
    /\ Between(s, t, A, UpTo(fields, k))
    /\ t.ok => \A j \in 1..k : After(op, s.c[fields[j]], t.c[fields[j]])
    /\ s.ok /\ s.m.init /\ op \in Sure => t.ok
    /\ ~s.m.init /\ op = "s2n_free" /\ k > 0 => ~t.ok

\* The next of the calls of Each.
LEMMA EachStep ==
    ASSUME NEW s, NEW t, NEW u, NEW A, Owned(s, A), NEW op, NEW fields, Len(fields) \in Nat, Distinct(fields),
           NEW k \in Nat, k + 1 <= Len(fields), Suits(op, fields[k + 1], s.c[fields[k + 1]]),
           \A j \in 1..Len(fields) : fields[j] \in Fields,
           EachServed(s, t, op, fields, k, A), u = Do(t, Call(op, fields[k + 1], 0))
    PROVE  EachServed(s, u, op, fields, k + 1, A)
  <1> DEFINE f == fields[k + 1]
  <1>0. /\ k + 1 \in 1..Len(fields) /\ f \in Fields
        /\ \A j \in 1..k : j \in 1..Len(fields) /\ j # k + 1 /\ fields[j] \in Fields
        /\ \A j \in 1..(k + 1) : j \in 1..k \/ j = k + 1
    OBVIOUS
  <1>1. f \notin UpTo(fields, k) /\ \A j \in 1..k : fields[j] # f BY <1>0 DEF UpTo, Distinct
  <1>2. t.c[f] = s.c[f] /\ Owned(t, A) /\ t.m.init = s.m.init BY <1>0, <1>1 DEF EachServed, Between
  <1>3. CASE ~t.ok
    <2>1. u = t BY <1>3 DEF Do
    <2>2. UpTo(fields, k) \subseteq UpTo(fields, k + 1) BY <1>0 DEF UpTo
    <2>3. Between(s, t, A, UpTo(fields, k + 1)) BY <2>2, BetweenMore DEF EachServed
    <2> QED BY <1>3, <2>1, <2>3 DEF EachServed
  <1>4. CASE t.ok
    <2>1. Suits(op, f, t.c[f]) BY <1>2
    <2>2. EachDone(t, u, op, f, A) BY <1>2, <1>4, <2>1, EachCall
    <2> HIDE DEF f
    <2>3. Between(t, u, A, {f}) BY <1>4, <2>2, BetweenServed DEF EachDone
    <2>4. Between(s, u, A, UpTo(fields, k) \cup {f}) BY <2>3, BetweenBetween DEF EachServed
    <2>5. UpTo(fields, k) \cup {f} \subseteq UpTo(fields, k + 1) BY <1>0 DEF UpTo, f
    <2>6. Between(s, u, A, UpTo(fields, k + 1)) BY <2>4, <2>5, BetweenMore
    <2>7. \A j \in 1..k : u.c[fields[j]] = t.c[fields[j]] BY <1>0, <1>1, <2>3 DEF Between
    <2>8. u.ok => \A j \in 1..k : After(op, s.c[fields[j]], u.c[fields[j]]) BY <1>4, <2>7 DEF EachServed
    <2>9. u.ok => After(op, s.c[f], u.c[f]) BY <1>2, <2>2 DEF EachDone
    <2>10. u.ok => \A j \in 1..(k + 1) : After(op, s.c[fields[j]], u.c[fields[j]]) BY <1>0, <2>8, <2>9 DEF f
    <2>11. (s.ok /\ s.m.init /\ op \in Sure => u.ok) /\ (~s.m.init /\ op = "s2n_free" => ~u.ok)
      BY <1>2, <2>2 DEF EachDone
    <2> QED BY <2>6, <2>10, <2>11 DEF EachServed
  <1> QED BY <1>3, <1>4

\* All of them.
LEMMA EachAll ==
    ASSUME NEW s, NEW A, Owned(s, A), NEW op \in Ops, NEW fields \in Seq(Fields), Distinct(fields),
           \A j \in 1..Len(fields) : Suits(op, fields[j], s.c[fields[j]])
    PROVE  EachServed(s, RunAll(s, Each(op, fields)), op, fields, Len(fields), A)
  <1> DEFINE n == Len(fields)
             c == Each(op, fields)
  <1>0. n \in Nat /\ Len(c) = n /\ \A j \in 1..n : c[j] = Call(op, fields[j], 0) /\ fields[j] \in Fields BY DEF Each
  <1>1. PICK a : IsRun(a, s, c, n) /\ RunAll(s, c) = a[n] BY <1>0, RunIs
  <1> HIDE DEF c
  <1>2. a[0] = s /\ \A i \in 1..n : a[i] = Do(a[i - 1], c[i]) BY <1>0, <1>1, RunAt
  <1> DEFINE S == {k \in Nat : k <= n => EachServed(s, a[k], op, fields, k, A)}
  <1>3. 0 \in S
    <2>1. Between(s, s, A, UpTo(fields, 0)) BY BetweenItself
    <2>2. EachServed(s, s, op, fields, 0, A) BY <2>1 DEF EachServed
    <2> QED BY <1>2, <2>2
  <1>4. ASSUME NEW k \in Nat, k \in S PROVE k + 1 \in S
    <2> SUFFICES ASSUME k + 1 <= n PROVE EachServed(s, a[k + 1], op, fields, k + 1, A) OBVIOUS
    <2>1. k + 1 \in 1..n /\ (k + 1) - 1 = k /\ EachServed(s, a[k], op, fields, k, A) BY <1>0, <1>4
    <2>2. a[k + 1] = Do(a[(k + 1) - 1], c[k + 1]) BY <1>2, <2>1
    <2>3. a[k + 1] = Do(a[k], Call(op, fields[k + 1], 0)) BY <1>0, <2>1, <2>2
    <2>4. Suits(op, fields[k + 1], s.c[fields[k + 1]]) BY <2>1
    <2> QED BY <1>0, <2>1, <2>3, <2>4, EachStep
  <1> HIDE DEF S
  <1>5. Nat \subseteq S BY <1>3, <1>4, SetInduction
  <1>6. EachServed(s, a[n], op, fields, n, A) BY <1>0, <1>5 DEF S
  <1> QED BY <1>1, <1>6 DEF c

\* Each is a sequence of calls.
LEMMA EachIsCalls ==
    ASSUME NEW op \in Ops, NEW fields \in Seq(Fields)
    PROVE  Each(op, fields) \in Seq(Calls)
  <1> DEFINE n == Len(fields)
             V(i) == Call(op, fields[i], 0)
  <1>1. n \in Nat OBVIOUS
  <1>2. \A i \in 1..n : V(i) \in Calls
    <2> SUFFICES ASSUME NEW i \in 1..n PROVE V(i) \in Calls OBVIOUS
    <2>1. fields[i] \in Fields OBVIOUS
    <2> QED BY <2>1 DEF Call, Calls
  <1>3. Each(op, fields) = [i \in 1..n |-> V(i)] BY DEF Each
  <1> HIDE DEF n, V
  <1>4. [i \in 1..n |-> V(i)] \in Seq(Calls) BY <1>1, <1>2
  <1> QED BY <1>3, <1>4

-----------------------------------------------------------------------------
(***************************************************************************)
(* The lists of fields that the functions of the code go through.          *)
(***************************************************************************)
FieldList(fields, F) == fields \in Seq(Fields) /\ Distinct(fields) /\ F = Among(fields) /\ Len(fields) > 0
GroupServed(s, t, op, F, A) ==
    /\ Between(s, t, A, F)
    /\ t.ok => \A f \in F : After(op, s.c[f], t.c[f])
    /\ s.ok /\ s.m.init /\ op \in Sure => t.ok
    /\ ~s.m.init /\ op = "s2n_free" => ~t.ok

\* The calls of Each, by the set of their fields.
LEMMA EachGroup ==
    ASSUME NEW s, NEW A, Owned(s, A), NEW op \in Ops, NEW fields, NEW F, FieldList(fields, F),
           \A f \in F : Suits(op, f, s.c[f])
    PROVE  GroupServed(s, RunAll(s, Each(op, fields)), op, F, A) /\ Each(op, fields) \in Seq(Calls)
  <1> DEFINE t == RunAll(s, Each(op, fields))
  <1>1. fields \in Seq(Fields) /\ Distinct(fields) /\ F = UpTo(fields, Len(fields)) /\ Len(fields) > 0
    BY DEF FieldList, Among
  <1>2. \A j \in 1..Len(fields) : fields[j] \in F BY <1>1 DEF UpTo
  <1>3. EachServed(s, t, op, fields, Len(fields), A) BY <1>1, <1>2, EachAll
  <1> HIDE DEF t
  <1>4. \A f \in F : \E j \in 1..Len(fields) : f = fields[j] BY <1>1 DEF UpTo
  <1>5. GroupServed(s, t, op, F, A) BY <1>1, <1>3, <1>4 DEF EachServed, GroupServed
  <1> QED BY <1>1, <1>5, EachIsCalls DEF t

\* Lists of different fields, by their length.
LEMMA List1 ==
    ASSUME NEW a \in Fields
    PROVE  FieldList(<<a>>, {a})
  <1> DEFINE l == <<a>>
  <1>1. l \in Seq(Fields) /\ Len(l) = 1 OBVIOUS
  <1>2. l[1] = a OBVIOUS
  <1> HIDE DEF l
  <1>3. Distinct(l) BY <1>1, <1>2 DEF Distinct
  <1>4. {a} = Among(l) BY <1>1, <1>2 DEF Among, UpTo
  <1>5. FieldList(l, {a}) BY <1>1, <1>3, <1>4 DEF FieldList
  <1> QED BY <1>5 DEF l

LEMMA List2 ==
    ASSUME NEW a \in Fields, NEW b \in Fields, a # b
    PROVE  FieldList(<<a, b>>, {a, b})
  <1> DEFINE l == <<a, b>>
  <1>1. l \in Seq(Fields) /\ Len(l) = 2 OBVIOUS
  <1>2. l[1] = a /\ l[2] = b OBVIOUS
  <1> HIDE DEF l
  <1>3. Distinct(l) BY <1>1, <1>2 DEF Distinct
  <1>4. {a, b} = Among(l) BY <1>1, <1>2 DEF Among, UpTo
  <1>5. FieldList(l, {a, b}) BY <1>1, <1>3, <1>4 DEF FieldList
  <1> QED BY <1>5 DEF l

LEMMA List3 ==
    ASSUME NEW a \in Fields, NEW b \in Fields, NEW c \in Fields, a # b, a # c, b # c
    PROVE  FieldList(<<a, b, c>>, {a, b, c})
  <1> DEFINE l == <<a, b, c>>
  <1>1. l \in Seq(Fields) /\ Len(l) = 3 OBVIOUS
  <1>2. l[1] = a /\ l[2] = b /\ l[3] = c OBVIOUS
  <1> HIDE DEF l
  <1>3. Distinct(l) BY <1>1, <1>2 DEF Distinct
  <1>4. {a, b, c} = Among(l) BY <1>1, <1>2 DEF Among, UpTo
  <1>5. FieldList(l, {a, b, c}) BY <1>1, <1>3, <1>4 DEF FieldList
  <1> QED BY <1>5 DEF l

LEMMA List4 ==
    ASSUME NEW a \in Fields, NEW b \in Fields, NEW c \in Fields, NEW d \in Fields, a # b, a # c, a # d, b # c, b # d,
           c # d
    PROVE  FieldList(<<a, b, c, d>>, {a, b, c, d})
  <1> DEFINE l == <<a, b, c, d>>
  <1>1. l \in Seq(Fields) /\ Len(l) = 4 OBVIOUS
  <1>2. l[1] = a /\ l[2] = b /\ l[3] = c /\ l[4] = d OBVIOUS
  <1> HIDE DEF l
  <1>3. Distinct(l) BY <1>1, <1>2 DEF Distinct
  <1>4. {a, b, c, d} = Among(l) BY <1>1, <1>2 DEF Among, UpTo
  <1>5. FieldList(l, {a, b, c, d}) BY <1>1, <1>3, <1>4 DEF FieldList
  <1> QED BY <1>5 DEF l

LEMMA List6 ==
    ASSUME NEW a \in Fields, NEW b \in Fields, NEW c \in Fields, NEW d \in Fields, NEW e \in Fields,
           NEW f \in Fields, a # b, a # c, a # d, a # e, a # f, b # c, b # d, b # e, b # f, c # d, c # e, c # f,
           d # e, d # f, e # f
    PROVE  FieldList(<<a, b, c, d, e, f>>, {a, b, c, d, e, f})
  <1> DEFINE l == <<a, b, c, d, e, f>>
  <1>1. l \in Seq(Fields) /\ Len(l) = 6 OBVIOUS
  <1>2. l[1] = a /\ l[2] = b /\ l[3] = c /\ l[4] = d /\ l[5] = e /\ l[6] = f OBVIOUS
  <1> HIDE DEF l
  <1>3. Distinct(l) BY <1>1, <1>2 DEF Distinct
  <1>4. {a, b, c, d, e, f} = Among(l) BY <1>1, <1>2 DEF Among, UpTo
  <1>5. FieldList(l, {a, b, c, d, e, f}) BY <1>1, <1>3, <1>4 DEF FieldList
  <1> QED BY <1>5 DEF l

LEMMA List7 ==
    ASSUME NEW a \in Fields, NEW b \in Fields, NEW c \in Fields, NEW d \in Fields, NEW e \in Fields,
           NEW f \in Fields, NEW g \in Fields, a # b, a # c, a # d, a # e, a # f, a # g, b # c, b # d, b # e, b # f,
           b # g, c # d, c # e, c # f, c # g, d # e, d # f, d # g, e # f, e # g, f # g
    PROVE  FieldList(<<a, b, c, d, e, f, g>>, {a, b, c, d, e, f, g})
  <1> DEFINE l == <<a, b, c, d, e, f, g>>
  <1>1. l \in Seq(Fields) /\ Len(l) = 7 OBVIOUS
  <1>2. l[1] = a /\ l[2] = b /\ l[3] = c /\ l[4] = d /\ l[5] = e /\ l[6] = f /\ l[7] = g OBVIOUS
  <1> HIDE DEF l
  <1>3. Distinct(l) BY <1>1, <1>2 DEF Distinct
  <1>4. {a, b, c, d, e, f, g} = Among(l) BY <1>1, <1>2 DEF Among, UpTo
  <1>5. FieldList(l, {a, b, c, d, e, f, g}) BY <1>1, <1>3, <1>4 DEF FieldList
  <1> QED BY <1>5 DEF l

\* The lists the code goes through name no field twice.
LEMMA Lists ==
    /\ FieldList(<<"server_public_key", "client_public_key", "dh_params", "keyshare">>,
                 {"server_public_key", "client_public_key", "dh_params", "keyshare"})
    /\ FieldList(<<"kem_private_key", "kem_public_key", "kem_shared_secret">>,
                 {"kem_private_key", "kem_public_key", "kem_shared_secret"})
    /\ FieldList(<<"client_cert_chain", "ct_response">>,
                 {"client_cert_chain", "ct_response"})
    /\ FieldList(<<"psk_identity", "psk_secret", "psk_list">>,
                 {"psk_identity", "psk_secret", "psk_list"})
    /\ FieldList(<<"handshake_io", "raw_message", "in", "out">>,
                 {"handshake_io", "raw_message", "in", "out"})
    /\ FieldList(<<"client_ticket", "status_response", "application_protocols_overridden",
           "our_quic_transport_parameters", "peer_quic_transport_parameters", "server_early_data_context",
           "session_secret">>,
                 {"client_ticket", "status_response", "application_protocols_overridden",
                        "our_quic_transport_parameters", "peer_quic_transport_parameters",
                        "server_early_data_context", "session_secret"})
    /\ FieldList(<<"raw_message", "in", "out">>,
                 {"raw_message", "in", "out"})
    /\ FieldList(<<"out", "in", "handshake_io", "raw_message">>,
                 {"out", "in", "handshake_io", "raw_message"})
    /\ FieldList(<<"cookie_stuffer">>,
                 {"cookie_stuffer"})
    /\ FieldList(<<"keys">>,
                 {"keys"})
    /\ FieldList(<<"prf_space", "hashes", "hmacs">>,
                 {"prf_space", "hashes", "hmacs"})
    /\ FieldList(<<"client_ticket", "status_response", "our_quic_transport_parameters",
           "peer_quic_transport_parameters", "server_early_data_context", "session_secret">>,
                 {"client_ticket", "status_response", "our_quic_transport_parameters",
                        "peer_quic_transport_parameters", "server_early_data_context", "session_secret"})
    /\ FieldList(<<"in", "out", "handshake_io", "raw_message">>,
                 {"in", "out", "handshake_io", "raw_message"})
    /\ FieldList(<<"application_protocols_overridden">>,
                 {"application_protocols_overridden"})
    /\ FieldList(<<"self">>,
                 {"self"})
    /\ FieldList(<<"hashes", "prf_space">>,
                 {"hashes", "prf_space"})
    /\ FieldList(<<"handshake_io", "raw_message">>,
                 {"handshake_io", "raw_message"})
    /\ FieldList(<<"client_ticket", "status_response", "our_quic_transport_parameters",
           "application_protocols_overridden">>,
                 {"client_ticket", "status_response", "our_quic_transport_parameters",
                        "application_protocols_overridden"})
  <1>1. FieldList(<<"server_public_key", "client_public_key", "dh_params", "keyshare">>, {"server_public_key",
         "client_public_key", "dh_params", "keyshare"})
    BY List4 DEF Fields, Pointers, Library, Blobs, Stuffers
  <1>2. FieldList(<<"kem_private_key", "kem_public_key", "kem_shared_secret">>, {"kem_private_key", "kem_public_key",
         "kem_shared_secret"})
    BY List3 DEF Fields, Pointers, Library, Blobs, Stuffers
  <1>3. FieldList(<<"client_cert_chain", "ct_response">>, {"client_cert_chain", "ct_response"})
    BY List2 DEF Fields, Pointers, Library, Blobs, Stuffers
  <1>4. FieldList(<<"psk_identity", "psk_secret", "psk_list">>, {"psk_identity", "psk_secret", "psk_list"})
    BY List3 DEF Fields, Pointers, Library, Blobs, Stuffers
  <1>5. FieldList(<<"handshake_io", "raw_message", "in", "out">>, {"handshake_io", "raw_message", "in", "out"})
    BY List4 DEF Fields, Pointers, Library, Blobs, Stuffers
  <1>6. FieldList(<<"client_ticket", "status_response", "application_protocols_overridden",
         "our_quic_transport_parameters", "peer_quic_transport_parameters", "server_early_data_context",
         "session_secret">>, {"client_ticket", "status_response", "application_protocols_overridden",
         "our_quic_transport_parameters", "peer_quic_transport_parameters", "server_early_data_context",
         "session_secret"})
    BY List7 DEF Fields, Pointers, Library, Blobs, Stuffers
  <1>7. FieldList(<<"raw_message", "in", "out">>, {"raw_message", "in", "out"})
    BY List3 DEF Fields, Pointers, Library, Blobs, Stuffers
  <1>8. FieldList(<<"out", "in", "handshake_io", "raw_message">>, {"out", "in", "handshake_io", "raw_message"})
    BY List4 DEF Fields, Pointers, Library, Blobs, Stuffers
  <1>9. FieldList(<<"cookie_stuffer">>, {"cookie_stuffer"})
    BY List1 DEF Fields, Pointers, Library, Blobs, Stuffers
  <1>10. FieldList(<<"keys">>, {"keys"})
    BY List1 DEF Fields, Pointers, Library, Blobs, Stuffers
  <1>11. FieldList(<<"prf_space", "hashes", "hmacs">>, {"prf_space", "hashes", "hmacs"})
    BY List3 DEF Fields, Pointers, Library, Blobs, Stuffers
  <1>12. FieldList(<<"client_ticket", "status_response", "our_quic_transport_parameters",
         "peer_quic_transport_parameters", "server_early_data_context", "session_secret">>, {"client_ticket",
         "status_response", "our_quic_transport_parameters", "peer_quic_transport_parameters",
         "server_early_data_context", "session_secret"})
    BY List6 DEF Fields, Pointers, Library, Blobs, Stuffers
  <1>13. FieldList(<<"in", "out", "handshake_io", "raw_message">>, {"in", "out", "handshake_io", "raw_message"})
    BY List4 DEF Fields, Pointers, Library, Blobs, Stuffers
  <1>14. FieldList(<<"application_protocols_overridden">>, {"application_protocols_overridden"})
    BY List1 DEF Fields, Pointers, Library, Blobs, Stuffers
  <1>15. FieldList(<<"self">>, {"self"})
    BY List1 DEF Fields, Pointers, Library, Blobs, Stuffers
  <1>16. FieldList(<<"hashes", "prf_space">>, {"hashes", "prf_space"})
    BY List2 DEF Fields, Pointers, Library, Blobs, Stuffers
  <1>17. FieldList(<<"handshake_io", "raw_message">>, {"handshake_io", "raw_message"})
    BY List2 DEF Fields, Pointers, Library, Blobs, Stuffers
  <1>18. FieldList(<<"client_ticket", "status_response", "our_quic_transport_parameters",
         "application_protocols_overridden">>, {"client_ticket", "status_response", "our_quic_transport_parameters",
         "application_protocols_overridden"})
    BY List4 DEF Fields, Pointers, Library, Blobs, Stuffers
  <1> QED
    BY <1>1, <1>2, <1>3, <1>4, <1>5, <1>6, <1>7, <1>8, <1>9, <1>10, <1>11, <1>12, <1>13, <1>14, <1>15, <1>16, <1>17,
           <1>18

-----------------------------------------------------------------------------
(***************************************************************************)
(* Sequences of calls that free what they name.                            *)
(***************************************************************************)
Clears(s, t, F, A) ==
    /\ Between(s, t, A, F)
    /\ t.ok => \A f \in F : ~Filled(t.c[f])
    /\ s.ok /\ s.m.init => t.ok

\* A call is a sequence of calls.
LEMMA OneCall ==
    ASSUME NEW op \in Ops, NEW f \in Fields, NEW n \in Nat
    PROVE  <<Call(op, f, n)>> \in Seq(Calls)
  <1> DEFINE x == Call(op, f, n)
  <1>1. x \in Calls BY DEF Call, Calls
  <1> HIDE DEF x
  <1>2. <<x>> \in Seq(Calls) BY <1>1
  <1> QED BY <1>2 DEF x

\* Sequences of calls make one.
LEMMA Joined ==
    ASSUME NEW c \in Seq(Calls), NEW d \in Seq(Calls)
    PROVE  c \o d \in Seq(Calls)
  OBVIOUS

\* Two groups of fields cleared after each other.
LEMMA ClearsBoth ==
    ASSUME NEW s, NEW t, NEW u, NEW F \in SUBSET Fields, NEW G \in SUBSET Fields, NEW A,
           Clears(s, t, F, A), Clears(t, u, G, A)
    PROVE  Clears(s, u, F \cup G, A)
  <1>1. Between(s, u, A, F \cup G) BY BetweenBetween DEF Clears
  <1>2. u.ok => t.ok /\ \A f \in F \cup G : ~Filled(u.c[f]) BY DEF Clears, Between
  <1>3. s.ok /\ s.m.init => u.ok BY DEF Clears, Between
  <1> QED BY <1>1, <1>2, <1>3 DEF Clears

\* A freeing call for each field of a list.
LEMMA EachClears ==
    ASSUME NEW s, NEW A, Owned(s, A), NEW op \in Freeing, NEW fields, NEW F, FieldList(fields, F),
           \A f \in F : \A c : Suits(op, f, c)
    PROVE  /\ Clears(s, RunAll(s, Each(op, fields)), F, A) /\ Each(op, fields) \in Seq(Calls)
           /\ ~s.m.init /\ op = "s2n_free" => ~RunAll(s, Each(op, fields)).ok
  <1>0. \A x \in Freeing : x \in Ops BY DEF Freeing, Ops
  <1>1. op \in Ops /\ op \in Sure BY <1>0 DEF Sure
  <1> DEFINE t == RunAll(s, Each(op, fields))
  <1>2. GroupServed(s, t, op, F, A) /\ Each(op, fields) \in Seq(Calls) BY <1>1, EachGroup
  <1> HIDE DEF t
  <1>3. Clears(s, t, F, A) /\ (~s.m.init /\ op = "s2n_free" => ~t.ok)
    BY <1>1, <1>2 DEF GroupServed, Clears, After
  <1> QED BY <1>2, <1>3 DEF t

\* A sequence that clears F, and then a list of fields.
Cleared(s, c, F, A) == c \in Seq(Calls) /\ F \subseteq Fields /\ Clears(s, RunAll(s, c), F, A)
\* One list more is cleared.
LEMMA ThenEach ==
    ASSUME NEW s, NEW A, NEW c, NEW F, Cleared(s, c, F, A), NEW op \in Freeing, NEW fields, NEW G,
           FieldList(fields, G), \A f \in G : \A x : Suits(op, f, x)
    PROVE  Cleared(s, c \o Each(op, fields), F \cup G, A)
  <1> DEFINE t == RunAll(s, c)
             d == Each(op, fields)
             u == RunAll(t, d)
  <1>1. c \in Seq(Calls) /\ F \in SUBSET Fields /\ Clears(s, t, F, A) /\ Owned(t, A)
    BY DEF Cleared, Clears, Between
  <1>2. G \in SUBSET Fields BY DEF FieldList, Among, UpTo
  <1> HIDE DEF t
  <1>3. Clears(t, u, G, A) /\ d \in Seq(Calls) BY <1>1, EachClears
  <1> HIDE DEF u, d
  <1>4. RunAll(s, c \o d) = u BY <1>1, <1>3, RunBoth DEF t, u
  <1>5. Clears(s, u, F \cup G, A) BY <1>1, <1>2, <1>3, ClearsBoth
  <1>6. c \o d \in Seq(Calls) BY <1>1, <1>3, Joined
  <1>7. Cleared(s, c \o d, F \cup G, A) BY <1>1, <1>2, <1>4, <1>5, <1>6 DEF Cleared
  <1> QED BY <1>7 DEF d

Keys1 == {"server_public_key", "client_public_key", "dh_params", "keyshare"}
Keys2 == {"kem_private_key", "kem_public_key", "kem_shared_secret"}
Keys3 == {"client_cert_chain", "ct_response"}
KeyCells == (Keys1 \cup Keys2) \cup Keys3

\* The calls that suit a kind of field whatever its cell is.
LEMMA AlwaysSuits ==
    /\ \A f \in Blobs : \A c : Suits("s2n_free", f, c) /\ Suits("s2n_blob_zeroize_free", f, c)
    /\ \A f \in Objects \ {"recv_io_context"} : \A c : Suits("s2n_free_object", f, c)
    /\ \A f \in Stuffers : \A c : Suits("s2n_stuffer_free", f, c) /\ Suits("s2n_stuffer_wipe", f, c)
    /\ \A f \in Buffers : \A c : Suits("s2n_stuffer_resize", f, c)
    /\ {"s2n_free", "s2n_free_object", "s2n_blob_zeroize_free", "s2n_stuffer_free"} \subseteq Freeing
  BY DEF Suits, Freeing

\* s2n_connection_wipe_keys.
LEMMA WipeKeysServed ==
    ASSUME NEW s, NEW A, Owned(s, A)
    PROVE  /\ Cleared(s, s2n_connection_wipe_keys, KeyCells, A)
           /\ ~s.m.init => ~RunAll(s, s2n_connection_wipe_keys).ok
  <1> DEFINE l1 == <<"server_public_key", "client_public_key", "dh_params", "keyshare">>
             l2 == <<"kem_private_key", "kem_public_key", "kem_shared_secret">>
             l3 == <<"client_cert_chain", "ct_response">>
             c1 == Each("s2n_free_object", l1)
             c2 == Each("s2n_blob_zeroize_free", l2)
             c3 == Each("s2n_free", l3)
  <1>1. FieldList(l1, Keys1) /\ FieldList(l2, Keys2) /\ FieldList(l3, Keys3) BY Lists DEF Keys1, Keys2, Keys3
  <1>2. /\ \A f \in Keys1 : \A c : Suits("s2n_free_object", f, c)
        /\ \A f \in Keys2 : \A c : Suits("s2n_blob_zeroize_free", f, c)
        /\ \A f \in Keys3 : \A c : Suits("s2n_free", f, c)
    <2>1. Keys1 \subseteq Objects \ {"recv_io_context"} BY DEF Keys1, Objects, Library
    <2>2. Keys2 \subseteq Blobs /\ Keys3 \subseteq Blobs BY DEF Keys2, Keys3, Blobs
    <2> QED BY <2>1, <2>2, AlwaysSuits
  <1>3. s2n_connection_wipe_keys = (c1 \o c2) \o c3 BY DEF s2n_connection_wipe_keys
  <1>4. "s2n_free" \in Freeing /\ "s2n_free_object" \in Freeing /\ "s2n_blob_zeroize_free" \in Freeing BY DEF Freeing
  <1> HIDE DEF l1, l2, l3
  <1>5. Cleared(s, c1, Keys1, A)
    <2>1. Keys1 \subseteq Fields BY DEF Keys1, Fields, Library
    <2> QED BY <1>1, <1>2, <1>4, <2>1, EachClears DEF Cleared
  <1>6. Cleared(s, c1 \o c2, Keys1 \cup Keys2, A)
    <2> HIDE DEF c1
    <2> QED BY <1>1, <1>2, <1>4, <1>5, ThenEach
  <1> DEFINE c12 == c1 \o c2
             t == RunAll(s, c12)
  <1> HIDE DEF c1, c2, c12
  <1>7. Cleared(s, c12 \o c3, (Keys1 \cup Keys2) \cup Keys3, A) BY <1>1, <1>2, <1>4, <1>6, ThenEach DEF c12
  <1>8. ~s.m.init => ~RunAll(s, c12 \o c3).ok
    <2>1. c12 \in Seq(Calls) /\ Clears(s, t, Keys1 \cup Keys2, A) BY <1>6 DEF Cleared, c12
    <2>2. Owned(t, A) /\ t.m.init = s.m.init BY <2>1 DEF Clears, Between
    <2> HIDE DEF t
    <2>3. c3 \in Seq(Calls) /\ (~t.m.init => ~RunAll(t, c3).ok) BY <1>1, <1>2, <1>4, <2>2, EachClears
    <2> HIDE DEF c3
    <2>4. RunAll(s, c12 \o c3) = RunAll(t, c3) BY <2>1, <2>3, RunBoth DEF t
    <2> QED BY <2>2, <2>3, <2>4
  <1> HIDE DEF c3
  <1>9. s2n_connection_wipe_keys = c12 \o c3 BY <1>3 DEF c12
  <1> QED BY <1>7, <1>8, <1>9 DEF KeyCells

\* s2n_psk_parameters_wipe.
LEMMA PskWipeServed ==
    ASSUME NEW s, NEW A, Owned(s, A)
    PROVE  Cleared(s, s2n_psk_parameters_wipe, PskCells, A)
  <1>1. FieldList(<<"psk_identity", "psk_secret", "psk_list">>, PskCells) BY Lists DEF PskCells
  <1>2. \A f \in PskCells : \A c : Suits("s2n_free", f, c)
    <2>1. PskCells \subseteq Blobs BY DEF PskCells, Blobs
    <2> QED BY <2>1, AlwaysSuits
  <1>3. PskCells \subseteq Fields /\ "s2n_free" \in Freeing BY DEF PskCells, Fields, Blobs, Freeing
  <1>4. s2n_psk_parameters_wipe = Each("s2n_free", <<"psk_identity", "psk_secret", "psk_list">>)
    BY DEF s2n_psk_parameters_wipe
  <1> QED BY <1>1, <1>2, <1>3, <1>4, EachClears DEF Cleared

\* Calls on other cells do not change whose the contexts are.
LEMMA IoKept ==
    ASSUME NEW s, NEW t, NEW A, NEW F, Between(s, t, A, F), F \cap IoContexts = {}, IoOk(s)
    PROVE  IoOk(t)
  <1>1. "send_io_context" \in Fields \ F /\ "recv_io_context" \in Fields \ F BY FieldKinds DEF IoContexts
  <1>2. t.c["send_io_context"] = s.c["send_io_context"] /\ t.c["recv_io_context"] = s.c["recv_io_context"]
    BY <1>1 DEF Between
  <1>3. t.managed_io = s.managed_io BY DEF Between
  <1> QED BY <1>2, <1>3 DEF IoOk

\* s2n_connection_wipe_io.
LEMMA WipeIoServed ==
    ASSUME NEW s, NEW A, Owned(s, A), IoOk(s)
    PROVE  LET t == RunAll(s, s2n_connection_wipe_io) IN
           Cleared(s, s2n_connection_wipe_io, IoContexts, A) /\ IoOk(t)
  <1> DEFINE t == RunAll(s, s2n_connection_wipe_io)
             x == Call("free_io_contexts", "self", 0)
  <1>1. s2n_connection_wipe_io \in Seq(Calls)
    <2>1. "self" \in Fields BY DEF Fields, Pointers
    <2>2. "free_io_contexts" \in Ops /\ 0 \in Nat BY DEF Ops
    <2>3. <<x>> \in Seq(Calls) BY <2>1, <2>2, OneCall
    <2> QED BY <2>3 DEF s2n_connection_wipe_io
  <1>2. t = Do(s, x) BY RunOne DEF s2n_connection_wipe_io
  <1>3. IoContexts \subseteq Fields BY FieldKinds DEF IoContexts
  <1>4. Clears(s, t, IoContexts, A) /\ IoOk(t)
    <2>1. CASE s.ok
      <3>1. t = FreeIoContexts(s) BY <1>2, <2>1, DoConnectionIs
      <3>2. /\ Between(s, t, A, IoContexts) /\ IoOk(t) /\ (s.m.init => t.ok)
            /\ t.ok => \A f \in IoContexts : ~Filled(t.c[f])
        BY <2>1, <3>1, FreeIoServed
      <3> HIDE DEF t
      <3> QED BY <3>2 DEF Clears
    <2>2. CASE ~s.ok
      <3>1. t = s BY <1>1, <2>2, RunSkipped
      <3> HIDE DEF t
      <3> QED BY <2>2, <3>1, BetweenItself DEF Clears
    <2> QED BY <2>1, <2>2
  <1> QED BY <1>1, <1>3, <1>4 DEF Cleared

-----------------------------------------------------------------------------
(***************************************************************************)
(* What a cell of a new connection is.                                     *)
(***************************************************************************)
AsNew(f, c) == Shape(c) = Shape(FreshCell(f)) /\ (Held(f) <=> c.data # NoBlock)

\* Cells that differ in their blocks at most.
LEMMA ShapesEqual ==
    ASSUME NEW c \in CellType, NEW d \in CellType, c.size = d.size, c.growable = d.growable, c.alloced = d.alloced,
           c.sgrowable = d.sgrowable, c.tainted = d.tainted, c.r = d.r, c.w = d.w
    PROVE  Shape(c) = Shape(d)
  BY DEF Shape, CellType

\* An object that is there is as in a new connection.
LEMMA ObjectAsNew ==
    ASSUME NEW f \in {"self", "hashes", "prf_space", "keys", "hmacs"}, NEW c \in CellType, CellOk(f, c), Filled(c)
    PROVE  AsNew(f, c)
  <1> DEFINE p == PagesOf(f)
             e == [Empty EXCEPT !.data = c.data, !.size = p, !.room = p, !.growable = TRUE]
             d == FreshCell(f)
  <1>1. f \in Objects /\ Held(f) /\ p \in Nat BY DEF Objects, Pointers, Library, Held, PagesOf
  <1>2. c = e /\ c.data \in Block /\ c.data # NoBlock BY <1>1, BlockIsOurs DEF CellOk, ObjectOk, Filled
  <1>3. /\ d \in CellType /\ d.size = p /\ d.growable = TRUE /\ d.alloced = FALSE /\ d.sgrowable = FALSE
        /\ d.tainted = FALSE /\ d.r = 0 /\ d.w = 0
    <2>1. CASE f \in {"self", "hashes", "prf_space"}
      <3>1. p = 1 BY <2>1 DEF PagesOf, Pointers
      <3>2. d = [Empty EXCEPT !.size = 1, !.growable = TRUE] BY <2>1 DEF FreshCell
      <3> HIDE DEF d, p
      <3> QED BY <3>1, <3>2 DEF Empty, CellType
    <2>2. CASE f \in {"keys", "hmacs"}
      <3>1. p = 0 BY <2>2 DEF PagesOf, Pointers
      <3>2. d = [Empty EXCEPT !.growable = TRUE] BY <2>2 DEF FreshCell
      <3> HIDE DEF d, p
      <3> QED BY <3>1, <3>2 DEF Empty, CellType
    <2> QED BY <2>1, <2>2
  <1>4. /\ e.size = p /\ e.growable = TRUE /\ e.alloced = FALSE /\ e.sgrowable = FALSE
        /\ e.tainted = FALSE /\ e.r = 0 /\ e.w = 0
    BY DEF Empty
  <1> HIDE DEF d, e, p
  <1>5. Shape(c) = Shape(d) BY <1>2, <1>3, <1>4, ShapesEqual
  <1> QED BY <1>1, <1>2, <1>5 DEF AsNew, d

\* So is a stuffer that was wiped and resized.
LEMMA StufferAsNew ==
    ASSUME NEW f \in {"handshake_io", "in", "out", "raw_message"}, NEW c \in CellType, CellOk(f, c),
           NEW n \in Nat, n = (IF f = "handshake_io" THEN Large ELSE 0),
           NEW o, Resized(o, c, n), o.r = 0, o.w = 0
    PROVE  AsNew(f, c)
  <1> DEFINE d == FreshCell(f)
  <1>1. f \in Stuffers /\ (Held(f) <=> f = "handshake_io") BY DEF Stuffers, Held
  <1>2. c.size = n /\ c.sgrowable /\ ~c.tainted /\ c.r = 0 /\ c.w = 0 BY DEF Resized
  <1>3. c.alloced /\ BlobOk(c) /\ c.data # UserBlock BY <1>1, <1>2 DEF CellOk, StufferOk, BlobOk
  <1>4. c.sgrowable = TRUE /\ c.tainted = FALSE /\ c.alloced = TRUE BY <1>2, <1>3 DEF CellType
  <1>5. CASE f = "handshake_io"
    <2>1. n = 2 BY <1>5 DEF Large
    <2>2. Filled(c) /\ c.growable = TRUE
      <3>1. c.room \in Nat /\ c.room > 0 BY <1>2, <1>3, <2>1 DEF BlobOk, CellType
      <3>2. c.data # NoBlock BY <1>3, <3>1 DEF BlobOk
      <3>3. Filled(c) BY <1>3, <3>2 DEF Filled, CellType
      <3> QED BY <1>3, <3>3 DEF BlobOk, CellType
    <2>3. d = [Empty EXCEPT !.size = Large, !.growable = TRUE, !.alloced = TRUE, !.sgrowable = TRUE]
      BY <1>5 DEF FreshCell
    <2>4. /\ d \in CellType /\ d.size = n /\ d.growable = TRUE /\ d.alloced = TRUE /\ d.sgrowable = TRUE
          /\ d.tainted = FALSE /\ d.r = 0 /\ d.w = 0
      <3> HIDE DEF d
      <3>1. Large \in Nat /\ Large = n BY <2>1 DEF Large
      <3> QED BY <2>3, <3>1 DEF Empty, CellType
    <2> HIDE DEF d
    <2>5. Shape(c) = Shape(d) BY <1>2, <1>4, <2>2, <2>4, ShapesEqual
    <2> QED BY <1>1, <1>5, <2>2, <2>5, BlockIsOurs DEF AsNew, d, Filled
  <1>6. CASE f \in {"in", "out", "raw_message"}
    <2>1. n = 0 BY <1>6
    <2>2. ~Filled(c) BY <1>2, <1>3, <2>1 DEF BlobOk
    <2>3. c.data = NoBlock BY <1>3, <2>2 DEF Filled, CellType
    <2>4. c.growable = FALSE BY <1>3, <2>3 DEF BlobOk, CellType
    <2>5. d = [Empty EXCEPT !.alloced = TRUE, !.sgrowable = TRUE] BY <1>6 DEF FreshCell
    <2>6. /\ d \in CellType /\ d.size = n /\ d.growable = FALSE /\ d.alloced = TRUE /\ d.sgrowable = TRUE
          /\ d.tainted = FALSE /\ d.r = 0 /\ d.w = 0
      <3> HIDE DEF d
      <3> QED BY <2>1, <2>5 DEF Empty, CellType
    <2> HIDE DEF d
    <2>7. Shape(c) = Shape(d) BY <1>2, <1>4, <2>4, <2>6, ShapesEqual
    <2>8. ~Held(f) BY <1>6 DEF Held
    <2> QED BY <2>3, <2>7, <2>8 DEF AsNew, d
  <1> QED BY <1>5, <1>6

\* And a field that was zeroed.
LEMMA OtherAsNew ==
    ASSUME NEW f \in Fields \ Kept
    PROVE  AsNew(f, Empty)
  <1>1. FreshCell(f) = Empty BY DEF FreshCell, Kept
  <1>2. ~Held(f) BY DEF Held, Kept
  <1> QED BY <1>1, <1>2, EmptyCell DEF AsNew

Lasting == {"self", "keys", "hmacs"}
WipeCells == {"handshake_io", "raw_message", "in", "out"}
DataCells == {"client_ticket", "status_response", "application_protocols_overridden",
              "our_quic_transport_parameters", "peer_quic_transport_parameters",
              "server_early_data_context", "session_secret"}
ResizeCells == {"raw_message", "in", "out"}

\* The groups of fields s2n_connection_wipe goes through are all there are.
LEMMA AllCells ==
    /\ Fields \ Kept = (((KeyCells \cup PskCells) \cup IoContexts) \cup DataCells) \cup {"cookie_stuffer"}
    /\ Kept = Lasting \cup {"hashes", "prf_space"} \cup WipeCells
    /\ Kept \subseteq Fields /\ DataCells \subseteq Blobs /\ WipeCells \subseteq Buffers /\ ResizeCells \subseteq Buffers
    /\ KeyCells \subseteq Fields /\ PskCells \subseteq Fields /\ IoContexts \subseteq Fields /\ DataCells \subseteq Fields
    /\ WipeCells \subseteq Stuffers
  BY DEF Fields, Kept, Pointers, Library, Blobs, Stuffers, Buffers, KeyCells, Keys1, Keys2, Keys3, PskCells,
         IoContexts, DataCells, Lasting, WipeCells, ResizeCells

\* One call, on a state that may have failed already.
LEMMA RestoreStep ==
    ASSUME NEW s, NEW A, Owned(s, A), NEW f \in {"hashes", "prf_space"}
    PROVE  LET t == RunAll(s, <<Call("restore", f, 1)>>) IN
           /\ <<Call("restore", f, 1)>> \in Seq(Calls)
           /\ Between(s, t, A, {f}) /\ (t.ok => Filled(t.c[f]))
  <1> DEFINE c == Call("restore", f, 1)
             t == RunAll(s, <<c>>)
  <1>1. f \in Objects /\ f # "recv_io_context" /\ f \in Fields /\ PagesOf(f) = 1
    BY FieldKinds DEF Objects, Pointers, PagesOf
  <1>2. <<c>> \in Seq(Calls)
    <2>1. "restore" \in Ops /\ 1 \in Nat BY DEF Ops
    <2> QED BY <1>1, <2>1, OneCall
  <1>3. t = Do(s, c) BY RunOne
  <1>4. CASE s.ok
    <2>1. t = RestoreObject(s, f, PagesOf(f)) BY <1>1, <1>3, <1>4, DoIs
    <2>2. s.c[f].data # UserBlock BY <1>1, ObjectIsNotUsers
    <2>3. Served(s, t, f, A) /\ (t = Fail(s) \/ (t.ok = s.ok /\ Filled(t.c[f]))) BY <1>1, <2>1, <2>2, RestoreServed
    <2> HIDE DEF t
    <2>4. Between(s, t, A, {f}) /\ (t.ok => Filled(t.c[f])) BY <1>4, <2>3, BetweenServed, Failed
    <2> QED BY <1>2, <2>4 DEF t
  <1>5. CASE ~s.ok
    <2>1. t = s BY <1>2, <1>5, RunSkipped
    <2> HIDE DEF t
    <2>2. Between(s, t, A, {f}) /\ ~t.ok BY <1>5, <2>1, BetweenItself
    <2> QED BY <1>2, <2>2 DEF t
  <1> QED BY <1>4, <1>5

\* A stuffer is resized.
LEMMA ResizeStep ==
    ASSUME NEW s, NEW A, Owned(s, A), NEW f \in Buffers, NEW n \in Nat
    PROVE  LET t == RunAll(s, <<Call("s2n_stuffer_resize", f, n)>>) IN
           /\ <<Call("s2n_stuffer_resize", f, n)>> \in Seq(Calls)
           /\ Between(s, t, A, {f}) /\ (t.ok => Resized(s.c[f], t.c[f], n))
  <1> DEFINE c == Call("s2n_stuffer_resize", f, n)
             t == RunAll(s, <<c>>)
  <1>1. f \in Fields BY FieldKinds DEF Buffers
  <1>2. <<c>> \in Seq(Calls)
    <2>1. "s2n_stuffer_resize" \in Ops BY DEF Ops
    <2> QED BY <1>1, <2>1, OneCall
  <1>3. t = Do(s, c) BY RunOne
  <1>4. CASE s.ok
    <2>1. t = s2n_stuffer_resize(s, f, n) BY <1>3, <1>4, DoStufferIs
    <2>2. Served(s, t, f, A) /\ (t.ok => Resized(s.c[f], t.c[f], n)) BY <1>4, <2>1, ResizeServed
    <2> HIDE DEF t
    <2>3. Between(s, t, A, {f}) BY <1>4, <2>2, BetweenServed
    <2> QED BY <1>2, <2>2, <2>3 DEF t
  <1>5. CASE ~s.ok
    <2>1. t = s BY <1>2, <1>5, RunSkipped
    <2> HIDE DEF t
    <2>2. Between(s, t, A, {f}) /\ ~t.ok BY <1>5, <2>1, BetweenItself
    <2> QED BY <1>2, <2>2 DEF t
  <1> QED BY <1>4, <1>5

-----------------------------------------------------------------------------
(***************************************************************************)
(* s2n_connection_wipe, call by call.                                      *)
(***************************************************************************)
Goes(s, p, t) == p \in Seq(Calls) /\ RunAll(s, p) = t

\* A function that continues.
LEMMA GoesOn ==
    ASSUME NEW s, NEW p, NEW t, Goes(s, p, t), NEW d \in Seq(Calls)
    PROVE  Goes(s, p \o d, RunAll(t, d))
  BY RunBoth, Joined DEF Goes

\* The groups of calls before the last one, and what each does.
WipeGroups(s, a, b, c, d, e, f, g, h, i, A) ==
    /\ Between(s, a, A, {"hashes"}) /\ (a.ok => Filled(a.c["hashes"]))
    /\ Between(a, b, A, {"prf_space"}) /\ (b.ok => Filled(b.c["prf_space"]))
    /\ Clears(b, c, KeyCells, A) /\ (c.ok => b.m.init)
    /\ GroupServed(c, d, "s2n_stuffer_wipe", WipeCells, A)
    /\ Clears(d, e, PskCells, A)
    /\ Clears(e, f, IoContexts, A) /\ (IoOk(e) => IoOk(f))
    /\ Clears(f, g, DataCells, A)
    /\ Between(g, h, A, {"handshake_io"}) /\ (h.ok => Resized(g.c["handshake_io"], h.c["handshake_io"], Large))
    /\ GroupServed(h, i, "s2n_stuffer_resize", ResizeCells, A)

\* s2n_connection_wipe is these groups of calls.
LEMMA WipeIs ==
    ASSUME NEW s, NEW A, Owned(s, A), IoOk(s)
    PROVE  \E a, b, c, d, e, f, g, h, i :
              /\ WipeGroups(s, a, b, c, d, e, f, g, h, i, A)
              /\ s2n_connection_wipe \in Seq(Calls)
              /\ RunAll(s, s2n_connection_wipe) = Do(i, Call("zero", "self", 0))
  <1> DEFINE ca == <<Call("restore", "hashes", 1)>>
             cb == <<Call("restore", "prf_space", 1)>>
             cd == Each("s2n_stuffer_wipe", <<"handshake_io", "raw_message", "in", "out">>)
             cg == Each("s2n_free", <<"client_ticket", "status_response", "application_protocols_overridden",
                          "our_quic_transport_parameters", "peer_quic_transport_parameters",
                          "server_early_data_context", "session_secret">>)
             ch == <<Call("s2n_stuffer_resize", "handshake_io", Large)>>
             ci == Each("s2n_stuffer_resize", <<"raw_message", "in", "out">>)
             cj == <<Call("zero", "self", 0)>>
             a == RunAll(s, ca)
             b == RunAll(a, cb)
             c == RunAll(b, s2n_connection_wipe_keys)
             d == RunAll(c, cd)
             e == RunAll(d, s2n_psk_parameters_wipe)
             f == RunAll(e, s2n_connection_wipe_io)
             g == RunAll(f, cg)
             h == RunAll(g, ch)
             i == RunAll(h, ci)
             j == RunAll(i, cj)
             p2 == ca \o cb
             p3 == p2 \o s2n_connection_wipe_keys
             p4 == p3 \o cd
             p5 == p4 \o s2n_psk_parameters_wipe
             p6 == p5 \o s2n_connection_wipe_io
             p7 == p6 \o cg
             p8 == p7 \o ch
             p9 == p8 \o ci
             p10 == p9 \o cj
  <1>1. s2n_connection_wipe = p10
    <2>1. <<Call("restore", "hashes", 1), Call("restore", "prf_space", 1)>> = ca \o cb OBVIOUS
    <2> QED BY <2>1 DEF s2n_connection_wipe
  <1>2. ca \in Seq(Calls) /\ Between(s, a, A, {"hashes"}) /\ (a.ok => Filled(a.c["hashes"])) BY RestoreStep
  <1> HIDE DEF ca, a
  <1>3. Owned(a, A) BY <1>2 DEF Between
  <1>4. cb \in Seq(Calls) /\ Between(a, b, A, {"prf_space"}) /\ (b.ok => Filled(b.c["prf_space"]))
    BY <1>3, RestoreStep
  <1> HIDE DEF cb, b
  <1>5. Owned(b, A) BY <1>4 DEF Between
  <1>6. s2n_connection_wipe_keys \in Seq(Calls) /\ Clears(b, c, KeyCells, A) /\ (c.ok => b.m.init)
    BY <1>5, WipeKeysServed DEF Cleared
  <1> HIDE DEF c
  <1>7. Owned(c, A) BY <1>6 DEF Clears, Between
  <1>8. cd \in Seq(Calls) /\ GroupServed(c, d, "s2n_stuffer_wipe", WipeCells, A)
    <2>1. FieldList(<<"handshake_io", "raw_message", "in", "out">>, WipeCells) BY Lists DEF WipeCells
    <2>2. \A x \in WipeCells : Suits("s2n_stuffer_wipe", x, c.c[x]) BY AllCells, AlwaysSuits
    <2>3. "s2n_stuffer_wipe" \in Ops BY DEF Ops
    <2> QED BY <1>7, <2>1, <2>2, <2>3, EachGroup
  <1> HIDE DEF cd, d
  <1>9. Owned(d, A) BY <1>8 DEF GroupServed, Between
  <1>10. s2n_psk_parameters_wipe \in Seq(Calls) /\ Clears(d, e, PskCells, A) BY <1>9, PskWipeServed DEF Cleared
  <1> HIDE DEF e
  <1>11. Owned(e, A) BY <1>10 DEF Clears, Between
  <1>12. IoOk(e)
    <2>1. /\ {"hashes"} \cap IoContexts = {} /\ {"prf_space"} \cap IoContexts = {} /\ KeyCells \cap IoContexts = {}
          /\ WipeCells \cap IoContexts = {} /\ PskCells \cap IoContexts = {}
      BY DEF IoContexts, KeyCells, Keys1, Keys2, Keys3, WipeCells, PskCells
    <2>2. IoOk(a) BY <1>2, <2>1, IoKept
    <2>3. IoOk(b) BY <1>4, <2>1, <2>2, IoKept
    <2>4. IoOk(c) BY <1>6, <2>1, <2>3, IoKept DEF Clears
    <2>5. IoOk(d) BY <1>8, <2>1, <2>4, IoKept DEF GroupServed
    <2> QED BY <1>10, <2>1, <2>5, IoKept DEF Clears
  <1>13. s2n_connection_wipe_io \in Seq(Calls) /\ Clears(e, f, IoContexts, A) /\ IoOk(f)
    BY <1>11, <1>12, WipeIoServed DEF Cleared
  <1> HIDE DEF f
  <1>14. Owned(f, A) BY <1>13 DEF Clears, Between
  <1>15. cg \in Seq(Calls) /\ Clears(f, g, DataCells, A)
    <2> DEFINE l == <<"client_ticket", "status_response", "application_protocols_overridden",
                          "our_quic_transport_parameters", "peer_quic_transport_parameters",
                          "server_early_data_context", "session_secret">>
    <2>1. FieldList(l, DataCells) BY Lists DEF DataCells
    <2> HIDE DEF l
    <2>2. \A x \in DataCells : \A y : Suits("s2n_free", x, y) BY AllCells, AlwaysSuits
    <2>3. "s2n_free" \in Freeing BY DEF Freeing
    <2>4. Each("s2n_free", l) \in Seq(Calls) /\ Clears(f, RunAll(f, Each("s2n_free", l)), DataCells, A)
      BY <1>14, <2>1, <2>2, <2>3, EachClears
    <2> QED BY <2>4 DEF l
  <1> HIDE DEF cg, g
  <1>16. Owned(g, A) BY <1>15 DEF Clears, Between
  <1>17. ch \in Seq(Calls) /\ Between(g, h, A, {"handshake_io"})
         /\ (h.ok => Resized(g.c["handshake_io"], h.c["handshake_io"], Large))
    <2>1. "handshake_io" \in Buffers /\ Large \in Nat BY DEF Buffers, Stuffers, Large
    <2> QED BY <1>16, <2>1, ResizeStep
  <1> HIDE DEF ch, h
  <1>18. Owned(h, A) BY <1>17 DEF Between
  <1>19. ci \in Seq(Calls) /\ GroupServed(h, i, "s2n_stuffer_resize", ResizeCells, A)
    <2>1. FieldList(<<"raw_message", "in", "out">>, ResizeCells) BY Lists DEF ResizeCells
    <2>2. \A x \in ResizeCells : Suits("s2n_stuffer_resize", x, h.c[x]) BY AllCells, AlwaysSuits
    <2>3. "s2n_stuffer_resize" \in Ops BY DEF Ops
    <2> QED BY <1>18, <2>1, <2>2, <2>3, EachGroup
  <1> HIDE DEF ci, i
  <1>20. cj \in Seq(Calls) /\ j = Do(i, Call("zero", "self", 0))
    <2>1. "zero" \in Ops /\ "self" \in Fields /\ 0 \in Nat BY DEF Ops, Fields, Pointers
    <2>2. cj \in Seq(Calls) BY <2>1, OneCall
    <2> QED BY <2>2, RunOne
  <1> HIDE DEF cj, j
  <1>21. Goes(s, p10, j)
    <2>1. Goes(s, ca, a) BY <1>2 DEF Goes, a
    <2>2. Goes(s, p2, b) BY <1>4, <2>1, GoesOn DEF b
    <2> HIDE DEF p2
    <2>3. Goes(s, p3, c) BY <1>6, <2>2, GoesOn DEF c
    <2> HIDE DEF p3
    <2>4. Goes(s, p4, d) BY <1>8, <2>3, GoesOn DEF d
    <2> HIDE DEF p4
    <2>5. Goes(s, p5, e) BY <1>10, <2>4, GoesOn DEF e
    <2> HIDE DEF p5
    <2>6. Goes(s, p6, f) BY <1>13, <2>5, GoesOn DEF f
    <2> HIDE DEF p6
    <2>7. Goes(s, p7, g) BY <1>15, <2>6, GoesOn DEF g
    <2> HIDE DEF p7
    <2>8. Goes(s, p8, h) BY <1>17, <2>7, GoesOn DEF h
    <2> HIDE DEF p8
    <2>9. Goes(s, p9, i) BY <1>19, <2>8, GoesOn DEF i
    <2> HIDE DEF p9
    <2> QED BY <1>20, <2>9, GoesOn DEF j
  <1>22. WipeGroups(s, a, b, c, d, e, f, g, h, i, A)
    BY <1>2, <1>4, <1>6, <1>8, <1>10, <1>13, <1>15, <1>17, <1>19 DEF WipeGroups
  <1> HIDE DEF p10
  <1>23. s2n_connection_wipe \in Seq(Calls) /\ RunAll(s, s2n_connection_wipe) = Do(i, Call("zero", "self", 0))
    BY <1>1, <1>20, <1>21 DEF Goes
  <1> QED BY <1>22, <1>23

\* A connection whose cells are those of a new one.
IsNew(t) == ~t.managed_io /\ \A f \in Fields \ {"cookie_stuffer"} : AsNew(f, t.c[f])

\* What they have done, up to s2n_connection_zero.
LEMMA GroupsDone ==
    ASSUME NEW s, NEW a, NEW b, NEW c, NEW d, NEW e, NEW f, NEW g, NEW h, NEW i, NEW A, IoOk(s),
           WipeGroups(s, a, b, c, d, e, f, g, h, i, A)
    PROVE  /\ Owned(i, A) /\ IoOk(i) /\ i.m.init = s.m.init /\ (i.ok => s.m.init)
           /\ \A x \in Lasting : i.c[x] = s.c[x]
           /\ i.ok => /\ \A x \in Fields \ Kept : ~Filled(i.c[x])
                      /\ Filled(i.c["hashes"]) /\ Filled(i.c["prf_space"])
                      /\ \A x \in WipeCells : \E o : /\ o.r = 0 /\ o.w = 0
                                                     /\ Resized(o, i.c[x], IF x = "handshake_io" THEN Large ELSE 0)
  <1>1. /\ Between(s, a, A, {"hashes"}) /\ Between(a, b, A, {"prf_space"}) /\ Between(b, c, A, KeyCells)
        /\ Between(c, d, A, WipeCells) /\ Between(d, e, A, PskCells) /\ Between(e, f, A, IoContexts)
        /\ Between(f, g, A, DataCells) /\ Between(g, h, A, {"handshake_io"}) /\ Between(h, i, A, ResizeCells)
    BY DEF WipeGroups, GroupServed, Clears
  <1>2. /\ i.m.init = s.m.init /\ (i.ok => a.ok /\ b.ok /\ c.ok /\ d.ok /\ e.ok /\ f.ok /\ g.ok /\ h.ok)
        /\ b.m.init = s.m.init
    BY <1>1 DEF Between
  <1>3. i.ok => s.m.init BY <1>2 DEF WipeGroups
  <1>4. IoOk(i)
    <2>1. /\ {"hashes"} \cap IoContexts = {} /\ {"prf_space"} \cap IoContexts = {} /\ KeyCells \cap IoContexts = {}
          /\ WipeCells \cap IoContexts = {} /\ PskCells \cap IoContexts = {} /\ DataCells \cap IoContexts = {}
          /\ {"handshake_io"} \cap IoContexts = {} /\ ResizeCells \cap IoContexts = {}
      BY DEF IoContexts, KeyCells, Keys1, Keys2, Keys3, WipeCells, PskCells, DataCells, ResizeCells
    <2>2. IoOk(a) BY <1>1, <2>1, IoKept
    <2>3. IoOk(b) BY <1>1, <2>1, <2>2, IoKept
    <2>4. IoOk(c) BY <1>1, <2>1, <2>3, IoKept
    <2>5. IoOk(d) BY <1>1, <2>1, <2>4, IoKept
    <2>6. IoOk(e) BY <1>1, <2>1, <2>5, IoKept
    <2>7. IoOk(f) BY <2>6 DEF WipeGroups
    <2>8. IoOk(g) BY <1>1, <2>1, <2>7, IoKept
    <2>9. IoOk(h) BY <1>1, <2>1, <2>8, IoKept
    <2> QED BY <1>1, <2>1, <2>9, IoKept
  <1>5. \A x \in Lasting : i.c[x] = s.c[x]
    <2>1. \A x \in Lasting : /\ x \in Fields /\ x \notin {"hashes"} /\ x \notin {"prf_space"} /\ x \notin KeyCells
                             /\ x \notin WipeCells /\ x \notin PskCells /\ x \notin IoContexts /\ x \notin DataCells
                             /\ x \notin {"handshake_io"} /\ x \notin ResizeCells
      BY DEF Lasting, Fields, Pointers, Library, IoContexts, KeyCells, Keys1, Keys2, Keys3, WipeCells, PskCells,
             DataCells, ResizeCells
    <2> QED BY <1>1, <2>1 DEF Between
  <1>6. CASE i.ok
    <2>1. \A x \in KeyCells : ~Filled(i.c[x])
      <3>1. \A x \in KeyCells : ~Filled(c.c[x]) BY <1>2, <1>6 DEF WipeGroups, Clears
      <3>2. \A x \in KeyCells : /\ x \in Fields /\ x \notin WipeCells /\ x \notin PskCells /\ x \notin IoContexts
                                /\ x \notin DataCells /\ x \notin {"handshake_io"} /\ x \notin ResizeCells
        BY DEF Fields, Library, Blobs, IoContexts, KeyCells, Keys1, Keys2, Keys3, WipeCells, PskCells,
               DataCells, ResizeCells
      <3>3. \A x \in KeyCells : i.c[x] = c.c[x] BY <1>1, <3>2 DEF Between
      <3> QED BY <3>1, <3>3
    <2>2. \A x \in PskCells : ~Filled(i.c[x])
      <3>1. \A x \in PskCells : ~Filled(e.c[x]) BY <1>2, <1>6 DEF WipeGroups, Clears
      <3>2. \A x \in PskCells : /\ x \in Fields /\ x \notin IoContexts
                                /\ x \notin DataCells /\ x \notin {"handshake_io"} /\ x \notin ResizeCells
        BY DEF Fields, Blobs, IoContexts, PskCells, DataCells, ResizeCells
      <3>3. \A x \in PskCells : i.c[x] = e.c[x] BY <1>1, <3>2 DEF Between
      <3> QED BY <3>1, <3>3
    <2>3. \A x \in IoContexts : ~Filled(i.c[x])
      <3>1. \A x \in IoContexts : ~Filled(f.c[x]) BY <1>2, <1>6 DEF WipeGroups, Clears
      <3>2. \A x \in IoContexts : x \in Fields /\ x \notin DataCells /\ x \notin {"handshake_io"} /\ x \notin ResizeCells
        BY DEF Fields, Pointers, IoContexts, DataCells, ResizeCells
      <3>3. \A x \in IoContexts : i.c[x] = f.c[x] BY <1>1, <3>2 DEF Between
      <3> QED BY <3>1, <3>3
    <2>4. \A x \in DataCells : ~Filled(i.c[x])
      <3>1. \A x \in DataCells : ~Filled(g.c[x]) BY <1>2, <1>6 DEF WipeGroups, Clears
      <3>2. \A x \in DataCells : x \in Fields /\ x \notin {"handshake_io"} /\ x \notin ResizeCells
        BY DEF Fields, Blobs, DataCells, ResizeCells
      <3>3. \A x \in DataCells : i.c[x] = g.c[x] BY <1>1, <3>2 DEF Between
      <3> QED BY <3>1, <3>3
    <2>5. ~Filled(i.c["cookie_stuffer"])
      <3>1. Owned(i, A) BY <1>1 DEF Between
      <3> QED BY <3>1, FieldKinds, BlockIsOurs, Typed DEF CellOk, Filled
    <2>6. \A x \in Fields \ Kept : ~Filled(i.c[x]) BY <2>1, <2>2, <2>3, <2>4, <2>5, AllCells
    <2>7. Filled(i.c["hashes"]) /\ Filled(i.c["prf_space"])
      <3>1. Filled(a.c["hashes"]) /\ Filled(b.c["prf_space"]) BY <1>2, <1>6 DEF WipeGroups
      <3>2. \A x \in {"hashes", "prf_space"} :
                /\ x \in Fields /\ x \notin KeyCells /\ x \notin WipeCells /\ x \notin PskCells /\ x \notin IoContexts
                /\ x \notin DataCells /\ x \notin {"handshake_io"} /\ x \notin ResizeCells
        BY DEF Fields, Pointers, IoContexts, KeyCells, Keys1, Keys2, Keys3, WipeCells, PskCells,
               DataCells, ResizeCells
      <3>3. \A x \in {"hashes", "prf_space"} : i.c[x] = b.c[x] BY <1>1, <3>2 DEF Between
      <3>4. b.c["hashes"] = a.c["hashes"] BY <1>1, <3>2 DEF Between
      <3> QED BY <3>1, <3>3, <3>4
    <2>8. ASSUME NEW x \in WipeCells
          PROVE  \E o : o.r = 0 /\ o.w = 0 /\ Resized(o, i.c[x], IF x = "handshake_io" THEN Large ELSE 0)
      <3>1. Wiped(c.c[x], d.c[x]) BY <1>2, <1>6 DEF WipeGroups, GroupServed, After
      <3>2. d.c[x].r = 0 /\ d.c[x].w = 0 BY <3>1 DEF Wiped
      <3>3. \A y \in WipeCells : y \in Fields /\ y \notin PskCells /\ y \notin IoContexts /\ y \notin DataCells
        BY DEF WipeCells, Fields, Stuffers, PskCells, IoContexts, DataCells
      <3>4. g.c[x] = d.c[x] BY <1>1, <3>3 DEF Between
      <3>5. CASE x = "handshake_io"
        <4>1. x \notin ResizeCells BY <3>5 DEF ResizeCells
        <4>2. i.c[x] = h.c[x] BY <1>1, <3>3, <4>1 DEF Between
        <4>3. Resized(g.c[x], h.c[x], Large) BY <1>2, <1>6, <3>5 DEF WipeGroups
        <4> QED BY <3>2, <3>4, <3>5, <4>2, <4>3
      <3>6. CASE x # "handshake_io"
        <4>1. x \in ResizeCells BY <3>6 DEF ResizeCells, WipeCells
        <4>2. h.c[x] = g.c[x] BY <1>1, <3>3, <3>6 DEF Between
        <4>3. Resized(h.c[x], i.c[x], 0) BY <1>6, <4>1 DEF WipeGroups, GroupServed, After
        <4> QED BY <3>2, <3>4, <3>6, <4>2, <4>3
      <3> QED BY <3>5, <3>6
    <2> QED BY <1>1, <1>2, <1>3, <1>4, <1>5, <2>6, <2>7, <2>8 DEF Between
  <1> QED BY <1>1, <1>2, <1>3, <1>4, <1>5, <1>6 DEF Between

(***************************************************************************)
(* s2n_connection_wipe: nothing is lost, and if it succeeds the connection *)
(* is as a new one.                                                        *)
(***************************************************************************)
LEMMA ConnectionWiped ==
    ASSUME NEW s, NEW A, Owned(s, A), IoOk(s), \A f \in Lasting : Filled(s.c[f])
    PROVE  LET t == RunAll(s, s2n_connection_wipe) IN
           /\ s2n_connection_wipe \in Seq(Calls)
           /\ Owned(t, A) /\ IoOk(t) /\ t.m.init = s.m.init
           /\ \A f \in Lasting : t.c[f] = s.c[f]
           /\ t.ok => t.m.init /\ IsNew(t)
  <1> DEFINE t == RunAll(s, s2n_connection_wipe)
             z == Call("zero", "self", 0)
  <1>1. PICK a, b, c, d, e, f, g, h, i :
              /\ WipeGroups(s, a, b, c, d, e, f, g, h, i, A)
              /\ s2n_connection_wipe \in Seq(Calls)
              /\ t = Do(i, z)
    BY WipeIs
  <1>2. /\ Owned(i, A) /\ IoOk(i) /\ i.m.init = s.m.init /\ (i.ok => s.m.init)
        /\ \A x \in Lasting : i.c[x] = s.c[x]
        /\ i.ok => /\ \A x \in Fields \ Kept : ~Filled(i.c[x])
                   /\ Filled(i.c["hashes"]) /\ Filled(i.c["prf_space"])
                   /\ \A x \in WipeCells : \E o : /\ o.r = 0 /\ o.w = 0
                                                  /\ Resized(o, i.c[x], IF x = "handshake_io" THEN Large ELSE 0)
    BY <1>1, GroupsDone
  <1> HIDE DEF t
  <1>3. CASE ~i.ok
    <2>1. t = i BY <1>1, <1>3 DEF Do
    <2> QED BY <1>1, <1>2, <1>3, <2>1 DEF t
  <1>4. CASE i.ok
    <2>1. t = ZeroCells(i) BY <1>1, <1>4, DoConnectionIs
    <2>2. /\ Owned(t, A) /\ IoOk(t) /\ t.m = i.m /\ ~t.managed_io
          /\ \A x \in Fields : t.c[x] = IF x \in Kept THEN i.c[x] ELSE Empty
      BY <1>2, <1>4, <2>1, ZeroServed
    <2>3. \A x \in Lasting : t.c[x] = s.c[x]
      <3>1. \A x \in Lasting : x \in Fields /\ x \in Kept BY AllCells
      <3> QED BY <1>2, <2>2, <3>1
    <2>4. ASSUME NEW x \in Fields \ {"cookie_stuffer"} PROVE AsNew(x, t.c[x])
      <3>0. t.c[x] \in CellType /\ CellOk(x, t.c[x]) BY <2>2, Typed
      <3>1. CASE x \notin Kept BY <2>2, <3>1, OtherAsNew
      <3>2. CASE x \in Lasting \cup {"hashes", "prf_space"}
        <4>1. Filled(t.c[x])
          <5>1. CASE x \in Lasting BY <2>3, <5>1
          <5>2. CASE x \in {"hashes", "prf_space"}
            <6>1. x \in Kept BY <3>2, AllCells
            <6> QED BY <1>2, <1>4, <2>2, <5>2, <6>1
          <5> QED BY <3>2, <5>1, <5>2
        <4>2. x \in {"self", "hashes", "prf_space", "keys", "hmacs"} BY <3>2 DEF Lasting
        <4> QED BY <3>0, <4>1, <4>2, ObjectAsNew
      <3>3. CASE x \in WipeCells
        <4>1. t.c[x] = i.c[x] BY <2>2, <3>3, AllCells
        <4> DEFINE n == IF x = "handshake_io" THEN Large ELSE 0
        <4>2. n \in Nat /\ x \in {"handshake_io", "in", "out", "raw_message"} BY <3>3 DEF Large, WipeCells
        <4>3. PICK o : o.r = 0 /\ o.w = 0 /\ Resized(o, i.c[x], n) BY <1>2, <1>4, <3>3
        <4>4. n = (IF x = "handshake_io" THEN Large ELSE 0) OBVIOUS
        <4> HIDE DEF n
        <4> QED BY <3>0, <4>1, <4>2, <4>3, <4>4, StufferAsNew
      <3> QED BY <3>1, <3>2, <3>3, AllCells
    <2>5. IsNew(t) BY <2>2, <2>4 DEF IsNew
    <2> QED BY <1>1, <1>2, <1>4, <2>2, <2>3, <2>5 DEF t
  <1> QED BY <1>3, <1>4

-----------------------------------------------------------------------------
\* An object of a connection that has none yet.
LEMMA NewStep ==
    ASSUME NEW s, NEW A, Owned(s, A), NEW f \in Objects \ {"recv_io_context"}, ~Filled(s.c[f]),
           NEW op \in {"new", "new_if_null"}
    PROVE  LET t == RunAll(s, <<Call(op, f, PagesOf(f))>>) IN
           /\ <<Call(op, f, PagesOf(f))>> \in Seq(Calls)
           /\ Between(s, t, A, {f}) /\ (t.ok => Filled(t.c[f]))
  <1> DEFINE c == Call(op, f, PagesOf(f))
             t == RunAll(s, <<c>>)
  <1>1. f \in Objects /\ f # "recv_io_context" /\ f \in Fields /\ PagesOf(f) \in Nat BY FieldKinds DEF PagesOf
  <1>2. <<c>> \in Seq(Calls)
    <2>1. op \in Ops BY DEF Ops
    <2> QED BY <1>1, <2>1, OneCall
  <1>3. t = Do(s, c) BY RunOne
  <1>4. CASE s.ok
    <2>1. s.c[f].data = NoBlock BY <1>1, ObjectIsNotUsers, NullCell
    <2>2. Served(s, t, f, A) /\ (t = Fail(s) \/ (t.ok = s.ok /\ Filled(t.c[f])))
      <3>1. CASE op = "new"
        <4>1. t = NewObject(s, f, PagesOf(f)) BY <1>3, <1>4, <3>1, DoIs
        <4> QED BY <1>1, <2>1, <4>1, NewServed
      <3>2. CASE op = "new_if_null"
        <4>1. t = NewObjectIfNull(s, f, PagesOf(f)) BY <1>3, <1>4, <3>2, DoIs
        <4> QED BY <1>1, <4>1, NewIfNullServed
      <3> QED BY <3>1, <3>2
    <2> HIDE DEF t
    <2>3. Between(s, t, A, {f}) /\ (t.ok => Filled(t.c[f])) BY <1>4, <2>2, BetweenServed, Failed
    <2> QED BY <1>2, <2>3 DEF t
  <1>5. CASE ~s.ok
    <2>1. t = s BY <1>2, <1>5, RunSkipped
    <2> HIDE DEF t
    <2>2. Between(s, t, A, {f}) /\ ~t.ok BY <1>5, <2>1, BetweenItself
    <2> QED BY <1>2, <2>2 DEF t
  <1> QED BY <1>4, <1>5

\* Sequences of calls are what their elements are.
LEMMA SameSeq ==
    ASSUME NEW p \in Seq(Calls), NEW q \in Seq(Calls), Len(p) = Len(q), \A i \in 1..Len(p) : p[i] = q[i]
    PROVE  p = q
  OBVIOUS

\* The elements of a concatenation.
LEMMA TwoSeqs ==
    ASSUME NEW p \in Seq(Calls), NEW q \in Seq(Calls)
    PROVE  /\ p \o q \in Seq(Calls) /\ Len(p \o q) = Len(p) + Len(q)
           /\ \A i \in 1..Len(p) : (p \o q)[i] = p[i]
           /\ \A i \in 1..Len(q) : (p \o q)[Len(p) + i] = q[i]
  OBVIOUS

Longer(p, r, x, n) ==
    r \in Seq(Calls) /\ Len(r) = n + 1 /\ r[n + 1] = x /\ \A i \in 1..n : r[i] = p[i]
\* A call appended.
LEMMA OneMore ==
    ASSUME NEW p \in Seq(Calls), NEW x \in Calls, NEW n \in Nat, Len(p) = n
    PROVE  Longer(p, p \o <<x>>, x, n)
  <1> DEFINE q == <<x>>
             r == p \o q
  <1>1. q \in Seq(Calls) /\ Len(q) = 1 /\ q[1] = x OBVIOUS
  <1> HIDE DEF q
  <1>2. /\ r \in Seq(Calls) /\ Len(r) = Len(p) + Len(q)
        /\ \A i \in 1..Len(p) : r[i] = p[i]
        /\ \A i \in 1..Len(q) : r[Len(p) + i] = q[i]
    BY <1>1, TwoSeqs
  <1> HIDE DEF r
  <1>3. r[n + 1] = x
    <2>1. 1 \in 1..Len(q) BY <1>1
    <2>2. r[Len(p) + 1] = q[1] BY <1>2, <2>1
    <2> QED BY <1>1, <2>2
  <1>4. Longer(p, r, x, n) BY <1>1, <1>2, <1>3 DEF Longer
  <1> QED BY <1>4 DEF r, q

\* Five calls, one by one.
LEMMA FiveCalls ==
    ASSUME NEW a \in Calls, NEW b \in Calls, NEW c \in Calls, NEW d \in Calls, NEW e \in Calls
    PROVE  (((<<a>> \o <<b>>) \o <<c>>) \o <<d>>) \o <<e>> = <<a, b, c, d, e>>
  <1> DEFINE p1 == <<a>>
             p2 == p1 \o <<b>>
             p3 == p2 \o <<c>>
             p4 == p3 \o <<d>>
             p5 == p4 \o <<e>>
             q == <<a, b, c, d, e>>
  <1>1. p1 \in Seq(Calls) /\ Len(p1) = 1 /\ p1[1] = a OBVIOUS
  <1> HIDE DEF p1
  <1>2. p2 \in Seq(Calls) /\ Len(p2) = 2 /\ p2[1] = a /\ p2[2] = b
    <2>1. Longer(p1, p2, b, 1) BY <1>1, OneMore
    <2> HIDE DEF p2
    <2> QED BY <1>1, <2>1 DEF Longer
  <1> HIDE DEF p2
  <1>3. p3 \in Seq(Calls) /\ Len(p3) = 3 /\ p3[1] = a /\ p3[2] = b /\ p3[3] = c
    <2>1. Longer(p2, p3, c, 2) BY <1>2, OneMore
    <2> HIDE DEF p3
    <2> QED BY <1>2, <2>1 DEF Longer
  <1> HIDE DEF p3
  <1>4. p4 \in Seq(Calls) /\ Len(p4) = 4 /\ p4[1] = a /\ p4[2] = b /\ p4[3] = c /\ p4[4] = d
    <2>1. Longer(p3, p4, d, 3) BY <1>3, OneMore
    <2> HIDE DEF p4
    <2> QED BY <1>3, <2>1 DEF Longer
  <1> HIDE DEF p4
  <1>5. p5 \in Seq(Calls) /\ Len(p5) = 5 /\ p5[1] = a /\ p5[2] = b /\ p5[3] = c /\ p5[4] = d /\ p5[5] = e
    <2>1. Longer(p4, p5, e, 4) BY <1>4, OneMore
    <2> HIDE DEF p5
    <2> QED BY <1>4, <2>1 DEF Longer
  <1> HIDE DEF p5
  <1>6. q \in Seq(Calls) /\ Len(q) = 5 /\ q[1] = a /\ q[2] = b /\ q[3] = c /\ q[4] = d /\ q[5] = e OBVIOUS
  <1> HIDE DEF q
  <1>7. p5 = q BY <1>5, <1>6, SameSeq
  <1> QED BY <1>7 DEF p1, p2, p3, p4, p5, q

NewObjects == {"self", "keys", "prf_space", "hashes", "hmacs"}

\* The objects and stuffers s2n_connection_new allocates before it wipes the connection.
NewGroups(s, e, f, A) ==
    /\ Between(s, e, A, NewObjects) /\ (e.ok => \A x \in Lasting : Filled(e.c[x]))
    /\ GroupServed(e, f, "s2n_stuffer_growable_alloc", WipeCells, A)

\* s2n_connection_new is these groups of calls.
LEMMA NewIs ==
    ASSUME NEW s, NEW A, Owned(s, A), \A f \in Fields : ~Filled(s.c[f])
    PROVE  \E p, e, f : /\ NewGroups(s, e, f, A) /\ Goes(s, p, f)
                        /\ s2n_connection_new = (p \o s2n_connection_wipe)
                                                \o Each("s2n_stuffer_growable_alloc", <<"cookie_stuffer">>)
  <1> DEFINE c1 == <<Call("new", "self", 1)>>
             c2 == <<Call("new", "keys", 0)>>
             c3 == <<Call("new_if_null", "prf_space", 1)>>
             c4 == <<Call("new_if_null", "hashes", 1)>>
             c5 == <<Call("new", "hmacs", 0)>>
             c6 == Each("s2n_stuffer_growable_alloc", <<"out", "in", "handshake_io", "raw_message">>)
             a == RunAll(s, c1)
             b == RunAll(a, c2)
             c == RunAll(b, c3)
             d == RunAll(c, c4)
             e == RunAll(d, c5)
             f == RunAll(e, c6)
             p2 == c1 \o c2
             p3 == p2 \o c3
             p4 == p3 \o c4
             p5 == p4 \o c5
             p6 == p5 \o c6
  <1>0. /\ PagesOf("self") = 1 /\ PagesOf("keys") = 0 /\ PagesOf("prf_space") = 1 /\ PagesOf("hashes") = 1
        /\ PagesOf("hmacs") = 0
        /\ \A x \in NewObjects : x \in Objects \ {"recv_io_context"} /\ x \in Fields
    BY FieldKinds DEF PagesOf, Pointers, Library, Objects, NewObjects
  <1>1. s2n_connection_new = (p6 \o s2n_connection_wipe) \o Each("s2n_stuffer_growable_alloc", <<"cookie_stuffer">>)
    <2>1. p5 = <<Call("new", "self", 1), Call("new", "keys", 0),
                 Call("new_if_null", "prf_space", 1), Call("new_if_null", "hashes", 1), Call("new", "hmacs", 0)>>
      <3>1. /\ Call("new", "self", 1) \in Calls /\ Call("new", "keys", 0) \in Calls
            /\ Call("new_if_null", "prf_space", 1) \in Calls /\ Call("new_if_null", "hashes", 1) \in Calls
            /\ Call("new", "hmacs", 0) \in Calls
        BY <1>0 DEF Call, Calls, Ops, NewObjects
      <3> QED BY <3>1, FiveCalls
    <2> HIDE DEF p5
    <2> QED BY <2>1 DEF s2n_connection_new
  <1>2. c1 \in Seq(Calls) /\ Between(s, a, A, {"self"}) /\ (a.ok => Filled(a.c["self"]))
    <2>1. "self" \in NewObjects BY DEF NewObjects
    <2> QED BY <1>0, <2>1, NewStep
  <1> HIDE DEF a, c1
  <1>3. c2 \in Seq(Calls) /\ Between(a, b, A, {"keys"}) /\ (b.ok => Filled(b.c["keys"]))
    <2>1. "keys" \in NewObjects BY DEF NewObjects
    <2>2. Owned(a, A) /\ ~Filled(a.c["keys"]) BY <1>0, <1>2, <2>1 DEF Between
    <2> QED BY <1>0, <2>1, <2>2, NewStep
  <1> HIDE DEF b, c2
  <1>4. c3 \in Seq(Calls) /\ Between(b, c, A, {"prf_space"})
    <2>1. "prf_space" \in NewObjects BY DEF NewObjects
    <2>2. Owned(b, A) /\ ~Filled(b.c["prf_space"]) BY <1>0, <1>2, <1>3, <2>1 DEF Between
    <2> QED BY <1>0, <2>1, <2>2, NewStep
  <1> HIDE DEF c, c3
  <1>5. c4 \in Seq(Calls) /\ Between(c, d, A, {"hashes"})
    <2>1. "hashes" \in NewObjects BY DEF NewObjects
    <2>2. Owned(c, A) /\ ~Filled(c.c["hashes"]) BY <1>0, <1>2, <1>3, <1>4, <2>1 DEF Between
    <2> QED BY <1>0, <2>1, <2>2, NewStep
  <1> HIDE DEF d, c4
  <1>6. c5 \in Seq(Calls) /\ Between(d, e, A, {"hmacs"}) /\ (e.ok => Filled(e.c["hmacs"]))
    <2>1. "hmacs" \in NewObjects BY DEF NewObjects
    <2>2. Owned(d, A) /\ ~Filled(d.c["hmacs"]) BY <1>0, <1>2, <1>3, <1>4, <1>5, <2>1 DEF Between
    <2> QED BY <1>0, <2>1, <2>2, NewStep
  <1> HIDE DEF e, c5
  <1>7. Between(s, e, A, NewObjects)
    <2>1. Between(s, e, A, ((({"self"} \cup {"keys"}) \cup {"prf_space"}) \cup {"hashes"}) \cup {"hmacs"})
      BY <1>2, <1>3, <1>4, <1>5, <1>6, BetweenBetween
    <2> QED BY <2>1, BetweenMore DEF NewObjects
  <1>8. e.ok => \A x \in Lasting : Filled(e.c[x])
    <2>1. "self" \in Fields /\ "keys" \in Fields BY <1>0 DEF NewObjects
    <2>2. e.ok => a.ok /\ b.ok BY <1>2, <1>3, <1>4, <1>5, <1>6 DEF Between
    <2>3. e.c["self"] = a.c["self"] BY <1>3, <1>4, <1>5, <1>6, <2>1 DEF Between
    <2>4. e.c["keys"] = b.c["keys"] BY <1>4, <1>5, <1>6, <2>1 DEF Between
    <2> QED BY <1>2, <1>3, <1>6, <2>2, <2>3, <2>4 DEF Lasting
  <1>9. c6 \in Seq(Calls) /\ GroupServed(e, f, "s2n_stuffer_growable_alloc", WipeCells, A)
    <2>1. FieldList(<<"out", "in", "handshake_io", "raw_message">>, WipeCells)
      <3>1. WipeCells = {"out", "in", "handshake_io", "raw_message"} BY DEF WipeCells
      <3> QED BY <3>1, Lists
    <2>2. \A x \in WipeCells : x \in Stuffers /\ x \in Fields /\ x \notin NewObjects
      BY DEF WipeCells, Stuffers, Fields, NewObjects
    <2>3. \A x \in WipeCells : ~Filled(e.c[x]) BY <1>7, <2>2 DEF Between
    <2>4. \A x \in WipeCells : Suits("s2n_stuffer_growable_alloc", x, e.c[x]) BY <2>2, <2>3 DEF Suits
    <2>5. "s2n_stuffer_growable_alloc" \in Ops /\ Owned(e, A) BY <1>7 DEF Ops, Between
    <2> QED BY <2>1, <2>4, <2>5, EachGroup
  <1> HIDE DEF c6, f
  <1>10. Goes(s, p6, f)
    <2>1. Goes(s, c1, a) BY <1>2 DEF Goes, a
    <2>2. Goes(s, p2, b) BY <1>3, <2>1, GoesOn DEF b
    <2> HIDE DEF p2
    <2>3. Goes(s, p3, c) BY <1>4, <2>2, GoesOn DEF c
    <2> HIDE DEF p3
    <2>4. Goes(s, p4, d) BY <1>5, <2>3, GoesOn DEF d
    <2> HIDE DEF p4
    <2>5. Goes(s, p5, e) BY <1>6, <2>4, GoesOn DEF e
    <2> HIDE DEF p5
    <2> QED BY <1>9, <2>5, GoesOn DEF f
  <1>11. NewGroups(s, e, f, A) BY <1>7, <1>8, <1>9 DEF NewGroups
  <1> HIDE DEF p6
  <1> QED BY <1>1, <1>10, <1>11

(***************************************************************************)
(* s2n_connection_new: whatever fails, the blocks in use are known.        *)
(***************************************************************************)
LEMMA ConnectionCreated ==
    ASSUME NEW s, NEW A, Owned(s, A), IoOk(s), \A f \in Fields : ~Filled(s.c[f])
    PROVE  LET t == RunAll(s, s2n_connection_new) IN
           /\ Owned(t, A)
           /\ t.ok => t.m.init /\ IoOk(t) /\ IsNew(t) /\ \A f \in Lasting : Filled(t.c[f])
  <1> DEFINE ck == Each("s2n_stuffer_growable_alloc", <<"cookie_stuffer">>)
             t == RunAll(s, s2n_connection_new)
  <1>1. PICK p, e, f : /\ NewGroups(s, e, f, A) /\ Goes(s, p, f)
                       /\ s2n_connection_new = (p \o s2n_connection_wipe) \o ck
    BY NewIs
  <1>2. ck \in Seq(Calls)
    <2>1. "s2n_stuffer_growable_alloc" \in Ops BY DEF Ops
    <2>2. FieldList(<<"cookie_stuffer">>, {"cookie_stuffer"}) BY Lists
    <2> QED BY <2>1, <2>2, EachIsCalls DEF FieldList
  <1>3. Between(s, e, A, NewObjects) /\ Between(e, f, A, WipeCells) BY <1>1 DEF NewGroups, GroupServed
  <1>4. Owned(f, A) /\ IoOk(f)
    <2>1. NewObjects \cap IoContexts = {} /\ WipeCells \cap IoContexts = {} BY DEF NewObjects, WipeCells, IoContexts
    <2>2. IoOk(e) BY <1>3, <2>1, IoKept
    <2> QED BY <1>3, <2>1, <2>2, IoKept DEF Between
  <1> DEFINE w == RunAll(f, s2n_connection_wipe)
             u == RunAll(w, ck)
  <1>5. s2n_connection_wipe \in Seq(Calls) BY <1>4, WipeIs
  <1>6. t = u
    <2>1. Goes(s, p \o s2n_connection_wipe, w) BY <1>1, <1>5, GoesOn
    <2> HIDE DEF w
    <2>2. Goes(s, (p \o s2n_connection_wipe) \o ck, u) BY <1>2, <2>1, GoesOn
    <2> QED BY <1>1, <2>2 DEF Goes
  <1>7. CASE ~f.ok
    <2>1. w = f BY <1>5, <1>7, RunSkipped
    <2> HIDE DEF w
    <2>2. u = f BY <1>2, <1>7, <2>1, RunSkipped
    <2> HIDE DEF u, t
    <2> QED BY <1>4, <1>6, <1>7, <2>2 DEF t
  <1>8. CASE f.ok
    <2>1. \A x \in Lasting : Filled(f.c[x])
      <3>1. \A x \in Lasting : x \in Fields /\ x \notin WipeCells BY DEF Lasting, WipeCells, Fields, Pointers, Library
      <3>2. e.ok BY <1>3, <1>8 DEF Between
      <3> QED BY <1>1, <1>3, <3>1, <3>2 DEF NewGroups, Between
    <2>2. /\ Owned(w, A) /\ IoOk(w) /\ \A x \in Lasting : w.c[x] = f.c[x]
          /\ w.ok => w.m.init /\ IsNew(w)
      BY <1>4, <2>1, ConnectionWiped
    <2> HIDE DEF w
    <2>3. GroupServed(w, u, "s2n_stuffer_growable_alloc", {"cookie_stuffer"}, A)
      <3>1. "s2n_stuffer_growable_alloc" \in Ops BY DEF Ops
      <3>2. FieldList(<<"cookie_stuffer">>, {"cookie_stuffer"}) BY Lists
      <3>3. ~Filled(w.c["cookie_stuffer"]) BY <2>2, FieldKinds, BlockIsOurs, Typed DEF CellOk, Filled
      <3>4. \A x \in {"cookie_stuffer"} : Suits("s2n_stuffer_growable_alloc", x, w.c[x])
        BY <3>3, FieldKinds DEF Suits
      <3> QED BY <2>2, <3>1, <3>2, <3>4, EachGroup
    <2> HIDE DEF u, t
    <2>4. Between(w, u, A, {"cookie_stuffer"}) BY <2>3 DEF GroupServed
    <2>5. IoOk(u)
      <3>1. {"cookie_stuffer"} \cap IoContexts = {} BY DEF IoContexts
      <3> QED BY <2>2, <2>4, <3>1, IoKept
    <2>6. /\ u.managed_io = w.managed_io /\ u.m.init = w.m.init /\ (u.ok => w.ok)
          /\ \A x \in Fields \ {"cookie_stuffer"} : u.c[x] = w.c[x]
      BY <2>4 DEF Between
    <2>7. u.ok => IsNew(u) /\ u.m.init BY <2>2, <2>6 DEF IsNew
    <2>8. \A x \in Lasting : Filled(u.c[x])
      <3>1. \A x \in Lasting : x \in Fields \ {"cookie_stuffer"} BY DEF Lasting, Fields, Pointers, Library
      <3> QED BY <2>1, <2>2, <2>6, <3>1
    <2> QED BY <1>6, <2>4, <2>5, <2>7, <2>8 DEF Between, t
  <1> QED BY <1>7, <1>8

-----------------------------------------------------------------------------
(***************************************************************************)
(* s2n_connection_free.                                                    *)
(***************************************************************************)
ClearedIo(s, c, F, A) == Cleared(s, c, F, A) /\ IoOk(RunAll(s, c))

\* A function that clears, after another.
LEMMA ThenCleared ==
    ASSUME NEW s, NEW A, NEW c, NEW d, NEW F, NEW G, Cleared(s, c, F, A), Cleared(RunAll(s, c), d, G, A)
    PROVE  Cleared(s, c \o d, F \cup G, A) /\ RunAll(s, c \o d) = RunAll(RunAll(s, c), d)
  <1> DEFINE t == RunAll(s, c)
             u == RunAll(t, d)
  <1>1. /\ c \in Seq(Calls) /\ d \in Seq(Calls) /\ F \in SUBSET Fields /\ G \in SUBSET Fields
        /\ Clears(s, t, F, A) /\ Clears(t, u, G, A)
    BY DEF Cleared
  <1>2. RunAll(s, c \o d) = u BY <1>1, RunBoth
  <1> HIDE DEF t, u
  <1>3. Clears(s, u, F \cup G, A) BY <1>1, ClearsBoth
  <1>4. c \o d \in Seq(Calls) BY <1>1, Joined
  <1>5. Cleared(s, c \o d, F \cup G, A) BY <1>1, <1>2, <1>3, <1>4 DEF Cleared
  <1> QED BY <1>2, <1>5 DEF t, u

\* One list more is cleared, and not the contexts.
LEMMA ThenEachIo ==
    ASSUME NEW s, NEW A, NEW c, NEW F, ClearedIo(s, c, F, A), NEW op \in Freeing, NEW fields, NEW G,
           FieldList(fields, G), \A f \in G : \A x : Suits(op, f, x), G \cap IoContexts = {}
    PROVE  ClearedIo(s, c \o Each(op, fields), F \cup G, A) /\ Each(op, fields) \in Seq(Calls)
  <1> DEFINE t == RunAll(s, c)
             d == Each(op, fields)
             u == RunAll(t, d)
  <1>1. c \in Seq(Calls) /\ Clears(s, t, F, A) /\ Owned(t, A) /\ IoOk(t)
    BY DEF ClearedIo, Cleared, Clears, Between
  <1>2. G \subseteq Fields BY DEF FieldList, Among, UpTo
  <1>3. Clears(t, u, G, A) /\ d \in Seq(Calls)
    <2> HIDE DEF t
    <2> QED BY <1>1, EachClears
  <1>4. IoOk(u)
    <2> HIDE DEF t, u
    <2> QED BY <1>1, <1>3, IoKept DEF Clears
  <1>5. Cleared(t, d, G, A) BY <1>2, <1>3 DEF Cleared
  <1> HIDE DEF d
  <1>6. Cleared(s, c \o d, F \cup G, A) /\ RunAll(s, c \o d) = u BY <1>5, ThenCleared DEF ClearedIo
  <1>7. ClearedIo(s, c \o d, F \cup G, A) BY <1>4, <1>6 DEF ClearedIo
  <1> QED BY <1>3, <1>7 DEF d

\* After a failure nothing is called.
LEMMA Skips ==
    ASSUME NEW s, NEW p, NEW k, Goes(s, p, k), ~k.ok, NEW d \in Seq(Calls)
    PROVE  Goes(s, p \o d, k)
  BY GoesOn, RunSkipped

Data6 == {"client_ticket", "status_response", "our_quic_transport_parameters",
          "peer_quic_transport_parameters", "server_early_data_context", "session_secret"}
FreeObjects == {"prf_space", "hashes", "hmacs"}

\* s2n_connection_free frees everything, or fails and can be called again.
LEMMA ConnectionFreed ==
    ASSUME NEW s, NEW A, Owned(s, A), IoOk(s), s.ok
    PROVE  LET t == RunAll(s, s2n_connection_free) IN
           /\ Owned(t, A) /\ IoOk(t) /\ t.m.init = s.m.init
           /\ t.ok => \A f \in Fields : ~Filled(t.c[f])
           /\ ~t.ok => \A f \in Lasting : t.c[f] = s.c[f]
  <1> DEFINE c2 == Each("s2n_free_object", <<"keys">>)
             c4 == Each("s2n_free_object", <<"prf_space", "hashes", "hmacs">>)
             l6 == <<"client_ticket", "status_response", "our_quic_transport_parameters",
                          "peer_quic_transport_parameters", "server_early_data_context", "session_secret">>
             c6 == Each("s2n_free", l6)
             c7 == Each("s2n_stuffer_free", <<"in", "out", "handshake_io", "raw_message">>)
             c8 == Each("s2n_free", <<"application_protocols_overridden">>)
             c9 == Each("s2n_stuffer_free", <<"cookie_stuffer">>)
             c10 == Each("s2n_free_object", <<"self">>)
             p2 == s2n_connection_wipe_keys \o c2
             p3 == p2 \o s2n_psk_parameters_wipe
             p4 == p3 \o c4
             p5 == p4 \o s2n_connection_wipe_io
             p6 == p5 \o c6
             p7 == p6 \o c7
             p8 == p7 \o c8
             p9 == p8 \o c9
             p10 == p9 \o c10
             k == RunAll(s, s2n_connection_wipe_keys)
             t == RunAll(s, s2n_connection_free)
  <1>0. /\ "s2n_free" \in Freeing /\ "s2n_free_object" \in Freeing /\ "s2n_stuffer_free" \in Freeing
        /\ {"keys"} \subseteq Objects \ {"recv_io_context"} /\ FreeObjects \subseteq Objects \ {"recv_io_context"}
        /\ {"self"} \subseteq Objects \ {"recv_io_context"}
        /\ Data6 \subseteq Blobs /\ {"application_protocols_overridden"} \subseteq Blobs
        /\ WipeCells \subseteq Stuffers /\ {"cookie_stuffer"} \subseteq Stuffers
    BY DEF Freeing, Objects, Pointers, Library, FreeObjects, Data6, Blobs, WipeCells, Stuffers
  <1>1. /\ FieldList(<<"keys">>, {"keys"}) /\ FieldList(<<"self">>, {"self"})
        /\ FieldList(<<"prf_space", "hashes", "hmacs">>, FreeObjects)
        /\ FieldList(l6, Data6)
        /\ FieldList(<<"in", "out", "handshake_io", "raw_message">>, WipeCells)
        /\ FieldList(<<"application_protocols_overridden">>, {"application_protocols_overridden"})
        /\ FieldList(<<"cookie_stuffer">>, {"cookie_stuffer"})
    <2>1. WipeCells = {"in", "out", "handshake_io", "raw_message"} BY DEF WipeCells
    <2> QED BY <2>1, Lists DEF FreeObjects, Data6
  <1>2. /\ KeyCells \cap IoContexts = {} /\ {"keys"} \cap IoContexts = {} /\ PskCells \cap IoContexts = {}
        /\ FreeObjects \cap IoContexts = {} /\ Data6 \cap IoContexts = {} /\ WipeCells \cap IoContexts = {}
        /\ {"application_protocols_overridden"} \cap IoContexts = {} /\ {"cookie_stuffer"} \cap IoContexts = {}
        /\ {"self"} \cap IoContexts = {}
    BY DEF KeyCells, Keys1, Keys2, Keys3, IoContexts, PskCells, FreeObjects, Data6, WipeCells
  <1>3. s2n_connection_free = p10 BY DEF s2n_connection_free, s2n_connection_wipe_io
  <1> HIDE DEF l6
  <1>4. ClearedIo(s, s2n_connection_wipe_keys, KeyCells, A) /\ (~s.m.init => ~k.ok)
    <2>1. Cleared(s, s2n_connection_wipe_keys, KeyCells, A) /\ (~s.m.init => ~k.ok) BY WipeKeysServed
    <2>2. Between(s, k, A, KeyCells) BY <2>1 DEF Cleared, Clears
    <2>3. IoOk(k) BY <1>2, <2>2, IoKept
    <2> QED BY <2>1, <2>3 DEF ClearedIo
  <1>5. ClearedIo(s, p2, KeyCells \cup {"keys"}, A) /\ c2 \in Seq(Calls)
    <2>1. \A f \in {"keys"} : \A x : Suits("s2n_free_object", f, x) BY <1>0, AlwaysSuits
    <2> QED BY <1>0, <1>1, <1>2, <1>4, <2>1, ThenEachIo
  <1> DEFINE F2 == KeyCells \cup {"keys"}
             F3 == F2 \cup PskCells
  <1> HIDE DEF F2
  <1>6. ClearedIo(s, p3, F3, A) /\ s2n_psk_parameters_wipe \in Seq(Calls)
    <2> DEFINE x == RunAll(s, p2)
    <2>1. Owned(x, A) /\ IoOk(x) /\ Cleared(s, p2, F2, A)
      BY <1>5 DEF ClearedIo, Cleared, Clears, Between, F2
    <2> HIDE DEF p2
    <2>2. Cleared(x, s2n_psk_parameters_wipe, PskCells, A) BY <2>1, PskWipeServed
    <2>3. IoOk(RunAll(x, s2n_psk_parameters_wipe))
      <3>1. Between(x, RunAll(x, s2n_psk_parameters_wipe), A, PskCells) BY <2>2 DEF Cleared, Clears
      <3> HIDE DEF x
      <3> QED BY <1>2, <2>1, <3>1, IoKept
    <2>4. Cleared(s, p3, F3, A) /\ RunAll(s, p3) = RunAll(x, s2n_psk_parameters_wipe)
      BY <2>1, <2>2, ThenCleared
    <2> QED BY <2>2, <2>3, <2>4 DEF ClearedIo, Cleared
  <1> DEFINE F4 == F3 \cup FreeObjects
  <1> HIDE DEF F3
  <1>7. ClearedIo(s, p4, F4, A) /\ c4 \in Seq(Calls)
    <2>1. \A f \in FreeObjects : \A x : Suits("s2n_free_object", f, x) BY <1>0, AlwaysSuits
    <2> HIDE DEF p3
    <2> QED BY <1>0, <1>1, <1>2, <1>6, <2>1, ThenEachIo
  <1> DEFINE F5 == F4 \cup IoContexts
  <1> HIDE DEF F4
  <1>8. ClearedIo(s, p5, F5, A) /\ s2n_connection_wipe_io \in Seq(Calls)
    <2> DEFINE x == RunAll(s, p4)
    <2>1. Owned(x, A) /\ IoOk(x) /\ Cleared(s, p4, F4, A) BY <1>7 DEF ClearedIo, Cleared, Clears, Between
    <2> HIDE DEF p4
    <2>2. Cleared(x, s2n_connection_wipe_io, IoContexts, A) /\ IoOk(RunAll(x, s2n_connection_wipe_io))
      BY <2>1, WipeIoServed
    <2>4. Cleared(s, p5, F5, A) /\ RunAll(s, p5) = RunAll(x, s2n_connection_wipe_io) BY <2>1, <2>2, ThenCleared
    <2> QED BY <2>2, <2>4 DEF ClearedIo, Cleared
  <1> DEFINE F6 == F5 \cup Data6
  <1> HIDE DEF F5
  <1>9. ClearedIo(s, p6, F6, A) /\ c6 \in Seq(Calls)
    <2>1. \A f \in Data6 : \A x : Suits("s2n_free", f, x) BY <1>0, AlwaysSuits
    <2> HIDE DEF p5
    <2> QED BY <1>0, <1>1, <1>2, <1>8, <2>1, ThenEachIo
  <1> DEFINE F7 == F6 \cup WipeCells
  <1> HIDE DEF F6
  <1>10. ClearedIo(s, p7, F7, A) /\ c7 \in Seq(Calls)
    <2>1. \A f \in WipeCells : \A x : Suits("s2n_stuffer_free", f, x) BY <1>0, AlwaysSuits
    <2> HIDE DEF p6
    <2> QED BY <1>0, <1>1, <1>2, <1>9, <2>1, ThenEachIo
  <1> DEFINE F8 == F7 \cup {"application_protocols_overridden"}
  <1> HIDE DEF F7
  <1>11. ClearedIo(s, p8, F8, A) /\ c8 \in Seq(Calls)
    <2>1. \A f \in {"application_protocols_overridden"} : \A x : Suits("s2n_free", f, x) BY <1>0, AlwaysSuits
    <2> HIDE DEF p7
    <2> QED BY <1>0, <1>1, <1>2, <1>10, <2>1, ThenEachIo
  <1> DEFINE F9 == F8 \cup {"cookie_stuffer"}
  <1> HIDE DEF F8
  <1>12. ClearedIo(s, p9, F9, A) /\ c9 \in Seq(Calls)
    <2>1. \A f \in {"cookie_stuffer"} : \A x : Suits("s2n_stuffer_free", f, x) BY <1>0, AlwaysSuits
    <2> HIDE DEF p8
    <2> QED BY <1>0, <1>1, <1>2, <1>11, <2>1, ThenEachIo
  <1> DEFINE F10 == F9 \cup {"self"}
  <1> HIDE DEF F9
  <1>13. ClearedIo(s, p10, F10, A) /\ c10 \in Seq(Calls)
    <2>1. \A f \in {"self"} : \A x : Suits("s2n_free_object", f, x) BY <1>0, AlwaysSuits
    <2> HIDE DEF p9
    <2> QED BY <1>0, <1>1, <1>2, <1>12, <2>1, ThenEachIo
  <1>14. Fields \subseteq F10
   
      BY DEF F10, F9, F8, F7, F6, F5, F4, F3, F2, Fields, Pointers, Library, Blobs, Stuffers, KeyCells, Keys1, Keys2,
             Keys3,
           PskCells, FreeObjects, IoContexts, Data6, WipeCells
  <1> HIDE DEF F10, c2, c4, c6, c7, c8, c9, c10
  <1>15. CASE s.m.init
    <2> HIDE DEF p10
    <2>1. Clears(s, t, F10, A) /\ IoOk(t) BY <1>3, <1>13 DEF ClearedIo, Cleared
    <2> HIDE DEF t
    <2>2. Owned(t, A) /\ t.m.init = s.m.init /\ t.ok /\ \A f \in Fields : ~Filled(t.c[f])
      BY <1>14, <1>15, <2>1 DEF Clears, Between
    <2> QED BY <2>1, <2>2 DEF t
  <1>16. CASE ~s.m.init
    <2>1. ~k.ok BY <1>4, <1>16
    <2>2. Goes(s, s2n_connection_wipe_keys, k) BY <1>4 DEF Goes, ClearedIo, Cleared
    <2>3. Between(s, k, A, KeyCells) /\ IoOk(k) BY <1>4 DEF ClearedIo, Cleared, Clears
    <2> HIDE DEF k
    <2>4. Goes(s, p2, k) BY <1>5, <2>1, <2>2, Skips
    <2> HIDE DEF p2
    <2>5. Goes(s, p3, k) BY <1>6, <2>1, <2>4, Skips
    <2> HIDE DEF p3
    <2>6. Goes(s, p4, k) BY <1>7, <2>1, <2>5, Skips
    <2> HIDE DEF p4
    <2>7. Goes(s, p5, k) BY <1>8, <2>1, <2>6, Skips
    <2> HIDE DEF p5
    <2>8. Goes(s, p6, k) BY <1>9, <2>1, <2>7, Skips
    <2> HIDE DEF p6
    <2>9. Goes(s, p7, k) BY <1>10, <2>1, <2>8, Skips
    <2> HIDE DEF p7
    <2>10. Goes(s, p8, k) BY <1>11, <2>1, <2>9, Skips
    <2> HIDE DEF p8
    <2>11. Goes(s, p9, k) BY <1>12, <2>1, <2>10, Skips
    <2> HIDE DEF p9
    <2>12. Goes(s, p10, k) BY <1>13, <2>1, <2>11, Skips
    <2> HIDE DEF p10
    <2>13. t = k BY <1>3, <2>12 DEF Goes
    <2>14. \A f \in Lasting : f \in Fields \ KeyCells
      BY DEF Lasting, Fields, Pointers, Library, KeyCells, Keys1, Keys2, Keys3
    <2> HIDE DEF t
    <2>15. Owned(t, A) /\ IoOk(t) /\ t.m.init = s.m.init /\ ~t.ok /\ \A f \in Lasting : t.c[f] = s.c[f]
      BY <2>1, <2>3, <2>13, <2>14 DEF Between
    <2> QED BY <2>15 DEF t
  <1> QED BY <1>15, <1>16

-----------------------------------------------------------------------------
(***************************************************************************)
(* The calls of the handlers: where each is in order, and that it keeps    *)
(* the other cells as they are.                                            *)
(***************************************************************************)
Fit(s, op, f, n) ==
    \/ op = "s2n_free" /\ f \in Blobs
    \/ op = "s2n_realloc" /\ Grows(f, s.c[f]) /\ n # 0
    \/ op = "s2n_alloc" /\ f \in Blobs /\ ~Filled(s.c[f]) /\ n # 0
    \/ op = "s2n_dup" /\ f \in Blobs /\ n # 0
    \/ op = "new" /\ f \in Objects /\ s.c[f].data = NoBlock /\ n = PagesOf(f)
    \/ op = "new_if_null" /\ f \in Objects /\ n = PagesOf(f)
    \/ /\ op \in {"s2n_stuffer_free", "s2n_stuffer_wipe", "s2n_stuffer_resize", "s2n_stuffer_write",
                  "s2n_stuffer_raw_read", "s2n_stuffer_raw_write", "s2n_stuffer_rewrite", "consumed"}
       /\ f \in Buffers
    \/ op = "s2n_stuffer_resize_if_empty" /\ f \in Buffers /\ n # 0
    \/ op = "s2n_stuffer_growable_alloc" /\ f \in Buffers /\ ~Filled(s.c[f])

\* A call that is in order.
LEMMA FitServed ==
    ASSUME NEW s, NEW A, Owned(s, A), s.ok, NEW op, NEW f \in Fields, NEW n \in Nat, Fit(s, op, f, n)
    PROVE  Served(s, Do(s, Call(op, f, n)), f, A)
  <1>1. CASE op = "s2n_free" /\ f \in Blobs BY <1>1, DoIs, FreeServed
  <1>2. CASE op = "s2n_realloc" /\ Grows(f, s.c[f]) /\ n # 0 BY <1>2, DoIs, ReallocServed
  <1>3. CASE op = "s2n_alloc" /\ f \in Blobs /\ ~Filled(s.c[f]) /\ n # 0 BY <1>3, DoIs, AllocServed
  <1>4. CASE op = "s2n_dup" /\ f \in Blobs /\ n # 0 BY <1>4, DoIs, DupServed
  <1>5. CASE op = "new" /\ f \in Objects /\ s.c[f].data = NoBlock /\ n = PagesOf(f) BY <1>5, DoIs, NewServed
  <1>6. CASE op = "new_if_null" /\ f \in Objects /\ n = PagesOf(f) BY <1>6, DoIs, NewIfNullServed
  <1>0. f \in Buffers => f \in Stuffers BY DEF Buffers
  <1>7. CASE op = "s2n_stuffer_free" /\ f \in Buffers BY <1>0, <1>7, DoStufferIs, StufferFreeServed
  <1>8. CASE op = "s2n_stuffer_wipe" /\ f \in Buffers BY <1>0, <1>8, DoStufferIs, WipeServed
  <1>9. CASE op = "s2n_stuffer_resize" /\ f \in Buffers BY <1>9, DoStufferIs, ResizeServed
  <1>10. CASE op = "s2n_stuffer_write" /\ f \in Buffers BY <1>10, DoStufferIs, WriteServed
  <1>11. CASE op = "s2n_stuffer_raw_read" /\ f \in Buffers BY <1>0, <1>11, DoStufferIs, RawReadServed
  <1>12. CASE op = "s2n_stuffer_raw_write" /\ f \in Buffers BY <1>12, DoStufferIs, RawWriteServed
  <1>13. CASE op = "s2n_stuffer_rewrite" /\ f \in Buffers BY <1>0, <1>13, DoStufferIs, RewriteServed
  <1>14. CASE op = "consumed" /\ f \in Buffers
    <2>1. Do(s, Call(op, f, n)) = s \/ Do(s, Call(op, f, n)) = Fail(s) BY <1>14, DoStufferIs DEF Ensure
    <2> QED BY <2>1, ServedItself, Failed
  <1>15. CASE op = "s2n_stuffer_resize_if_empty" /\ f \in Buffers /\ n # 0
    BY <1>15, DoStufferIs, ResizeIfEmptyServed
  <1>16. CASE op = "s2n_stuffer_growable_alloc" /\ f \in Buffers /\ ~Filled(s.c[f])
    <2>1. Do(s, Call(op, f, n)) = s2n_stuffer_growable_alloc(s, f, n) BY <1>16, DoStufferIs
    <2>2. CASE n = 0 BY <1>0, <1>16, <2>1, <2>2, GrowableAllocServed
    <2>3. CASE n # 0 BY <1>16, <2>1, <2>3, GrowableAllocSomeServed
    <2> QED BY <2>2, <2>3
  <1> QED BY <1>1, <1>2, <1>3, <1>4, <1>5, <1>6, <1>7, <1>8, <1>9, <1>10, <1>11, <1>12, <1>13, <1>14, <1>15, <1>16
          DEF Fit

\* The same, if the calls before it succeeded.
LEMMA DoServed ==
    ASSUME NEW s, NEW A, Owned(s, A), NEW op, NEW f \in Fields, NEW n \in Nat, s.ok => Fit(s, op, f, n)
    PROVE  Between(s, Do(s, Call(op, f, n)), A, {f})
  <1>1. CASE s.ok
    <2> DEFINE t == Do(s, Call(op, f, n))
    <2>1. Served(s, t, f, A) BY <1>1, FitServed
    <2> HIDE DEF t
    <2>2. Between(s, t, A, {f}) BY <1>1, <2>1, BetweenServed
    <2> QED BY <2>2 DEF t
  <1>2. CASE ~s.ok
    <2>1. Do(s, Call(op, f, n)) = s BY <1>2 DEF Do
    <2> QED BY <2>1, BetweenItself
  <1> QED BY <1>1, <1>2

\* What s2n_free and s2n_stuffer_free leave.
LEMMA FreedCell ==
    ASSUME NEW s, NEW A, Owned(s, A), NEW f, NEW op,
           (op = "s2n_free" /\ f \in Blobs) \/ (op = "s2n_stuffer_free" /\ f \in Stuffers)
    PROVE  LET t == Do(s, Call(op, f, 0)) IN t.ok => ~Filled(t.c[f])
  <1> DEFINE t == Do(s, Call(op, f, 0))
  <1>1. CASE s.ok
    <2>1. Suits(op, f, s.c[f]) /\ op \in Freeing BY AlwaysSuits
    <2>2. EachDone(s, t, op, f, A) BY <1>1, <2>1, EachCall
    <2> HIDE DEF t
    <2>3. t.ok => ~Filled(t.c[f]) BY <2>1, <2>2 DEF EachDone, After
    <2> QED BY <2>3 DEF t
  <1>2. CASE ~s.ok BY <1>2 DEF Do
  <1> QED BY <1>1, <1>2

\* Functions of two, three and four calls.
LEMMA RunTwo ==
    ASSUME NEW s, NEW x, NEW y
    PROVE  RunAll(s, <<x, y>>) = Do(Do(s, x), y)
  <1> DEFINE q == <<x, y>>
  <1>0. Len(q) = 2 /\ q[1] = x /\ q[2] = y OBVIOUS
  <1> HIDE DEF q
  <1>9. Len(q) \in Nat BY <1>0
  <1>1. PICK a : IsRun(a, s, q, Len(q)) /\ RunAll(s, q) = a[Len(q)] BY <1>9, RunIs
  <1>2. a[0] = s /\ \A i \in 1..2 : a[i] = Do(a[i - 1], q[i]) BY <1>0, <1>1, <1>9, RunAt
  <1>3. a[1] = Do(a[1 - 1], q[1]) /\ a[2] = Do(a[2 - 1], q[2]) BY <1>2
  <1>4. RunAll(s, q) = Do(Do(s, x), y) BY <1>0, <1>1, <1>2, <1>3
  <1> QED BY <1>4 DEF q

LEMMA RunThree ==
    ASSUME NEW s, NEW x, NEW y, NEW z
    PROVE  RunAll(s, <<x, y, z>>) = Do(Do(Do(s, x), y), z)
  <1> DEFINE q == <<x, y, z>>
  <1>0. Len(q) = 3 /\ q[1] = x /\ q[2] = y /\ q[3] = z OBVIOUS
  <1> HIDE DEF q
  <1>9. Len(q) \in Nat BY <1>0
  <1>1. PICK a : IsRun(a, s, q, Len(q)) /\ RunAll(s, q) = a[Len(q)] BY <1>9, RunIs
  <1>2. a[0] = s /\ \A i \in 1..3 : a[i] = Do(a[i - 1], q[i]) BY <1>0, <1>1, <1>9, RunAt
  <1>3. a[1] = Do(a[1 - 1], q[1]) /\ a[2] = Do(a[2 - 1], q[2]) /\ a[3] = Do(a[3 - 1], q[3]) BY <1>2
  <1>4. RunAll(s, q) = Do(Do(Do(s, x), y), z) BY <1>0, <1>1, <1>2, <1>3
  <1> QED BY <1>4 DEF q

LEMMA RunFour ==
    ASSUME NEW s, NEW x, NEW y, NEW z, NEW v
    PROVE  RunAll(s, <<x, y, z, v>>) = Do(Do(Do(Do(s, x), y), z), v)
  <1> DEFINE q == <<x, y, z, v>>
  <1>0. Len(q) = 4 /\ q[1] = x /\ q[2] = y /\ q[3] = z /\ q[4] = v OBVIOUS
  <1> HIDE DEF q
  <1>9. Len(q) \in Nat BY <1>0
  <1>1. PICK a : IsRun(a, s, q, Len(q)) /\ RunAll(s, q) = a[Len(q)] BY <1>9, RunIs
  <1>2. a[0] = s /\ \A i \in 1..4 : a[i] = Do(a[i - 1], q[i]) BY <1>0, <1>1, <1>9, RunAt
  <1>3. /\ a[1] = Do(a[1 - 1], q[1]) /\ a[2] = Do(a[2 - 1], q[2]) /\ a[3] = Do(a[3 - 1], q[3])
        /\ a[4] = Do(a[4 - 1], q[4])
    BY <1>2
  <1>4. RunAll(s, q) = Do(Do(Do(Do(s, x), y), z), v) BY <1>0, <1>1, <1>2, <1>3
  <1> QED BY <1>4 DEF q

\* A handler of one call.
LEMMA OneServed ==
    ASSUME NEW s, NEW A, Owned(s, A), NEW op, NEW f \in Fields, NEW n \in Nat, Fit(s, op, f, n)
    PROVE  Between(s, RunAll(s, <<Call(op, f, n)>>), A, {f})
  BY DoServed, RunOne

\* Several calls on one cell.
LEMMA AgainServed ==
    ASSUME NEW s, NEW t, NEW A, NEW f \in Fields, Between(s, t, A, {f}),
           NEW op, NEW n \in Nat, t.ok => Fit(t, op, f, n)
    PROVE  Between(s, Do(t, Call(op, f, n)), A, {f})
  <1> DEFINE u == Do(t, Call(op, f, n))
  <1>1. Owned(t, A) BY DEF Between
  <1>2. Between(t, u, A, {f}) BY <1>1, DoServed
  <1> HIDE DEF u
  <1>3. Between(s, u, A, {f} \cup {f}) BY <1>2, BetweenBetween
  <1>4. Between(s, u, A, {f}) BY <1>3, BetweenMore
  <1> QED BY <1>4 DEF u

-----------------------------------------------------------------------------
(***************************************************************************)
(* The handlers.                                                           *)
(***************************************************************************)
LEMMA HandlerNames ==
    DOMAIN Handler =
        {"s2n_connection_set_read_fd",
         "s2n_connection_set_write_fd",
         "s2n_connection_set_quic_transport_parameters",
         "s2n_connection_append_protocol_preference",
         "s2n_connection_set_server_early_data_context",
         "s2n_connection_set_session",
         "s2n_connection_append_psk",
         "s2n_psk_parameters_wipe_secrets",
         "s2n_collect_client_hello",
         "s2n_conn_reset_retry_values",
         "s2n_quic_transport_params_recv",
         "s2n_cookie_recv",
         "s2n_server_certificate_status_recv",
         "s2n_server_sct_list_recv",
         "s2n_client_cert_recv",
         "s2n_server_cert_recv",
         "s2n_ecc_evp_generate_ephemeral_key",
         "s2n_dh_generate_ephemeral_key",
         "s2n_kem_generate_keypair",
         "s2n_kem_recv_public_key",
         "s2n_large_message"}
  BY DEF Handler

\* The calls of each handler.
LEMMA HandlerIs ==
    /\ Handler["s2n_connection_set_read_fd"] = s2n_connection_set_read_fd
    /\ Handler["s2n_connection_set_write_fd"] = s2n_connection_set_write_fd
    /\ Handler["s2n_connection_set_quic_transport_parameters"] = s2n_connection_set_quic_transport_parameters
    /\ Handler["s2n_connection_append_protocol_preference"] = s2n_connection_append_protocol_preference
    /\ Handler["s2n_connection_set_server_early_data_context"] = s2n_connection_set_server_early_data_context
    /\ Handler["s2n_connection_set_session"] = s2n_connection_set_session
    /\ Handler["s2n_connection_append_psk"] = s2n_connection_append_psk
    /\ Handler["s2n_psk_parameters_wipe_secrets"] = s2n_psk_parameters_wipe_secrets
    /\ Handler["s2n_collect_client_hello"] = s2n_collect_client_hello
    /\ Handler["s2n_conn_reset_retry_values"] = s2n_conn_reset_retry_values
    /\ Handler["s2n_quic_transport_params_recv"] = s2n_quic_transport_params_recv
    /\ Handler["s2n_cookie_recv"] = s2n_cookie_recv
    /\ Handler["s2n_server_certificate_status_recv"] = s2n_server_certificate_status_recv
    /\ Handler["s2n_server_sct_list_recv"] = s2n_server_sct_list_recv
    /\ Handler["s2n_client_cert_recv"] = s2n_client_cert_recv
    /\ Handler["s2n_server_cert_recv"] = s2n_server_cert_recv
    /\ Handler["s2n_ecc_evp_generate_ephemeral_key"] = s2n_ecc_evp_generate_ephemeral_key
    /\ Handler["s2n_dh_generate_ephemeral_key"] = s2n_dh_generate_ephemeral_key
    /\ Handler["s2n_kem_generate_keypair"] = s2n_kem_generate_keypair \o s2n_kem_decapsulate
    /\ Handler["s2n_kem_recv_public_key"] = s2n_kem_recv_public_key \o s2n_kem_encapsulate
    /\ Handler["s2n_large_message"] = s2n_large_message
  BY DEF Handler

\* The cells a handshake allocates without looking, each by the messages that bring it.
Guarded == {"peer_quic_transport_parameters", "client_public_key", "server_public_key", "dh_params",
            "kem_public_key", "kem_shared_secret"}
Own(e) ==
    CASE e = "s2n_quic_transport_params_recv" -> {"peer_quic_transport_parameters"}
      [] e = "s2n_client_cert_recv" -> {"client_public_key"}
      [] e = "s2n_server_cert_recv" -> {"server_public_key"}
      [] e = "s2n_dh_generate_ephemeral_key" -> {"dh_params"}
      [] e \in {"s2n_kem_generate_keypair", "s2n_kem_recv_public_key"} -> {"kem_public_key", "kem_shared_secret"}
      [] OTHER -> {}
MayTouch(e) == (Fields \ (Lasting \cup IoContexts \cup Guarded)) \cup Own(e)
Sockets == {"s2n_connection_set_read_fd", "s2n_connection_set_write_fd"}

\* A handler keeps every block owned if it finds empty what it allocates without looking.
LEMMA HandlerServed ==
    ASSUME NEW s, NEW A, Owned(s, A), s.ok, NEW e \in DOMAIN Handler, e \notin Sockets, e # "s2n_cookie_recv",
           \A f \in Own(e) : ~Filled(s.c[f])
    PROVE  Between(s, RunAll(s, Handler[e]), A, MayTouch(e))
  <1>0. \A f : f \in Blobs \/ f \in Objects \/ f \in Buffers => f \in Fields BY FieldKinds DEF Buffers
  <1>00. \A t, f : Between(s, t, A, {f}) /\ f \in MayTouch(e) => Between(s, t, A, MayTouch(e)) BY BetweenMore
  <1>1. CASE e = "s2n_connection_append_protocol_preference"
    <2>1. "application_protocols_overridden" \in Blobs /\ 1 \in Nat BY DEF Blobs
    <2>5. Fit(s, "s2n_realloc", "application_protocols_overridden", 1) BY <2>1 DEF Fit, Grows
    <2>6. Handler[e] = <<Call("s2n_realloc", "application_protocols_overridden", 1)>>
      BY <1>1, HandlerIs DEF s2n_connection_append_protocol_preference
    <2>7. Between(s, RunAll(s, Handler[e]), A, {"application_protocols_overridden"})
      BY <1>0, <2>1, <2>5, <2>6, OneServed
    <2>8. "application_protocols_overridden" \in MayTouch(e)
      BY <1>1 DEF MayTouch, Own, Fields, Pointers, Library, Blobs, Stuffers, Lasting, IoContexts, Guarded
    <2> QED BY <1>00, <2>7, <2>8
  <1>2. CASE e = "s2n_connection_set_server_early_data_context"
    <2>1. "server_early_data_context" \in Blobs /\ 1 \in Nat BY DEF Blobs
    <2>5. Fit(s, "s2n_realloc", "server_early_data_context", 1) BY <2>1 DEF Fit, Grows
    <2>6. Handler[e] = <<Call("s2n_realloc", "server_early_data_context", 1)>>
      BY <1>2, HandlerIs DEF s2n_connection_set_server_early_data_context
    <2>7. Between(s, RunAll(s, Handler[e]), A, {"server_early_data_context"}) BY <1>0, <2>1, <2>5, <2>6, OneServed
    <2>8. "server_early_data_context" \in MayTouch(e)
      BY <1>2 DEF MayTouch, Own, Fields, Pointers, Library, Blobs, Stuffers, Lasting, IoContexts, Guarded
    <2> QED BY <1>00, <2>7, <2>8
  <1>3. CASE e = "s2n_connection_set_session"
    <2>1. "client_ticket" \in Blobs /\ 1 \in Nat BY DEF Blobs
    <2>5. Fit(s, "s2n_realloc", "client_ticket", 1) BY <2>1 DEF Fit, Grows
    <2>6. Handler[e] = <<Call("s2n_realloc", "client_ticket", 1)>> BY <1>3, HandlerIs DEF s2n_connection_set_session
    <2>7. Between(s, RunAll(s, Handler[e]), A, {"client_ticket"}) BY <1>0, <2>1, <2>5, <2>6, OneServed
    <2>8. "client_ticket" \in MayTouch(e)
      BY <1>3 DEF MayTouch, Own, Fields, Pointers, Library, Blobs, Stuffers, Lasting, IoContexts, Guarded
    <2> QED BY <1>00, <2>7, <2>8
  <1>4. CASE e = "s2n_psk_parameters_wipe_secrets"
    <2>1. "psk_secret" \in Blobs /\ 0 \in Nat BY DEF Blobs
    <2>5. Fit(s, "s2n_free", "psk_secret", 0) BY <2>1 DEF Fit
    <2>6. Handler[e] = <<Call("s2n_free", "psk_secret", 0)>> BY <1>4, HandlerIs DEF s2n_psk_parameters_wipe_secrets
    <2>7. Between(s, RunAll(s, Handler[e]), A, {"psk_secret"}) BY <1>0, <2>1, <2>5, <2>6, OneServed
    <2>8. "psk_secret" \in MayTouch(e)
      BY <1>4 DEF MayTouch, Own, Fields, Pointers, Library, Blobs, Stuffers, Lasting, IoContexts, Guarded
    <2> QED BY <1>00, <2>7, <2>8
  <1>5. CASE e = "s2n_quic_transport_params_recv"
    <2>1. "peer_quic_transport_parameters" \in Blobs /\ 1 \in Nat BY DEF Blobs
    <2>2. ~Filled(s.c["peer_quic_transport_parameters"]) BY <1>5 DEF Own
    <2>5. Fit(s, "s2n_alloc", "peer_quic_transport_parameters", 1) BY <2>1, <2>2 DEF Fit
    <2>6. Handler[e] = <<Call("s2n_alloc", "peer_quic_transport_parameters", 1)>>
      BY <1>5, HandlerIs DEF s2n_quic_transport_params_recv
    <2>7. Between(s, RunAll(s, Handler[e]), A, {"peer_quic_transport_parameters"})
      BY <1>0, <2>1, <2>5, <2>6, OneServed
    <2>8. "peer_quic_transport_parameters" \in MayTouch(e)
      BY <1>5 DEF MayTouch, Own, Fields, Pointers, Library, Blobs, Stuffers, Lasting, IoContexts, Guarded
    <2> QED BY <1>00, <2>7, <2>8
  <1>6. CASE e = "s2n_server_certificate_status_recv"
    <2>1. "status_response" \in Blobs /\ 1 \in Nat BY DEF Blobs
    <2>5. Fit(s, "s2n_realloc", "status_response", 1) BY <2>1 DEF Fit, Grows
    <2>6. Handler[e] = <<Call("s2n_realloc", "status_response", 1)>>
      BY <1>6, HandlerIs DEF s2n_server_certificate_status_recv
    <2>7. Between(s, RunAll(s, Handler[e]), A, {"status_response"}) BY <1>0, <2>1, <2>5, <2>6, OneServed
    <2>8. "status_response" \in MayTouch(e)
      BY <1>6 DEF MayTouch, Own, Fields, Pointers, Library, Blobs, Stuffers, Lasting, IoContexts, Guarded
    <2> QED BY <1>00, <2>7, <2>8
  <1>7. CASE e = "s2n_server_sct_list_recv"
    <2>1. "ct_response" \in Blobs /\ 1 \in Nat BY DEF Blobs
    <2>5. Fit(s, "s2n_dup", "ct_response", 1) BY <2>1 DEF Fit
    <2>6. Handler[e] = <<Call("s2n_dup", "ct_response", 1)>> BY <1>7, HandlerIs DEF s2n_server_sct_list_recv
    <2>7. Between(s, RunAll(s, Handler[e]), A, {"ct_response"}) BY <1>0, <2>1, <2>5, <2>6, OneServed
    <2>8. "ct_response" \in MayTouch(e)
      BY <1>7 DEF MayTouch, Own, Fields, Pointers, Library, Blobs, Stuffers, Lasting, IoContexts, Guarded
    <2> QED BY <1>00, <2>7, <2>8
  <1>8. CASE e = "s2n_server_cert_recv"
    <2>1. "server_public_key" \in Objects /\ 0 \in Nat BY DEF Objects, Library
    <2>2. ~Filled(s.c["server_public_key"]) BY <1>8 DEF Own
    <2>3. s.c["server_public_key"].data = NoBlock BY <1>0, <2>1, <2>2, ObjectIsNotUsers, NullCell
    <2>4. PagesOf("server_public_key") = 0 BY DEF PagesOf, Pointers
    <2>5. Fit(s, "new", "server_public_key", 0) BY <2>1, <2>3, <2>4 DEF Fit
    <2>6. Handler[e] = <<Call("new", "server_public_key", 0)>> BY <1>8, HandlerIs DEF s2n_server_cert_recv
    <2>7. Between(s, RunAll(s, Handler[e]), A, {"server_public_key"}) BY <1>0, <2>1, <2>5, <2>6, OneServed
    <2>8. "server_public_key" \in MayTouch(e)
      BY <1>8 DEF MayTouch, Own, Fields, Pointers, Library, Blobs, Stuffers, Lasting, IoContexts, Guarded
    <2> QED BY <1>00, <2>7, <2>8
  <1>9. CASE e = "s2n_ecc_evp_generate_ephemeral_key"
    <2>1. "keyshare" \in Objects /\ 0 \in Nat BY DEF Objects, Library
    <2>4. PagesOf("keyshare") = 0 BY DEF PagesOf, Pointers
    <2>5. Fit(s, "new_if_null", "keyshare", 0) BY <2>1, <2>4 DEF Fit
    <2>6. Handler[e] = <<Call("new_if_null", "keyshare", 0)>>
      BY <1>9, HandlerIs DEF s2n_ecc_evp_generate_ephemeral_key
    <2>7. Between(s, RunAll(s, Handler[e]), A, {"keyshare"}) BY <1>0, <2>1, <2>5, <2>6, OneServed
    <2>8. "keyshare" \in MayTouch(e)
      BY <1>9 DEF MayTouch, Own, Fields, Pointers, Library, Blobs, Stuffers, Lasting, IoContexts, Guarded
    <2> QED BY <1>00, <2>7, <2>8
  <1>10. CASE e = "s2n_dh_generate_ephemeral_key"
    <2>1. "dh_params" \in Objects /\ 0 \in Nat BY DEF Objects, Library
    <2>2. ~Filled(s.c["dh_params"]) BY <1>10 DEF Own
    <2>3. s.c["dh_params"].data = NoBlock BY <1>0, <2>1, <2>2, ObjectIsNotUsers, NullCell
    <2>4. PagesOf("dh_params") = 0 BY DEF PagesOf, Pointers
    <2>5. Fit(s, "new", "dh_params", 0) BY <2>1, <2>3, <2>4 DEF Fit
    <2>6. Handler[e] = <<Call("new", "dh_params", 0)>> BY <1>10, HandlerIs DEF s2n_dh_generate_ephemeral_key
    <2>7. Between(s, RunAll(s, Handler[e]), A, {"dh_params"}) BY <1>0, <2>1, <2>5, <2>6, OneServed
    <2>8. "dh_params" \in MayTouch(e)
      BY <1>10 DEF MayTouch, Own, Fields, Pointers, Library, Blobs, Stuffers, Lasting, IoContexts, Guarded
    <2> QED BY <1>00, <2>7, <2>8
  <1>11. CASE e = "s2n_large_message"
    <2>1. "handshake_io" \in Buffers /\ Large + 1 \in Nat BY DEF Buffers, Stuffers, Large
    <2>5. Fit(s, "s2n_stuffer_write", "handshake_io", Large + 1) BY <2>1 DEF Fit
    <2>6. Handler[e] = <<Call("s2n_stuffer_write", "handshake_io", Large + 1)>>
      BY <1>11, HandlerIs DEF s2n_large_message
    <2>7. Between(s, RunAll(s, Handler[e]), A, {"handshake_io"}) BY <1>0, <2>1, <2>5, <2>6, OneServed
    <2>8. "handshake_io" \in MayTouch(e)
      BY <1>11 DEF MayTouch, Own, Fields, Pointers, Library, Blobs, Stuffers, Lasting, IoContexts, Guarded
    <2> QED BY <1>00, <2>7, <2>8
  <1>12. CASE e = "s2n_connection_append_psk"
    <2>1. Handler[e] = <<Call("append_psk", "psk_list", 0)>> BY <1>12, HandlerIs DEF s2n_connection_append_psk
    <2>2. RunAll(s, Handler[e]) = AppendPsk(s) BY <2>1, RunOne, DoConnectionIs
    <2>3. Between(s, RunAll(s, Handler[e]), A, PskCells) BY <2>2, AppendPskServed
    <2>4. PskCells \subseteq MayTouch(e)
      BY <1>12 DEF PskCells, MayTouch, Own, Fields, Pointers, Library, Blobs, Stuffers, Lasting, IoContexts, Guarded
    <2> QED BY <2>3, <2>4, BetweenMore
  <1>13. CASE e = "s2n_connection_set_quic_transport_parameters"
    <2> DEFINE g == "our_quic_transport_parameters"
               x == Do(s, Call("s2n_free", g, 0))
               y == Do(x, Call("s2n_alloc", g, 1))
    <2>1. g \in Blobs /\ g \in Fields BY <1>0 DEF Blobs
    <2>2. RunAll(s, Handler[e]) = y BY <1>13, HandlerIs, RunTwo DEF s2n_connection_set_quic_transport_parameters
    <2>3. Between(s, x, A, {g})
      <3>1. Fit(s, "s2n_free", g, 0) BY <2>1 DEF Fit
      <3> QED BY <2>1, <3>1, DoServed
    <2>4. x.ok => ~Filled(x.c[g]) BY <2>1, FreedCell
    <2> HIDE DEF g, x
    <2>5. x.ok => Fit(x, "s2n_alloc", g, 1) BY <2>1, <2>4 DEF Fit
    <2>6. Between(s, y, A, {g}) BY <2>1, <2>3, <2>5, AgainServed
    <2>7. g \in MayTouch(e)
      BY <1>13 DEF g, MayTouch, Own, Fields, Pointers, Library, Blobs, Stuffers, Lasting, IoContexts, Guarded
    <2> HIDE DEF y
    <2> QED BY <1>00, <2>2, <2>6, <2>7
  <1>14. CASE e = "s2n_collect_client_hello"
    <2> DEFINE g == "raw_message"
               x == Do(s, Call("s2n_stuffer_resize", g, 1))
               y == Do(x, Call("s2n_stuffer_write", g, 1))
               z == Do(y, Call("s2n_stuffer_raw_read", g, 0))
    <2>1. g \in Buffers /\ g \in Fields BY <1>0 DEF Buffers, Stuffers
    <2>2. RunAll(s, Handler[e]) = z BY <1>14, HandlerIs, RunThree DEF s2n_collect_client_hello
    <2>3. \A v : /\ Fit(v, "s2n_stuffer_resize", g, 1) /\ Fit(v, "s2n_stuffer_write", g, 1)
                /\ Fit(v, "s2n_stuffer_raw_read", g, 0)
      BY <2>1 DEF Fit
    <2>7. g \in MayTouch(e)
      BY <1>14 DEF MayTouch, Own, Fields, Pointers, Library, Blobs, Stuffers, Lasting, IoContexts, Guarded
    <2> HIDE DEF g
    <2>4. Between(s, x, A, {g}) BY <2>1, <2>3, DoServed
    <2> HIDE DEF x
    <2>5. Between(s, y, A, {g}) BY <2>1, <2>3, <2>4, AgainServed
    <2> HIDE DEF y
    <2>6. Between(s, z, A, {g}) BY <2>1, <2>3, <2>5, AgainServed
    <2> HIDE DEF z
    <2> QED BY <1>00, <2>2, <2>6, <2>7
  <1>15. CASE e = "s2n_conn_reset_retry_values"
    <2> DEFINE g == "raw_message"
               x == Do(s, Call("s2n_stuffer_wipe", g, 0))
               y == Do(x, Call("s2n_stuffer_resize", g, 0))
               z == Do(y, Call("s2n_stuffer_free", g, 0))
               w == Do(z, Call("s2n_stuffer_growable_alloc", g, 0))
    <2>1. g \in Buffers /\ g \in Fields /\ g \in Stuffers BY <1>0 DEF Buffers, Stuffers
    <2>2. RunAll(s, Handler[e]) = w BY <1>15, HandlerIs, RunFour DEF s2n_conn_reset_retry_values
    <2>3. \A v : /\ Fit(v, "s2n_stuffer_wipe", g, 0) /\ Fit(v, "s2n_stuffer_resize", g, 0)
                /\ Fit(v, "s2n_stuffer_free", g, 0)
      BY <2>1 DEF Fit
    <2>7. g \in MayTouch(e)
      BY <1>15 DEF MayTouch, Own, Fields, Pointers, Library, Blobs, Stuffers, Lasting, IoContexts, Guarded
    <2> HIDE DEF g
    <2>4. Between(s, x, A, {g}) BY <2>1, <2>3, DoServed
    <2> HIDE DEF x
    <2>5. Between(s, y, A, {g}) BY <2>1, <2>3, <2>4, AgainServed
    <2> HIDE DEF y
    <2>6. Between(s, z, A, {g}) BY <2>1, <2>3, <2>5, AgainServed
    <2>8. z.ok => ~Filled(z.c[g]) BY <2>1, <2>5, FreedCell DEF Between
    <2> HIDE DEF z
    <2>9. z.ok => Fit(z, "s2n_stuffer_growable_alloc", g, 0) BY <2>1, <2>8 DEF Fit
    <2>10. Between(s, w, A, {g}) BY <2>1, <2>6, <2>9, AgainServed
    <2> HIDE DEF w
    <2> QED BY <1>00, <2>2, <2>7, <2>10
  <1>16. CASE e = "s2n_client_cert_recv"
    <2> DEFINE g == "client_cert_chain"
               h == "client_public_key"
               x == Do(s, Call("s2n_dup", g, 1))
               y == Do(x, Call("new", h, 0))
    <2>1. g \in Blobs /\ h \in Objects /\ g \in Fields /\ h \in Fields /\ g # h BY <1>0 DEF Blobs, Objects, Library
    <2>2. RunAll(s, Handler[e]) = y
      BY <1>16, HandlerIs, RunTwo DEF s2n_client_cert_recv
    <2>7. g \in MayTouch(e) /\ h \in MayTouch(e)
      BY <1>16 DEF MayTouch, Own, Fields, Pointers, Library, Blobs, Stuffers, Lasting, IoContexts, Guarded
    <2>8. ~Filled(s.c[h]) BY <1>16 DEF Own
    <2>9. PagesOf(h) = 0 /\ h # "recv_io_context" BY DEF PagesOf, Pointers
    <2> HIDE DEF g, h
    <2>3. Fit(s, "s2n_dup", g, 1) BY <2>1, <2>8 DEF Fit
    <2>4. Between(s, x, A, {g}) BY <2>1, <2>3, DoServed
    <2> HIDE DEF x
    <2>5. Owned(x, A) /\ x.c[h] = s.c[h] BY <2>1, <2>4 DEF Between
    <2>10. x.c[h].data = NoBlock BY <2>1, <2>5, <2>8, <2>9, ObjectIsNotUsers, NullCell
    <2>6. Fit(x, "new", h, 0) BY <2>1, <2>9, <2>10 DEF Fit
    <2>11. Between(x, y, A, {h}) BY <2>1, <2>5, <2>6, DoServed
    <2> HIDE DEF y
    <2>12. Between(s, y, A, {g} \cup {h}) BY <2>4, <2>11, BetweenBetween
    <2> QED BY <2>2, <2>7, <2>12, BetweenMore
  <1>17. CASE e = "s2n_kem_generate_keypair"
    <2> DEFINE g == "kem_private_key"
               h == "kem_shared_secret"
               x == Do(s, Call("s2n_realloc", g, 1))
               y == Do(x, Call("s2n_alloc", h, 1))
    <2>1. g \in Blobs /\ h \in Blobs /\ g \in Fields /\ h \in Fields /\ g # h BY <1>0 DEF Blobs
    <2>2. RunAll(s, Handler[e]) = y
      <3> DEFINE p == <<Call("s2n_realloc", g, 1)>>
                 q == <<Call("s2n_alloc", h, 1)>>
      <3>1. Handler[e] = p \o q BY <1>17, HandlerIs DEF s2n_kem_generate_keypair, s2n_kem_decapsulate
      <3>2. p \in Seq(Calls) /\ q \in Seq(Calls)
        <4>1. "s2n_realloc" \in Ops /\ "s2n_alloc" \in Ops /\ 1 \in Nat BY DEF Ops
        <4> QED BY <2>1, <4>1, OneCall
      <3>3. RunAll(s, p) = x BY RunOne
      <3>4. RunAll(x, q) = y BY RunOne
      <3> HIDE DEF p, q, x, y
      <3> QED BY <3>1, <3>2, <3>3, <3>4, RunBoth
    <2>7. g \in MayTouch(e) /\ h \in MayTouch(e)
      BY <1>17 DEF MayTouch, Own, Fields, Pointers, Library, Blobs, Stuffers, Lasting, IoContexts, Guarded
    <2>8. ~Filled(s.c[h]) BY <1>17 DEF Own
    <2> HIDE DEF g, h
    <2>3. Fit(s, "s2n_realloc", g, 1) BY <2>1, <2>8 DEF Fit, Grows
    <2>4. Between(s, x, A, {g}) BY <2>1, <2>3, DoServed
    <2> HIDE DEF x
    <2>5. Owned(x, A) /\ x.c[h] = s.c[h] BY <2>1, <2>4 DEF Between
    <2>6. Fit(x, "s2n_alloc", h, 1) BY <2>1, <2>5, <2>8 DEF Fit
    <2>11. Between(x, y, A, {h}) BY <2>1, <2>5, <2>6, DoServed
    <2> HIDE DEF y
    <2>12. Between(s, y, A, {g} \cup {h}) BY <2>4, <2>11, BetweenBetween
    <2> QED BY <2>2, <2>7, <2>12, BetweenMore
  <1>18. CASE e = "s2n_kem_recv_public_key"
    <2> DEFINE g == "kem_public_key"
               h == "kem_shared_secret"
               x == Do(s, Call("s2n_alloc", g, 1))
               y == Do(x, Call("s2n_alloc", h, 1))
    <2>1. g \in Blobs /\ h \in Blobs /\ g \in Fields /\ h \in Fields /\ g # h BY <1>0 DEF Blobs
    <2>2. RunAll(s, Handler[e]) = y
      <3> DEFINE p == <<Call("s2n_alloc", g, 1)>>
                 q == <<Call("s2n_alloc", h, 1)>>
      <3>1. Handler[e] = p \o q BY <1>18, HandlerIs DEF s2n_kem_recv_public_key, s2n_kem_encapsulate
      <3>2. p \in Seq(Calls) /\ q \in Seq(Calls)
        <4>1. "s2n_alloc" \in Ops /\ "s2n_alloc" \in Ops /\ 1 \in Nat BY DEF Ops
        <4> QED BY <2>1, <4>1, OneCall
      <3>3. RunAll(s, p) = x BY RunOne
      <3>4. RunAll(x, q) = y BY RunOne
      <3> HIDE DEF p, q, x, y
      <3> QED BY <3>1, <3>2, <3>3, <3>4, RunBoth
    <2>7. g \in MayTouch(e) /\ h \in MayTouch(e)
      BY <1>18 DEF MayTouch, Own, Fields, Pointers, Library, Blobs, Stuffers, Lasting, IoContexts, Guarded
    <2>8. ~Filled(s.c[h]) /\ ~Filled(s.c[g]) BY <1>18 DEF Own
    <2> HIDE DEF g, h
    <2>3. Fit(s, "s2n_alloc", g, 1) BY <2>1, <2>8 DEF Fit
    <2>4. Between(s, x, A, {g}) BY <2>1, <2>3, DoServed
    <2> HIDE DEF x
    <2>5. Owned(x, A) /\ x.c[h] = s.c[h] BY <2>1, <2>4 DEF Between
    <2>6. Fit(x, "s2n_alloc", h, 1) BY <2>1, <2>5, <2>8 DEF Fit
    <2>11. Between(x, y, A, {h}) BY <2>1, <2>5, <2>6, DoServed
    <2> HIDE DEF y
    <2>12. Between(s, y, A, {g} \cup {h}) BY <2>4, <2>11, BetweenBetween
    <2> QED BY <2>2, <2>7, <2>12, BetweenMore
  <1> QED
    BY <1>1, <1>2, <1>3, <1>4, <1>5, <1>6, <1>7, <1>8, <1>9, <1>10, <1>11, <1>12, <1>13, <1>14, <1>15, <1>16, <1>17,
           <1>18, HandlerNames DEF Sockets

-----------------------------------------------------------------------------
(***************************************************************************)
(* The steps of a connection.                                              *)
(***************************************************************************)
LEMMA StateIs ==
    /\ State.m = heap /\ State.c = cell /\ State.managed_io = managed_io /\ State.limit = limit /\ State.ok
    /\ \A t : Becomes(t) => State'.m = t.m /\ State'.c = t.c /\ State'.managed_io = t.managed_io
    /\ State'.m = heap' /\ State'.c = cell' /\ State'.managed_io = managed_io' /\ State'.limit = limit' /\ State'.ok
  BY DEF State, Becomes

\* A function that has returned leaves its state.
LEMMA NextState ==
    ASSUME NEW t, NEW A, Owned(t, A), Becomes(t), limit' \in Limits
    PROVE  Owned(State', A) /\ (IoOk(t) => IoOk(State'))
  <1>1. t \in StateType BY Typed
  <1>2. State' \in StateType BY <1>1, StateIs DEF State, StateType, Becomes
  <1>3. State'.m = t.m /\ State'.c = t.c /\ State'.managed_io = t.managed_io BY StateIs
  <1> DEFINE u == State'
  <1> HIDE DEF u
  <1>4. u \in StateType /\ u.m = t.m /\ u.c = t.c /\ u.managed_io = t.managed_io BY <1>2, <1>3 DEF u
  <1>5. Owned(u, A) BY <1>4 DEF Owned
  <1>6. IoOk(t) => IoOk(u) BY <1>4 DEF IoOk
  <1> QED BY <1>5, <1>6 DEF u

\* MInv, for a phase in which nothing is promised of the handshake.
LEMMA Later ==
    ASSUME NEW t, Owned(t, abandoned), IoOk(t), Becomes(t), limit' \in Limits, abandoned' = abandoned,
           phase' \in {"done", "slim", "broken"}, scene' = "connections", \A f \in Lasting : Filled(t.c[f])
    PROVE  MInv'
  <1>1. Owned(State', abandoned) /\ IoOk(State') BY NextState
  <1>2. Owned(State, abandoned)' /\ IoOk(State)' BY <1>1 DEF Owned, IoOk
  <1>3. cell' = t.c BY DEF Becomes
  <1> QED BY <1>2, <1>3 DEF MInv, ReusedAsNew, Lasting, Filled

\* No connection, whatever the application will do next.
LEMMA NoneLeft ==
    ASSUME NEW t, NEW A, Owned(t, A), IoOk(t), Becomes(t), limit' \in Limits, abandoned' = A, phase' = "none",
           scene' \in {"forks", "connections"},
           \A f \in Fields : ~Filled(t.c[f])
    PROVE  MInv'
  <1>1. Owned(State', A) /\ IoOk(State') BY NextState
  <1>2. Owned(State, abandoned)' /\ IoOk(State)' BY <1>1 DEF Owned, IoOk
  <1>3. cell' = t.c BY DEF Becomes
  <1> QED BY <1>2, <1>3 DEF MInv, ReusedAsNew, Filled

\* MInv, for a connection that begins a handshake.
LEMMA Begun ==
    ASSUME NEW t, Owned(t, abandoned), IoOk(t), Becomes(t), limit' \in Limits, abandoned' = abandoned,
           phase' = "new", events' = {}, scene' = "connections", t.m.init, IsNew(t), \A f \in Lasting : Filled(t.c[f])
    PROVE  MInv'
  <1>1. Owned(State', abandoned) /\ IoOk(State') BY NextState
  <1>2. Owned(State, abandoned)' /\ IoOk(State)' BY <1>1 DEF Owned, IoOk
  <1>3. cell' = t.c /\ heap' = t.m /\ managed_io' = t.managed_io BY DEF Becomes
  <1>4. \A f \in Fields \ {"cookie_stuffer"} : AsNew(f, cell'[f]) BY <1>3 DEF IsNew
  <1>5. ~managed_io' BY <1>3 DEF IsNew
  <1>6. ReusedAsNew'
    <2>1. \A f \in Fields \ {"cookie_stuffer"} :
              Shape(cell'[f]) = Shape(FreshCell(f)) /\ (Held(f) <=> ~(cell'[f].data = NoBlock))
      BY <1>4 DEF AsNew
    <2> QED BY <1>5, <2>1 DEF ReusedAsNew, Freed, Shape
  <1>7. \A f \in Guarded \cup IoContexts : cell'[f].data = NoBlock
    <2> SUFFICES ASSUME NEW f \in Guarded \cup IoContexts PROVE cell'[f].data = NoBlock OBVIOUS
    <2>1. f \in Fields \ {"cookie_stuffer"} /\ ~Held(f)
      BY DEF Guarded, IoContexts, Fields, Pointers, Library, Blobs, Stuffers, Held
    <2> QED BY <1>4, <2>1 DEF AsNew
  <1>8. \A f \in Guarded \cup IoContexts : cell'[f].data \notin Block /\ cell'[f].data # UserBlock
    BY <1>7, BlockIsOurs
  <1>9. Untouched'
    BY <1>3, <1>5, <1>8 DEF Untouched, Pending, Guarded, IoContexts
  <1> QED BY <1>2, <1>3, <1>6, <1>9 DEF MInv, Lasting, Filled

\* What MInv says of the state before a call.
LEMMA KeptLimit ==
    ASSUME MInv
    PROVE  limit \in Limits /\ Owned(State, abandoned) /\ IoOk(State) /\ State.ok
  <1>1. Owned(State, abandoned) /\ IoOk(State) /\ State.limit = limit /\ State.ok BY StateIs DEF MInv
  <1>2. State \in StateType BY <1>1, Typed
  <1> DEFINE u == State
  <1>3. u \in StateType BY <1>2
  <1> HIDE DEF u
  <1>4. u.limit \in Limits BY <1>3 DEF StateType
  <1> QED BY <1>1, <1>4 DEF u

\* s2n_connection_wipe.
LEMMA WipeStep ==
    ASSUME MInv, Wipe, UNCHANGED scene
    PROVE  MInv'
  <1> DEFINE s == State
             A == abandoned
             t == RunAll(s, s2n_connection_wipe)
  <1>1. /\ phase # "none" /\ Becomes(t) /\ phase' = (IF t.ok THEN "new" ELSE "broken")
        /\ events' = {} /\ limit' = limit /\ abandoned' = abandoned
    BY DEF Wipe
  <1>2. limit \in Limits /\ Owned(s, A) /\ IoOk(s) BY KeptLimit
  <1>3. \A f \in Lasting : Filled(s.c[f]) BY <1>1, StateIs DEF MInv, Lasting, Filled
  <1>4. scene' = "connections" BY <1>1 DEF MInv
  <1> HIDE DEF s, A
  <1>5. /\ Owned(t, A) /\ IoOk(t) /\ (\A f \in Lasting : t.c[f] = s.c[f])
        /\ t.ok => t.m.init /\ IsNew(t)
    BY <1>2, <1>3, ConnectionWiped
  <1> HIDE DEF t
  <1>6. \A f \in Lasting : Filled(t.c[f]) BY <1>3, <1>5
  <1>7. Owned(t, abandoned) BY <1>5 DEF A
  <1>8. CASE t.ok BY <1>1, <1>2, <1>4, <1>5, <1>6, <1>7, <1>8, Begun
  <1>9. CASE ~t.ok BY <1>1, <1>2, <1>4, <1>5, <1>6, <1>7, <1>9, Later
  <1> QED BY <1>8, <1>9

\* s2n_connection_free.
LEMMA FreeStep ==
    ASSUME MInv, Free, UNCHANGED scene
    PROVE  MInv'
  <1> DEFINE s == State
             A == abandoned
             t == RunAll(s, s2n_connection_free)
  <1>1. /\ phase # "none" /\ Becomes(t) /\ phase' = (IF t.ok THEN "none" ELSE "broken")
        /\ events' = {} /\ limit' = limit /\ abandoned' = abandoned
    BY DEF Free
  <1>2. limit \in Limits /\ Owned(s, A) /\ IoOk(s) /\ s.ok BY KeptLimit
  <1>3. \A f \in Lasting : Filled(s.c[f]) BY <1>1, StateIs DEF MInv, Lasting, Filled
  <1>4. scene' = "connections" BY <1>1 DEF MInv
  <1> HIDE DEF s, A
  <1>5. /\ Owned(t, A) /\ IoOk(t) /\ (t.ok => \A f \in Fields : ~Filled(t.c[f]))
        /\ ~t.ok => \A f \in Lasting : t.c[f] = s.c[f]
    BY <1>2, ConnectionFreed
  <1> HIDE DEF t
  <1>6. ~t.ok => \A f \in Lasting : Filled(t.c[f]) BY <1>3, <1>5
  <1>7. Owned(t, abandoned) BY <1>5 DEF A
  <1>8. CASE t.ok BY <1>1, <1>2, <1>4, <1>5, <1>7, <1>8, NoneLeft
  <1>9. CASE ~t.ok BY <1>1, <1>2, <1>4, <1>5, <1>6, <1>7, <1>9, Later
  <1> QED BY <1>8, <1>9

\* A connection whose creation failed leaves all its blocks to nobody.
LEMMA NewActionStep ==
    ASSUME MInv, New, UNCHANGED scene, scene = "connections"
    PROVE  MInv'
  <1> DEFINE s == State
             A == abandoned
             t == RunAll(s, s2n_connection_new)
  <1>1. /\ phase = "none" /\ events' = {} /\ limit' = limit
        /\ t.ok => Becomes(t) /\ phase' = "new" /\ abandoned' = abandoned
        /\ ~t.ok => /\ heap' = t.m /\ cell' = NoCells /\ managed_io' = FALSE /\ phase' = "none"
                    /\ abandoned' = t.m.live \ {UserBlock}
    BY DEF New
  <1>2. limit \in Limits /\ Owned(s, A) /\ IoOk(s) BY KeptLimit
  <1>3. \A f \in Fields : ~Filled(s.c[f]) BY <1>1, StateIs DEF MInv, Filled
  <1> HIDE DEF s, A
  <1>5. /\ Owned(t, A)
        /\ t.ok => t.m.init /\ IoOk(t) /\ IsNew(t) /\ \A f \in Lasting : Filled(t.c[f])
    BY <1>2, <1>3, ConnectionCreated
  <1> HIDE DEF t
  <1>7. Owned(t, abandoned) BY <1>5 DEF A
  <1>8. CASE t.ok BY <1>1, <1>2, <1>5, <1>7, <1>8, Begun
  <1>9. CASE ~t.ok
    <2>0. t.m \in HeapType /\ t.m.live \subseteq Block /\ IsFiniteSet(t.m.live) /\ ~t.m.bad BY <1>5, Typed
    <2>1. abandoned' = t.m.live BY <1>1, <1>9, <2>0, BlockIsOurs
    <2> DEFINE u == State'
               L == t.m.live
    <2>2. u.m = t.m /\ u.c = NoCells /\ u.managed_io = FALSE /\ u.limit = limit' BY <1>1, <1>9, StateIs
    <2>3. NoCells \in [Fields -> CellType] /\ \A f \in Fields : NoCells[f] = Empty BY EmptyCell DEF NoCells
    <2>4. u \in StateType BY <1>1, <1>2, <1>9, <2>0, <2>3, StateIs DEF State, StateType
    <2> HIDE DEF u, L
    <2>5. Owned(u, L)
      <3>1. \A f \in Fields : CellOk(f, u.c[f]) /\ ~Filled(u.c[f]) BY <2>2, <2>3, EmptyOk, EmptyCell
      <3> QED BY <2>0, <2>2, <2>4, <3>1 DEF Owned, L
    <2>6. IoOk(u) /\ \A f \in Fields : ~Filled(u.c[f])
      <3>1. IoContexts \subseteq Fields BY AllCells
      <3>2. \A f \in IoContexts : u.c[f] = Empty BY <2>2, <2>3, <3>1
      <3> QED BY <2>2, <2>3, <3>2, EmptyCell, BlockIsOurs DEF IoOk, IoContexts
    <2>7. Becomes(u) BY <1>1, <1>9, <2>2 DEF Becomes
    <2> QED BY <1>1, <1>2, <1>9, <2>1, <2>5, <2>6, <2>7, NoneLeft DEF L
  <1> QED BY <1>8, <1>9

\* A handler touches what it allocates without looking, and what others may.
LEMMA HandledState ==
    ASSUME MInv, phase \in {"new", "handshake"}, NEW e \in Of(mode), e \notin Sockets, NEW t,
           Between(State, t, abandoned', MayTouch(e)), Becomes(t), phase' = "handshake",
           events' = events \cup {e} \/ events' = events \cup {e, "second_hello"}, UNCHANGED <<limit, mode, scene>>
    PROVE  MInv'
  <1>1. limit \in Limits /\ Owned(State, abandoned) /\ IoOk(State) BY KeptLimit
  <1>2. Untouched /\ scene = "connections" /\ \A f \in Lasting : Filled(cell[f]) BY DEF MInv, Lasting
  <1>3. MayTouch(e) \cap IoContexts = {} /\ MayTouch(e) \cap Lasting = {}
    BY DEF MayTouch, Own, IoContexts, Lasting, Guarded
  <1>4. Owned(t, abandoned') /\ IoOk(t) BY <1>1, <1>3, IoKept DEF Between
  <1>5. Owned(State', abandoned') /\ IoOk(State') BY <1>1, <1>4, NextState
  <1>6. Owned(State, abandoned)' /\ IoOk(State)' BY <1>5 DEF Owned, IoOk
  <1>7. /\ cell' = t.c /\ heap' = t.m /\ managed_io' = t.managed_io
        /\ t.managed_io = managed_io /\ t.m.init = heap.init
        /\ \A f \in Fields \ MayTouch(e) : t.c[f] = cell[f]
    BY StateIs DEF Becomes, Between
  <1>8. \A f \in (IoContexts \cup Lasting \cup Guarded) \ Own(e) : cell'[f] = cell[f]
    <2>1. \A f \in (IoContexts \cup Lasting \cup Guarded) \ Own(e) : f \in Fields \ MayTouch(e)
      BY DEF MayTouch, IoContexts, Lasting, Guarded, Fields, Pointers, Library, Blobs, Stuffers
    <2> QED BY <1>7, <2>1
  <1>9. \A f \in IoContexts \cup Lasting : cell'[f] = cell[f]
    <2>1. \A f \in IoContexts \cup Lasting : f \notin Own(e) BY DEF Own, IoContexts, Lasting
    <2> QED BY <1>8, <2>1
  <1>10. \A f \in Lasting : Filled(cell'[f]) BY <1>2, <1>9
  <1>11. Untouched'
    <2>1. heap'.init /\ events' \subseteq Of(mode') \cup {"set_ctx", "second_hello"} BY <1>2, <1>7 DEF Untouched
    <2>2. /\ Pending("s2n_connection_set_read_fd", {"recv_io_context"})'
          /\ Pending("s2n_connection_set_write_fd", {"send_io_context"})'
          /\ "set_ctx" \notin events' => cell'["recv_io_context"].data # UserBlock
          /\ events' \cap {"s2n_connection_set_read_fd", "s2n_connection_set_write_fd"} = {} => ~managed_io'
      BY <1>2, <1>7, <1>9 DEF Untouched, Pending, IoContexts
    <2>3. /\ Pending("s2n_quic_transport_params_recv", {"peer_quic_transport_parameters"})'
          /\ Pending("s2n_client_cert_recv", {"client_public_key"})'
          /\ Pending("s2n_server_cert_recv", {"server_public_key"})'
          /\ Pending("s2n_dh_generate_ephemeral_key", {"dh_params"})'
      <3>1. \A x, f : f \in Guarded /\ f \notin Own(e) /\ Pending(x, {f}) => Pending(x, {f})'
        BY <1>8 DEF Pending
      <3>2. /\ e # "s2n_quic_transport_params_recv" => "peer_quic_transport_parameters" \notin Own(e)
            /\ e # "s2n_client_cert_recv" => "client_public_key" \notin Own(e)
            /\ e # "s2n_server_cert_recv" => "server_public_key" \notin Own(e)
            /\ e # "s2n_dh_generate_ephemeral_key" => "dh_params" \notin Own(e)
        BY DEF Own
      <3>3. \A f : Pending(e, {f})' BY DEF Pending
      <3> QED BY <1>2, <3>1, <3>2, <3>3 DEF Guarded, Untouched
    <2>4. events' \cap {"s2n_kem_generate_keypair", "s2n_kem_recv_public_key"} = {} =>
             \A f \in {"kem_public_key", "kem_shared_secret"} : cell'[f].data \notin Block
      <3>1. e \notin {"s2n_kem_generate_keypair", "s2n_kem_recv_public_key"} =>
               "kem_public_key" \notin Own(e) /\ "kem_shared_secret" \notin Own(e)
        BY DEF Own
      <3> QED BY <1>2, <1>8, <3>1 DEF Guarded, Untouched
    <2> QED BY <2>1, <2>2, <2>3, <2>4 DEF Untouched
  <1> QED BY <1>2, <1>6, <1>10, <1>11 DEF MInv, ReusedAsNew, Lasting, Filled

\* What a handler allocates without looking is not there yet.
LEMMA NotYet ==
    ASSUME MInv, ~Repeats, NEW e, Handle(e)
    PROVE  \A f \in Own(e) : ~Filled(cell[f])
  <1>1. phase \in {"new", "handshake"} /\ e \in Of(mode) /\ (Once(e) \/ e \in Again) BY DEF Handle
  <1>2. Untouched BY <1>1 DEF MInv
  <1>3. e # "s2n_collect_client_hello" => e \notin events BY <1>1 DEF Once, Again
  <1>4. CASE e \in {"s2n_kem_generate_keypair", "s2n_kem_recv_public_key"}
    <2>1. events \cap {"s2n_kem_generate_keypair", "s2n_kem_recv_public_key"} = {}
      <3>1. CASE mode = "client"
        <4>1. "s2n_kem_generate_keypair" \notin Of(mode) BY <3>1 DEF Of
        <4> QED BY <1>1, <1>2, <1>3, <1>4, <4>1 DEF Untouched
      <3>2. CASE mode # "client"
        <4>1. "s2n_kem_recv_public_key" \notin Of(mode) BY <3>2 DEF Of
        <4> QED BY <1>1, <1>2, <1>3, <1>4, <4>1 DEF Untouched
      <3> QED BY <3>1, <3>2
    <2> QED BY <1>2, <1>4, <2>1 DEF Untouched, Own, Filled
  <1>5. CASE e \notin {"s2n_kem_generate_keypair", "s2n_kem_recv_public_key"}
    BY <1>2, <1>3, <1>5 DEF Untouched, Own, Filled, Pending
  <1> QED BY <1>4, <1>5

\* A call or a message of the handshake, but for the sockets.
LEMMA HandleStep ==
    ASSUME MInv, ~Repeats, ~Cookies, NEW e \in DOMAIN Handler, e \notin Sockets, Handle(e), UNCHANGED scene
    PROVE  MInv'
  <1> DEFINE s == State
             A == abandoned
             t == RunAll(s, Handler[e])
  <1>1. /\ phase \in {"new", "handshake"} /\ e \in Of(mode) /\ e # "s2n_cookie_recv" /\ Becomes(t)
        /\ phase' = "handshake" /\ events' = events \cup {e} /\ UNCHANGED <<limit, mode, abandoned>>
    BY DEF Handle
  <1>2. Owned(s, A) /\ s.ok BY KeptLimit
  <1>3. \A f \in Own(e) : ~Filled(s.c[f]) BY NotYet, StateIs
  <1> HIDE DEF s, A
  <1>4. Between(s, t, A, MayTouch(e)) BY <1>1, <1>2, <1>3, HandlerServed
  <1> HIDE DEF t
  <1>5. Between(State, t, abandoned', MayTouch(e)) BY <1>1, <1>4 DEF s, A
  <1> QED BY <1>1, <1>5, HandledState

\* s2n_alloc forgets the block of a blob, which is then nobody's.
LEMMA ForgetServed ==
    ASSUME NEW s, NEW A, Owned(s, A), s.ok, s.m.init, NEW f \in Blobs, NEW n \in Nat, n # 0
    PROVE  Between(s, s2n_alloc(s, f, n), A \cup (s.m.live \cap {s.c[f].data}), {f})
  <1> DEFINE c == s.c[f]
             d == NoBlob(c)
             u == [s EXCEPT !.c[f] = d]
             B == A \cup (s.m.live \cap {c.data})
             t == s2n_alloc(s, f, n)
  <1>1. f \in Fields /\ s \in StateType /\ c \in CellType /\ CellOk(f, c) BY Typed, FieldKinds
  <1>2. d \in CellType /\ ~Filled(d) /\ CellOk(f, d) BY <1>1, NoBlobCell, NoBlobOk
  <1>3. NoBlob(d) = d
    <2>1. NoBlob(d).growable = d.growable BY <1>1, <1>2, NoBlobCell DEF CellType
    <2> QED BY <1>1, <1>2, <2>1, NoBlobCell, CellsEqual
  <1> HIDE DEF d
  <1>4. /\ u \in StateType /\ u.m = s.m /\ u.managed_io = s.managed_io /\ u.ok = s.ok /\ u.c[f] = d
        /\ \A g \in Fields : g # f => u.c[g] = s.c[g]
    BY <1>1, <1>2 DEF StateType
  <1>5. t = s2n_realloc(u, f, n) BY DEF s2n_alloc, Ensure, d
  <1>6. [u EXCEPT !.c[f] = NoBlob(@)] = u
    <2>1. [u EXCEPT !.c[f] = NoBlob(@)] = [u EXCEPT !.c[f] = NoBlob(u.c[f])] OBVIOUS
    <2> HIDE DEF u
    <2>2. [u EXCEPT !.c[f] = u.c[f]] = u BY <1>1, <1>4, StateKept
    <2> QED BY <1>3, <1>4, <2>1, <2>2
  <1> HIDE DEF u
  <1>7. t = s2n_alloc(u, f, n) BY <1>4, <1>5, <1>6 DEF s2n_alloc, Ensure
  <1> HIDE DEF t
  <1>8. Owned(u, B)
    <2>1. B \subseteq u.m.live /\ ~u.m.bad /\ IsFiniteSet(u.m.live) BY <1>4 DEF Owned
    <2>2. \A g \in Fields : CellOk(g, u.c[g]) BY <1>2, <1>4 DEF Owned
    <2>3. ASSUME NEW g \in Fields, Filled(u.c[g]) PROVE u.c[g].data \in u.m.live \ B
      <3>1. g # f /\ u.c[g] = s.c[g] BY <1>2, <1>4, <2>3
      <3>2. s.c[g].data \in s.m.live \ A /\ s.c[g].data[1] = g BY <2>3, <3>1 DEF Owned, CellOk
      <3>3. s.c[g].data # c.data
        <4>1. CASE Filled(c)
          <5>1. c.data[1] = f BY <1>1, <4>1 DEF CellOk
          <5> QED BY <3>1, <3>2, <5>1
        <4>2. CASE ~Filled(c) BY <2>3, <3>1, <4>2 DEF Filled
        <4> QED BY <4>1, <4>2
      <3> QED BY <1>4, <3>1, <3>2, <3>3
    <2>4. ASSUME NEW b \in u.m.live \ B PROVE u.c[b[1]].data = b
      <3>1. b \in s.m.live \ A /\ b # c.data BY <1>4, <2>4
      <3>2. s.c[b[1]].data = b BY <3>1 DEF Owned
      <3>3. b[1] \in Fields BY <3>1, Typed, BlockIsOurs
      <3>4. b[1] # f BY <3>1, <3>2
      <3> QED BY <1>4, <3>2, <3>3, <3>4
    <2> QED BY <1>4, <2>1, <2>2, <2>3, <2>4 DEF Owned
  <1> HIDE DEF B
  <1>9. Served(u, t, f, B) BY <1>2, <1>4, <1>7, <1>8, AllocServed
  <1>10. Between(u, t, B, {f}) BY <1>4, <1>9, BetweenServed
  <1>11. Between(s, t, B, {f}) BY <1>4, <1>10 DEF Between
  <1> QED BY <1>11 DEF B, t

\* The ClientHello after a HelloRetryRequest.
LEMMA SecondHelloStep ==
    ASSUME MInv, SecondHello, UNCHANGED scene
    PROVE  MInv'
  <1> DEFINE s == State
             A == abandoned
             f == "peer_quic_transport_parameters"
             e == "s2n_quic_transport_params_recv"
             t == RunAll(s, s2n_quic_transport_params_recv)
  <1>1. /\ phase = "handshake" /\ phase' = "handshake" /\ Becomes(t)
        /\ abandoned' = abandoned \cup (heap.live \cap {cell[f].data})
        /\ events' = events \cup {e, "second_hello"} /\ UNCHANGED <<limit, mode>>
    BY DEF SecondHello, Forgotten
  <1>2. Owned(s, A) /\ s.ok /\ s.m = heap /\ s.c = cell BY KeptLimit, StateIs
  <1>3. s.m.init BY <1>1, <1>2 DEF MInv, Untouched
  <1>4. e \in Of(mode) /\ e \notin Sockets
    <2>1. e \in DOMAIN Handler BY DEF Handler
    <2> QED BY <2>1 DEF Of, Sockets
  <1>5. f \in Blobs /\ 1 \in Nat /\ f \in MayTouch(e)
    BY DEF MayTouch, Own, Fields, Pointers, Library, Blobs, Stuffers, Lasting, IoContexts, Guarded
  <1> HIDE DEF s, A
  <1>6. t = s2n_alloc(s, f, 1) BY <1>2, RunOne, DoIs DEF s2n_quic_transport_params_recv
  <1> HIDE DEF f, e, t
  <1>7. Between(s, t, A \cup (s.m.live \cap {s.c[f].data}), {f}) BY <1>2, <1>3, <1>5, <1>6, ForgetServed
  <1>8. Between(s, t, abandoned', {f}) BY <1>1, <1>2, <1>7 DEF A
  <1>9. {f} \subseteq MayTouch(e) BY <1>5
  <1>10. Between(s, t, abandoned', MayTouch(e)) BY <1>8, <1>9, BetweenMore
  <1>11. Between(State, t, abandoned', MayTouch(e)) BY <1>10 DEF s
  <1> QED BY <1>1, <1>4, <1>11, HandledState

\* The transport becomes the library's.
LEMMA NowManaged ==
    ASSUME NEW s, NEW A, Owned(s, A), s.c["recv_io_context"].data # UserBlock
    PROVE  LET t == [s EXCEPT !.managed_io = TRUE] IN
           Owned(t, A) /\ IoOk(t) /\ t.c = s.c /\ t.m = s.m /\ t.managed_io
  <1> DEFINE t == [s EXCEPT !.managed_io = TRUE]
  <1>1. t \in StateType /\ t.m = s.m /\ t.c = s.c /\ t.managed_io
    <2>1. s \in StateType BY Typed
    <2> QED BY <2>1 DEF StateType
  <1> HIDE DEF t
  <1>2. Owned(t, A) /\ IoOk(t) BY <1>1 DEF Owned, IoOk
  <1> QED BY <1>1, <1>2 DEF t

SocketOf(e) == IF e = "s2n_connection_set_read_fd" THEN "recv_io_context" ELSE "send_io_context"

\* A socket is set, or the allocation of its context failed.
LEMMA SocketServed ==
    ASSUME NEW s, NEW A, Owned(s, A), IoOk(s), s.ok, NEW e \in Sockets,
           s.c["recv_io_context"].data # UserBlock, ~Filled(s.c[SocketOf(e)])
    PROVE  LET t == RunAll(s, Handler[e]) IN
           /\ Owned(t, A) /\ IoOk(t) /\ t.m.init = s.m.init
           /\ \A f \in Fields \ {SocketOf(e)} : t.c[f] = s.c[f]
           /\ t.c["recv_io_context"].data # UserBlock
  <1> DEFINE f == SocketOf(e)
             x == Do(s, Call("new", f, 1))
             t == RunAll(s, Handler[e])
  <1>1. t = Do(x, Call("managed", "self", 0))
    <2>1. Handler[e] = <<Call("new", f, 1), Call("managed", "self", 0)>>
      BY HandlerIs DEF SocketOf, Sockets, s2n_connection_set_read_fd, s2n_connection_set_write_fd
    <2> QED BY <2>1, RunTwo
  <1>2. f \in Objects /\ f \in IoContexts /\ f \in Fields /\ PagesOf(f) = 1
    BY FieldKinds DEF SocketOf, IoContexts, PagesOf, Pointers
  <1>3. s.c[f].data = NoBlock
    <2>1. s.c[f].data # UserBlock
      <3>1. CASE f = "recv_io_context" BY <3>1
      <3>2. CASE f # "recv_io_context" BY <1>2, <3>2, ObjectIsNotUsers
      <3> QED BY <3>1, <3>2
    <2> QED BY <1>2, <2>1, NullCell
  <1> HIDE DEF f, t
  <1>4. x = NewObject(s, f, PagesOf(f)) BY <1>2, DoIs
  <1> HIDE DEF x
  <1>5. Served(s, x, f, A) /\ (x = Fail(s) \/ (x.ok = s.ok /\ Filled(x.c[f]))) BY <1>2, <1>3, <1>4, NewServed
  <1>6. Owned(x,
         A) /\ x.m.init = s.m.init /\ x.managed_io = s.managed_io /\ \A g \in Fields : g # f => x.c[g] = s.c[g]
    BY <1>5 DEF Served, Near
  <1>7. x.c["recv_io_context"].data # UserBlock
    <2>1. "recv_io_context" \in Fields BY FieldKinds
    <2>2. x = Fail(s) => x.c = s.c BY Failed
    <2> QED BY <1>5, <1>6, <2>1, <2>2, BlockIsOurs DEF Filled
  <1>8. CASE x = Fail(s)
    <2>1. ~x.ok /\ x.m = s.m /\ x.c = s.c /\ x.managed_io = s.managed_io BY <1>8, Failed
    <2>4. "managed" \in Ops /\ "self" \in Fields /\ 0 \in Nat BY DEF Ops, Fields, Pointers
    <2>5. <<Call("managed", "self", 0)>> \in Seq(Calls) BY <2>4, OneCall
    <2>6. RunAll(x, <<Call("managed", "self", 0)>>) = x BY <2>1, <2>5, RunSkipped
    <2>2. t = x BY <1>1, <2>6, RunOne
    <2>3. IoOk(x) BY <2>1 DEF IoOk
    <2> QED BY <1>6, <1>7, <2>1, <2>2, <2>3 DEF f, t
  <1>9. CASE x.ok = s.ok /\ Filled(x.c[f])
    <2>3. x.ok BY <1>9
    <2>4. Do(x, Call("managed", "self", 0)) = [x EXCEPT !.managed_io = TRUE] BY <2>3, DoConnectionIs
    <2>1. t = [x EXCEPT !.managed_io = TRUE] BY <1>1, <2>4
    <2>2. Owned(t, A) /\ IoOk(t) /\ t.c = x.c /\ t.m = x.m BY <1>6, <1>7, <2>1, NowManaged
    <2> QED BY <1>6, <1>7, <2>2 DEF f, t
  <1> QED BY <1>5, <1>8, <1>9

\* s2n_connection_set_read_fd and s2n_connection_set_write_fd.
LEMMA SocketStep ==
    ASSUME MInv, ~Repeats, NEW e \in Sockets, Handle(e), UNCHANGED scene
    PROVE  MInv'
  <1> DEFINE s == State
             A == abandoned
             t == RunAll(s, Handler[e])
  <1>1. /\ phase \in {"new",
         "handshake"} /\ e \in Of(mode) /\ e \notin events /\ "set_ctx" \notin events /\ Becomes(t)
        /\ phase' = "handshake" /\ events' = events \cup {e} /\ UNCHANGED <<limit, mode, abandoned>>
    BY DEF Handle, Once, Again, Sockets
  <1>2. limit \in Limits /\ Owned(s, A) /\ IoOk(s) /\ s.ok BY KeptLimit
  <1>3. Untouched /\ scene = "connections" /\ \A f \in Lasting : Filled(cell[f]) BY <1>1 DEF MInv, Lasting
  <1>4. s.c["recv_io_context"].data # UserBlock /\ ~Filled(s.c[SocketOf(e)])
    BY <1>1, <1>3, StateIs DEF Untouched, Pending, SocketOf, Filled, Sockets
  <1>5. s.c = cell /\ s.m = heap BY StateIs
  <1> HIDE DEF s, A
  <1>6. /\ Owned(t, A) /\ IoOk(t) /\ t.m.init = s.m.init
        /\ \A f \in Fields \ {SocketOf(e)} : t.c[f] = s.c[f]
        /\ t.c["recv_io_context"].data # UserBlock
    BY <1>2, <1>4, SocketServed
  <1> HIDE DEF t
  <1>7. Owned(t, abandoned) BY <1>6 DEF A
  <1>8. Owned(State', abandoned) /\ IoOk(State') BY <1>1, <1>2, <1>6, <1>7, NextState
  <1>9. Owned(State, abandoned)' /\ IoOk(State)' BY <1>1, <1>8 DEF Owned, IoOk
  <1>10. cell' = t.c /\ heap' = t.m BY <1>1 DEF Becomes
  <1>11. /\ heap'.init = heap.init /\ \A f \in Fields \ {SocketOf(e)} : cell'[f] = cell[f]
         /\ cell'["recv_io_context"].data # UserBlock
    BY <1>5, <1>6, <1>10
  <1>12. \A f \in Lasting \cup Guarded : cell'[f] = cell[f]
    <2>1. \A f \in Lasting \cup Guarded : f \in Fields \ {SocketOf(e)}
      BY DEF Lasting, Guarded, SocketOf, Fields, Pointers, Library, Blobs, Stuffers
    <2> QED BY <1>11, <2>1
  <1>13. Untouched'
    <2>1. heap'.init /\ events' \subseteq Of(mode') \cup {"set_ctx", "second_hello"} BY <1>1, <1>3, <1>11 DEF Untouched
    <2>2. /\ Pending("s2n_connection_set_read_fd", {"recv_io_context"})'
          /\ Pending("s2n_connection_set_write_fd", {"send_io_context"})'
      <3>1. CASE e = "s2n_connection_set_read_fd"
        <4>1. cell'["send_io_context"] = cell["send_io_context"]
          BY <1>11, <3>1 DEF SocketOf, Fields, Pointers, Library, Blobs, Stuffers
        <4> QED BY <1>1, <1>3, <3>1, <4>1 DEF Untouched, Pending
      <3>2. CASE e = "s2n_connection_set_write_fd"
        <4>1. cell'["recv_io_context"] = cell["recv_io_context"]
          BY <1>11, <3>2 DEF SocketOf, Fields, Pointers, Library, Blobs, Stuffers
        <4> QED BY <1>1, <1>3, <3>2, <4>1 DEF Untouched, Pending
      <3> QED BY <3>1, <3>2 DEF Sockets
    <2>3. events' \cap {"s2n_connection_set_read_fd", "s2n_connection_set_write_fd"} # {} BY <1>1 DEF Sockets
    <2>4. /\ Pending("s2n_quic_transport_params_recv", {"peer_quic_transport_parameters"})'
          /\ Pending("s2n_client_cert_recv", {"client_public_key"})'
          /\ Pending("s2n_server_cert_recv", {"server_public_key"})'
          /\ Pending("s2n_dh_generate_ephemeral_key", {"dh_params"})'
          /\ events' \cap {"s2n_kem_generate_keypair", "s2n_kem_recv_public_key"} = {} =>
                \A f \in {"kem_public_key", "kem_shared_secret"} : cell'[f].data \notin Block
      BY <1>1, <1>3, <1>12 DEF Guarded, Untouched, Pending
    <2> QED BY <1>11, <2>1, <2>2, <2>3, <2>4 DEF Untouched
  <1> QED BY <1>1, <1>3, <1>9, <1>12, <1>13 DEF MInv, ReusedAsNew, Lasting, Filled

\* s2n_connection_set_recv_ctx.
LEMMA SetRecvCtxStep ==
    ASSUME MInv, ~Repeats, SetRecvCtx, UNCHANGED scene
    PROVE  MInv'
  <1> DEFINE s == State
             A == abandoned
             c == [Empty EXCEPT !.data = UserBlock]
             f == "recv_io_context"
             t == [s EXCEPT !.c[f] = c]
  <1>1. /\ phase \in {"new", "handshake"}
        /\ events \cap {"s2n_connection_set_read_fd", "s2n_connection_set_write_fd", "set_ctx"} = {}
        /\ cell' = [cell EXCEPT ![f] = c] /\ phase' = "handshake" /\ events' = events \cup {"set_ctx"}
        /\ UNCHANGED <<heap, limit, mode, managed_io, abandoned>>
    BY DEF SetRecvCtx
  <1>2. limit \in Limits /\ Owned(s, A) /\ IoOk(s) /\ s.ok BY KeptLimit
  <1>3. Untouched /\ scene = "connections" /\ \A g \in Lasting : Filled(cell[g]) BY <1>1 DEF MInv, Lasting
  <1>4. ~managed_io /\ s.c = cell /\ s.m = heap /\ s.managed_io = managed_io
    BY <1>1, <1>3, StateIs DEF Untouched
  <1>5. ~Filled(s.c[f]) BY <1>2, <1>4 DEF IoOk
  <1>6. c \in CellType /\ c.data = UserBlock BY EmptyCell DEF CellType
  <1>7. f \in Fields /\ f \in Objects /\ f \notin Blobs /\ f \notin Stuffers BY FieldKinds
  <1>8. CellOk(f, c) /\ ~Filled(c)
    <2>1. ~Filled(c) BY <1>6, BlockIsOurs DEF Filled
    <2>2. f # "cookie_stuffer" OBVIOUS
    <2>3. ObjectOk(f, c) BY <1>6, <2>1, BlockIsOurs DEF ObjectOk
    <2> HIDE DEF c, f
    <2> QED BY <1>7, <2>1, <2>2, <2>3 DEF CellOk
  <1>8a. s.c["recv_io_context"].data # UserBlock BY <1>1, <1>3, <1>4 DEF Untouched
  <1>9. t.c = cell'
    <2>1. s \in StateType BY <1>2, Typed
    <2> QED BY <1>1, <1>4, <2>1 DEF StateType
  <1> HIDE DEF s, A, c, t
  <1>10. /\ t \in StateType /\ t.m = s.m /\ t.c[f] = c /\ Alike(s, t)
         /\ \A g \in Fields : g # f => t.c[g] = s.c[g]
    <2>1. s \in StateType BY <1>2, Typed
    <2> QED BY <1>6, <1>7, <2>1, SetCell DEF t
  <1>11. Owned(t, A)
    <2>1. Near(s, t, f) /\ ~t.m.bad BY <1>2, <1>10, Typed DEF Near, Alike
    <2>2. GivesUp(s, t, f)
      <3>1. s.c[f].data \notin s.m.live BY <1>2, <1>5, Typed DEF Filled
      <3> QED BY <1>8, <1>10, <3>1 DEF GivesUp
    <2> QED BY <1>2, <1>7, <1>8, <1>10, <2>1, <2>2, OneCell
  <1>12. IoOk(t) /\ t.managed_io = s.managed_io /\ t.m = s.m
    <2>1. "send_io_context" \in Fields /\ "send_io_context" # f BY FieldKinds
    <2>2. t.c["send_io_context"] = s.c["send_io_context"] BY <1>10, <2>1
    <2> QED BY <1>2, <1>4, <1>8, <1>10, <2>2 DEF IoOk, Alike
  <1>13. Becomes(t) BY <1>1, <1>4, <1>9, <1>12 DEF Becomes
  <1>14. Owned(State', abandoned) /\ IoOk(State') BY <1>1, <1>2, <1>11, <1>12, <1>13, NextState DEF A
  <1>15. Owned(State, abandoned)' /\ IoOk(State)' BY <1>1, <1>14 DEF Owned, IoOk
  <1>16. \A g \in Fields \ {"recv_io_context"} : cell'[g] = cell[g] BY <1>4, <1>9, <1>10
  <1>17. cell'["recv_io_context"].data \notin Block BY <1>6, <1>9, <1>10, BlockIsOurs
  <1>18. \A g \in Lasting \cup Guarded \cup {"send_io_context"} : cell'[g] = cell[g]
    <2>1. \A g \in Lasting \cup Guarded \cup {"send_io_context"} : g \in Fields \ {"recv_io_context"}
      BY DEF Lasting, Guarded, Fields, Pointers, Library, Blobs, Stuffers
    <2> QED BY <1>16, <2>1
  <1>19. Untouched'
    BY <1>1, <1>3, <1>17, <1>18 DEF Untouched, Pending, Guarded
  <1> QED BY <1>1, <1>3, <1>15, <1>18, <1>19 DEF MInv, ReusedAsNew, Lasting, Filled

-----------------------------------------------------------------------------
(***************************************************************************)
(* After the handshake.                                                    *)
(***************************************************************************)
Passing == Fields \ (Lasting \cup IoContexts)
Stays(s, c, A) == c \in Seq(Calls) /\ Between(s, RunAll(s, c), A, Passing)

\* MInv, for what changes neither the contexts nor what lasts.
LEMMA Afterwards ==
    ASSUME MInv, phase # "none", NEW t, Between(State, t, abandoned, Passing), Becomes(t),
           phase' \in {"done", "slim", "broken"}, UNCHANGED <<limit, abandoned, scene>>
    PROVE  MInv'
  <1>1. limit \in Limits /\ Owned(State, abandoned) /\ IoOk(State) BY KeptLimit
  <1>2. scene' = "connections" /\ \A f \in Lasting : Filled(cell[f]) BY DEF MInv, Lasting
  <1>3. Passing \cap IoContexts = {} /\ \A f \in Lasting : f \in Fields \ Passing
    BY DEF Passing, Lasting, Fields, Pointers, Library, IoContexts
  <1>4. Owned(t, abandoned) /\ IoOk(t) BY <1>1, <1>3, IoKept DEF Between
  <1>5. \A f \in Lasting : Filled(t.c[f])
    <2>1. \A f \in Lasting : t.c[f] = cell[f] BY <1>3, StateIs DEF Between
    <2> QED BY <1>2, <2>1
  <1> QED BY <1>1, <1>2, <1>4, <1>5, Later

\* A list of fields that do not last.
LEMMA EachStays ==
    ASSUME NEW s, NEW A, Owned(s, A), NEW op \in Ops, NEW fields, NEW G, FieldList(fields, G),
           \A f \in G : \A x : Suits(op, f, x), G \subseteq Passing
    PROVE  Stays(s, Each(op, fields), A)
  <1> DEFINE t == RunAll(s, Each(op, fields))
  <1>1. GroupServed(s, t, op, G, A) /\ Each(op, fields) \in Seq(Calls) BY EachGroup
  <1> HIDE DEF t
  <1>2. Between(s, t, A, Passing) BY <1>1, BetweenMore DEF GroupServed
  <1> QED BY <1>1, <1>2 DEF Stays, t

\* And another function after it.
LEMMA ThenStays ==
    ASSUME NEW s, NEW A, NEW c, Stays(s, c, A), NEW d, Stays(RunAll(s, c), d, A)
    PROVE  Stays(s, c \o d, A)
  <1> DEFINE t == RunAll(s, c)
             u == RunAll(t, d)
  <1>1. c \in Seq(Calls) /\ d \in Seq(Calls) /\ Between(s, t, A, Passing) /\ Between(t, u, A, Passing) BY DEF Stays
  <1>2. RunAll(s, c \o d) = u /\ c \o d \in Seq(Calls) BY <1>1, RunBoth, Joined
  <1> HIDE DEF t, u
  <1>3. Between(s, u, A, Passing)
    <2>1. Between(s, u, A, Passing \cup Passing) BY <1>1, BetweenBetween
    <2> QED BY <2>1, BetweenMore
  <1> QED BY <1>2, <1>3 DEF Stays

\* And another list after it.
LEMMA ThenEachStays ==
    ASSUME NEW s, NEW A, NEW c, Stays(s, c, A), NEW op \in Ops, NEW fields, NEW G, FieldList(fields, G),
           \A f \in G : \A x : Suits(op, f, x), G \subseteq Passing
    PROVE  Stays(s, c \o Each(op, fields), A)
  <1> DEFINE t == RunAll(s, c)
  <1>1. Owned(t, A) BY DEF Stays, Between
  <1> HIDE DEF t
  <1>2. Stays(t, Each(op, fields), A) BY <1>1, EachStays
  <1> QED BY <1>2, ThenStays DEF t

\* s2n_connection_free_handshake.
LEMMA HandshakeFreed ==
    ASSUME NEW s, NEW A, Owned(s, A)
    PROVE  Between(s, RunAll(s, s2n_connection_free_handshake), A, Passing)
  <1> DEFINE l1 == <<"hashes", "prf_space">>
             l2 == <<"handshake_io", "raw_message">>
             l4 == <<"client_ticket", "status_response", "our_quic_transport_parameters",
                     "application_protocols_overridden">>
             l5 == <<"cookie_stuffer">>
             g1 == {"hashes", "prf_space"}
             g2 == {"handshake_io", "raw_message"}
             g4 == {"client_ticket", "status_response", "our_quic_transport_parameters",
                    "application_protocols_overridden"}
             g5 == {"cookie_stuffer"}
             e1 == Each("s2n_free_object", l1)
             e2 == Each("s2n_stuffer_wipe", l2)
             e3 == Each("s2n_stuffer_resize", l2)
             e4 == Each("s2n_free", l4)
             e5 == Each("s2n_stuffer_free", l5)
             c2 == e1 \o e2
             c3 == c2 \o e3
             c4 == c3 \o e4
             c5 == c4 \o e5
  <1>1. s2n_connection_free_handshake = c5 BY DEF s2n_connection_free_handshake
  <1>2. FieldList(l1, g1) /\ FieldList(l2, g2) /\ FieldList(l4, g4) /\ FieldList(l5, g5) BY Lists
  <1>3. g1 \subseteq Objects \ {"recv_io_context"} /\ g2 \subseteq Buffers /\ g2 \subseteq Stuffers
        /\ g4 \subseteq Blobs /\ g5 \subseteq Stuffers
    BY DEF Objects, Pointers, Buffers, Stuffers, Blobs
  <1>4. g1 \subseteq Passing /\ g2 \subseteq Passing /\ g4 \subseteq Passing /\ g5 \subseteq Passing
    BY DEF Passing, Lasting, IoContexts, Fields, Pointers, Library, Blobs, Stuffers
  <1>5. /\ "s2n_free_object" \in Ops /\ "s2n_stuffer_wipe" \in Ops /\ "s2n_stuffer_resize" \in Ops
        /\ "s2n_free" \in Ops /\ "s2n_stuffer_free" \in Ops
    BY DEF Ops
  <1> HIDE DEF l1, l2, l4, l5, g1, g2, g4, g5
  <1>6. /\ \A f \in g1 : \A x : Suits("s2n_free_object", f, x)
        /\ \A f \in g2 : \A x : Suits("s2n_stuffer_wipe", f, x) /\ Suits("s2n_stuffer_resize", f, x)
        /\ \A f \in g4 : \A x : Suits("s2n_free", f, x)
        /\ \A f \in g5 : \A x : Suits("s2n_stuffer_free", f, x)
    BY <1>3, AlwaysSuits
  <1>7. Stays(s, e1, A) BY <1>2, <1>4, <1>5, <1>6, EachStays
  <1> HIDE DEF e1
  <1>8. Stays(s, c2, A) BY <1>2, <1>4, <1>5, <1>6, <1>7, ThenEachStays
  <1> HIDE DEF c2
  <1>9. Stays(s, c3, A) BY <1>2, <1>4, <1>5, <1>6, <1>8, ThenEachStays
  <1> HIDE DEF c3
  <1>10. Stays(s, c4, A) BY <1>2, <1>4, <1>5, <1>6, <1>9, ThenEachStays
  <1> HIDE DEF c4
  <1>11. Stays(s, c5, A) BY <1>2, <1>4, <1>5, <1>6, <1>10, ThenEachStays
  <1> HIDE DEF c5
  <1> QED BY <1>1, <1>11 DEF Stays

\* The same, as a step.
LEMMA FreeHandshakeStep ==
    ASSUME MInv, FreeHandshake, UNCHANGED scene
    PROVE  MInv'
  <1> DEFINE s == State
             A == abandoned
             t == RunAll(s, s2n_connection_free_handshake)
  <1>1. phase = "done" /\ Becomes(t) /\ phase' = "slim" /\ UNCHANGED <<limit, abandoned>> BY DEF FreeHandshake
  <1>2. Owned(s, A) BY KeptLimit
  <1> HIDE DEF s, A
  <1>3. Between(s, t, A, Passing) BY <1>2, HandshakeFreed
  <1> HIDE DEF t
  <1>4. Between(State, t, abandoned, Passing) BY <1>3 DEF s, A
  <1> QED BY <1>1, <1>4, Afterwards

\* The stuffers of a connection.
LEMMA BuffersPass ==
    /\ \A f \in Buffers : f \in Passing /\ f \in Fields
    /\ "handshake_io" \in Buffers /\ "in" \in Buffers /\ "out" \in Buffers /\ "raw_message" \in Buffers
    /\ \A s, t, A : \A f \in Buffers : Between(s, t, A, {f}) => Between(s, t, A, Passing)
  <1>1. \A f \in Buffers : f \in Passing /\ f \in Fields
    BY DEF Buffers, Passing, Lasting, IoContexts, Fields, Pointers, Library, Blobs, Stuffers
  <1>2. "handshake_io" \in Buffers /\ "in" \in Buffers /\ "out" \in Buffers /\ "raw_message" \in Buffers
    BY DEF Buffers, Stuffers
  <1>3. \A s, t, A : \A f \in Buffers : Between(s, t, A, {f}) => Between(s, t, A, Passing)
    <2> SUFFICES ASSUME NEW s, NEW t, NEW A, NEW f \in Buffers, Between(s, t, A, {f})
                 PROVE  Between(s, t, A, Passing)
      OBVIOUS
    <2>1. {f} \subseteq Passing BY <1>1
    <2> QED BY <2>1, BetweenMore
  <1> QED BY <1>1, <1>2, <1>3

\* The end of the handshake.
LEMMA NegotiatedStep ==
    ASSUME MInv, Negotiated, UNCHANGED scene
    PROVE  MInv'
  <1> DEFINE s == State
             A == abandoned
             g == "handshake_io"
             x == Do(s, Call("s2n_stuffer_wipe", g, 0))
             t == Do(x, Call("s2n_stuffer_resize", g, 0))
  <1>1. phase = "handshake" /\ Becomes(t) /\ phase' = "done" /\ UNCHANGED <<limit, abandoned>>
    BY RunTwo DEF Negotiated
  <1>2. Owned(s, A) BY KeptLimit
  <1>3. g \in Buffers /\ g \in Fields BY BuffersPass
  <1> HIDE DEF s, A, g
  <1>4. \A v : Fit(v, "s2n_stuffer_wipe", g, 0) /\ Fit(v, "s2n_stuffer_resize", g, 0) BY <1>3 DEF Fit
  <1>5. Between(s, x, A, {g}) BY <1>2, <1>3, <1>4, DoServed
  <1> HIDE DEF x
  <1>6. Between(s, t, A, {g}) BY <1>3, <1>4, <1>5, AgainServed
  <1> HIDE DEF t
  <1>7. Between(State, t, abandoned, Passing) BY <1>3, <1>6, BuffersPass DEF s, A
  <1> QED BY <1>1, <1>7, Afterwards

\* The calls of each function that handles records.
LEMMA TrafficIs ==
    /\ DOMAIN Traffic = {"s2n_read_full_record", "s2n_recv", "s2n_record_write", "s2n_flush",
                         "s2n_connection_prefer_throughput", "s2n_connection_release_buffers"}
    /\ Traffic["s2n_read_full_record"] = s2n_read_full_record
    /\ Traffic["s2n_recv"] = s2n_recv
    /\ Traffic["s2n_record_write"] = s2n_record_write
    /\ Traffic["s2n_flush"] = s2n_flush
    /\ Traffic["s2n_connection_prefer_throughput"] = s2n_connection_prefer_throughput
    /\ Traffic["s2n_connection_release_buffers"] = s2n_connection_release_buffers
  BY DEF Traffic

\* Records use the cells in and out only; out is allocated where it was released.
LEMMA TrafficServed ==
    ASSUME NEW s, NEW A, Owned(s, A), s.ok, NEW e \in DOMAIN Traffic,
           e = "s2n_connection_prefer_throughput" => Filled(s.c["out"])
    PROVE  Between(s, RunAll(s, Traffic[e]), A, Passing)
  <1> DEFINE i == "in"
             o == "out"
             t == RunAll(s, Traffic[e])
  <1>0. /\ i \in Buffers /\ o \in Buffers /\ i \in Fields /\ o \in Fields /\ o \in Stuffers
        /\ o \notin Blobs /\ o \notin Objects
    BY BuffersPass, FieldKinds DEF Buffers, Stuffers, Objects, Pointers, Library, Blobs
  <1>1. CASE e = "s2n_read_full_record"
    <2> DEFINE x == Do(s, Call("s2n_stuffer_resize_if_empty", i, Large))
               y == Do(x, Call("s2n_stuffer_raw_write", i, 1))
    <2>1. t = y BY <1>1, TrafficIs, RunTwo DEF s2n_read_full_record
    <2>2. Large \in Nat /\ Large # 0 BY DEF Large
    <2> HIDE DEF i, t
    <2>3. \A v : Fit(v, "s2n_stuffer_resize_if_empty", i, Large) /\ Fit(v, "s2n_stuffer_raw_write", i, 1)
      BY <1>0, <2>2 DEF Fit
    <2>4. Between(s, x, A, {i}) BY <1>0, <2>2, <2>3, DoServed
    <2> HIDE DEF x
    <2>5. Between(s, y, A, {i}) BY <1>0, <2>3, <2>4, AgainServed
    <2> QED BY <1>0, <2>1, <2>5, BuffersPass DEF t
  <1>2. CASE e = "s2n_recv"
    <2>1. Traffic[e] = <<Call("s2n_stuffer_wipe", i, 0)>> BY <1>2, TrafficIs DEF s2n_recv
    <2>2. Fit(s, "s2n_stuffer_wipe", i, 0) BY <1>0 DEF Fit
    <2> HIDE DEF i
    <2>3. Between(s, t, A, {i}) BY <1>0, <2>1, <2>2, OneServed
    <2> QED BY <1>0, <2>3, BuffersPass
  <1>3. CASE e = "s2n_record_write"
    <2>1. Traffic[e] = <<Call("s2n_stuffer_raw_write", o, 1)>> BY <1>3, TrafficIs DEF s2n_record_write
    <2>2. Fit(s, "s2n_stuffer_raw_write", o, 1) BY <1>0 DEF Fit
    <2> HIDE DEF o
    <2>3. Between(s, t, A, {o}) BY <1>0, <2>1, <2>2, OneServed
    <2> QED BY <1>0, <2>3, BuffersPass
  <1>4. CASE e = "s2n_flush"
    <2>1. Traffic[e] = <<Call("s2n_stuffer_rewrite", o, 0)>> BY <1>4, TrafficIs DEF s2n_flush
    <2>2. Fit(s, "s2n_stuffer_rewrite", o, 0) BY <1>0 DEF Fit
    <2> HIDE DEF o
    <2>3. Between(s, t, A, {o}) BY <1>0, <2>1, <2>2, OneServed
    <2> QED BY <1>0, <2>3, BuffersPass
  <1>5. CASE e = "s2n_connection_prefer_throughput"
    <2>0. Large + 1 \in Nat /\ Large + 1 # 0 BY DEF Large
    <2> DEFINE n == Large + 1
    <2>1. Traffic[e] = <<Call("s2n_realloc", o, n)>> BY <1>5, TrafficIs DEF s2n_connection_prefer_throughput
    <2>4. n \in Nat /\ n # 0 BY <2>0
    <2> HIDE DEF o, n
    <2>5. Grows(o, s.c[o])
      <3>1. CellOk(o, s.c[o]) /\ Filled(s.c[o]) BY <1>0, <1>5, Typed DEF o
      <3>2. o # "cookie_stuffer" BY DEF o
      <3> QED BY <1>0, <3>1, <3>2 DEF CellOk, StufferOk, Grows, Buffers
    <2>2. Fit(s, "s2n_realloc", o, n) BY <2>4, <2>5 DEF Fit
    <2>3. Between(s, t, A, {o}) BY <1>0, <2>1, <2>2, <2>4, OneServed
    <2> QED BY <1>0, <2>3, BuffersPass
  <1>6. CASE e = "s2n_connection_release_buffers"
    <2> DEFINE x == Do(s, Call("consumed", o, 0))
               y == Do(x, Call("s2n_stuffer_resize", o, 0))
               z == Do(y, Call("consumed", i, 0))
               w == Do(z, Call("s2n_stuffer_resize", i, 0))
    <2>1. t = w BY <1>6, TrafficIs, RunFour DEF s2n_connection_release_buffers
    <2> HIDE DEF i, o, t
    <2>2. \A v : \A f \in Buffers : Fit(v, "consumed", f, 0) /\ Fit(v, "s2n_stuffer_resize", f, 0)
      BY <1>0 DEF Fit
    <2>3. Between(s, x, A, {o}) BY <1>0, <2>2, DoServed
    <2> HIDE DEF x
    <2>4. Between(s, y, A, {o}) BY <1>0, <2>2, <2>3, AgainServed
    <2> HIDE DEF y
    <2>5. Owned(y, A) BY <2>4 DEF Between
    <2>6. Between(y, z, A, {i}) BY <1>0, <2>2, <2>5, DoServed
    <2> HIDE DEF z
    <2>7. Between(y, w, A, {i}) BY <1>0, <2>2, <2>6, AgainServed
    <2> HIDE DEF w
    <2>8. Between(s, w, A, {o} \cup {i}) BY <2>4, <2>7, BetweenBetween
    <2>9. {o} \cup {i} \subseteq Passing BY <1>0, BuffersPass
    <2> QED BY <2>1, <2>8, <2>9, BetweenMore DEF t
  <1> QED BY <1>1, <1>2, <1>3, <1>4, <1>5, <1>6, TrafficIs

\* s2n_record_writev when out was released.
LEMMA AllocatedAgain ==
    ASSUME NEW s, NEW A, Owned(s, A), s.ok, s.c["out"].data = NoBlock
    PROVE  Between(s, RunAll(s, <<Call("s2n_stuffer_growable_alloc", "out", Large)>> \o Traffic["s2n_record_write"]),
                   A, Passing)
  <1> DEFINE o == "out"
             c == <<Call("s2n_stuffer_growable_alloc", o, Large)>>
             d == <<Call("s2n_stuffer_raw_write", o, 1)>>
             x == Do(s, Call("s2n_stuffer_growable_alloc", o, Large))
             y == Do(x, Call("s2n_stuffer_raw_write", o, 1))
  <1>1. Traffic["s2n_record_write"] = d BY TrafficIs DEF s2n_record_write
  <1>2. o \in Buffers /\ o \in Fields /\ ~Filled(s.c[o]) BY BuffersPass, BlockIsOurs DEF Filled
  <1>3. Large \in Nat /\ 1 \in Nat BY DEF Large
  <1>4. c \in Seq(Calls) /\ d \in Seq(Calls)
    <2>1. "s2n_stuffer_growable_alloc" \in Ops /\ "s2n_stuffer_raw_write" \in Ops BY DEF Ops
    <2> QED BY <1>2, <1>3, <2>1, OneCall
  <1>5. RunAll(s, c) = x /\ RunAll(x, d) = y BY RunOne
  <1> HIDE DEF o
  <1>6. Fit(s, "s2n_stuffer_growable_alloc", o, Large) BY <1>2 DEF Fit
  <1>7. \A v : Fit(v, "s2n_stuffer_raw_write", o, 1) BY <1>2 DEF Fit
  <1>8. Between(s, x, A, {o}) BY <1>2, <1>3, <1>6, DoServed
  <1> HIDE DEF x
  <1>9. Between(s, y, A, {o}) BY <1>2, <1>3, <1>7, <1>8, AgainServed
  <1> HIDE DEF y
  <1>10. Between(s, y, A, Passing) BY <1>2, <1>9, BuffersPass
  <1> HIDE DEF c, d
  <1>11. RunAll(s, c \o d) = y BY <1>4, <1>5, RunBoth
  <1> QED BY <1>1, <1>10, <1>11 DEF c, o

\* Records.
LEMMA CarryStep ==
    ASSUME MInv, NEW e \in DOMAIN Traffic, Carry(e), UNCHANGED scene
    PROVE  MInv'
  <1> DEFINE s == State
             A == abandoned
             again == <<Call("s2n_stuffer_growable_alloc", "out", Large)>> \o Traffic["s2n_record_write"]
             t == RunAll(s, IF e = "s2n_record_write" /\ Freed("out") THEN again ELSE Traffic[e])
  <1>1. /\ phase \in {"done", "slim"} /\ Becomes(t) /\ UNCHANGED <<limit, phase, abandoned>>
        /\ e = "s2n_connection_prefer_throughput" => ~Freed("out")
    BY DEF Carry
  <1>2. Owned(s, A) /\ s.ok BY KeptLimit
  <1>3. s.c["out"].data = NoBlock <=> Freed("out") BY StateIs DEF Freed
  <1> HIDE DEF s, A
  <1>4. Between(s, t, A, Passing)
    <2>1. CASE e = "s2n_record_write" /\ Freed("out")
      <3>1. Between(s, RunAll(s, again), A, Passing) BY <1>2, <1>3, <2>1, AllocatedAgain
      <3>2. t = RunAll(s, again) BY <2>1
      <3> QED BY <3>1, <3>2
    <2>2. CASE ~(e = "s2n_record_write" /\ Freed("out"))
      <3>1. t = RunAll(s, Traffic[e]) BY <2>2
      <3>2. e = "s2n_connection_prefer_throughput" => Filled(s.c["out"])
        <4>1. "out" \in Fields /\ "out" \in Blobs \cup Stuffers BY BuffersPass DEF Buffers
        <4>2. s.c["out"].data # UserBlock BY <1>2, <4>1, BlobIsNotUsers
        <4> QED BY <1>1, <1>2, <1>3, <4>1, <4>2, NullCell
      <3> QED BY <1>2, <3>1, <3>2, TrafficServed
    <2> QED BY <2>1, <2>2
  <1> HIDE DEF t
  <1>5. Between(State, t, abandoned, Passing) BY <1>4 DEF s, A
  <1>6. phase # "none" /\ phase' \in {"done", "slim", "broken"} BY <1>1
  <1> QED BY <1>1, <1>5, <1>6, Afterwards

-----------------------------------------------------------------------------
(***************************************************************************)
(* The process.                                                            *)
(***************************************************************************)
LEMMA StartsOwned == Init => MInv
  <1> SUFFICES ASSUME Init PROVE MInv OBVIOUS
  <1>1. /\ heap = NoHeap /\ limit \in Limits /\ phase = "none" /\ cell = NoCells /\ managed_io = FALSE
        /\ events = {} /\ abandoned = {} /\ scene \in {"forks", "connections"}
    BY DEF Init, ConnectionsInit
  <1>2. NoHeap \in HeapType /\ NoHeap.live = {} /\ ~NoHeap.bad BY DEF NoHeap, HeapType
  <1>3. NoCells \in [Fields -> CellType] /\ \A f \in Fields : NoCells[f] = Empty BY EmptyCell DEF NoCells
  <1> DEFINE u == State
  <1>4. /\ u.m = NoHeap /\ u.c = NoCells /\ u.managed_io = FALSE /\ u \in StateType
    BY <1>1, <1>2, <1>3 DEF State, StateType
  <1> HIDE DEF u
  <1>5. \A f \in Fields : CellOk(f, u.c[f]) /\ ~Filled(u.c[f]) BY <1>3, <1>4, EmptyOk, EmptyCell
  <1>6. IsFiniteSet({}) BY FS_EmptySet
  <1>7. Owned(u, {}) BY <1>2, <1>4, <1>5, <1>6 DEF Owned
  <1>8. IoOk(u)
    <2>1. IoContexts \subseteq Fields BY AllCells
    <2>2. \A f \in IoContexts : u.c[f] = Empty BY <1>3, <1>4, <2>1
    <2> QED BY <1>4, <2>2, EmptyCell, BlockIsOurs DEF IoOk, IoContexts
  <1>9. Owned(State, abandoned) /\ IoOk(State) BY <1>1, <1>7, <1>8 DEF u
  <1>10. \A f \in Fields : ~Filled(cell[f]) BY <1>1, <1>3, EmptyCell
  <1> QED BY <1>1, <1>9, <1>10 DEF MInv, ReusedAsNew

\* The heap may be opened and closed while no handshake runs.
LEMMA HeapOpened ==
    ASSUME MInv, heap' \in HeapType, heap'.live = heap.live, heap'.bad = heap.bad,
           heap' = heap \/ phase \notin {"new", "handshake"},
           UNCHANGED <<limit, mode, phase, cell, managed_io, events, abandoned, scene>>
    PROVE  MInv'
  <1>1. limit \in Limits /\ Owned(State, abandoned) /\ IoOk(State) BY KeptLimit
  <1> DEFINE s == State
             u == State'
  <1>2. s.m = heap /\ s.c = cell /\ s.managed_io = managed_io BY StateIs
  <1>3. u.m = heap' /\ u.c = cell /\ u.managed_io = managed_io BY StateIs
  <1>4. Owned(s, abandoned) /\ IoOk(s) BY <1>1
  <1>5. u \in StateType
    <2>1. s \in StateType BY <1>4, Typed
    <2>2. cell \in [Fields -> CellType] /\ managed_io \in BOOLEAN
      <3> HIDE DEF s
      <3> QED BY <1>2, <2>1 DEF StateType
    <2> QED BY <1>1, <2>2 DEF State, StateType
  <1> HIDE DEF s, u
  <1>6. Owned(u, abandoned) BY <1>2, <1>3, <1>4, <1>5 DEF Owned
  <1>7. IoOk(u) BY <1>2, <1>3, <1>4 DEF IoOk
  <1>8. Owned(State, abandoned)' /\ IoOk(State)' BY <1>6, <1>7 DEF u, Owned, IoOk
  <1>9. ReusedAsNew' BY DEF MInv, ReusedAsNew, Freed
  <1>10. phase \in {"new", "handshake"} => Untouched'
    <2>1. phase \in {"new", "handshake"} => Untouched /\ heap' = heap BY DEF MInv
    <2> QED BY <2>1 DEF Untouched, Pending
  <1> QED BY <1>8, <1>9, <1>10 DEF MInv, Filled

\* The heap, by MInv.
LEMMA HeapTyped ==
    ASSUME MInv
    PROVE  heap \in HeapType
  <1>1. Owned(State, abandoned) /\ State.m = heap BY StateIs DEF MInv
  <1> DEFINE u == State
  <1>2. Owned(u, abandoned) /\ u.m = heap BY <1>1
  <1> HIDE DEF u
  <1> QED BY <1>2, Typed

\* s2n_init and s2n_cleanup.
LEMMA InitCleanup ==
    ASSUME MInv, NEW p \in Processes, NEW th \in Threads, s2n_init(p, th) \/ s2n_cleanup(p, th)
    PROVE  MInv'
  <1>1. heap \in HeapType BY HeapTyped
  <1>2. scene = "forks" => phase = "none" BY DEF MInv
  <1>3. scene \in {"forks", "connections"} BY DEF MInv
  <1>4. /\ s2n_mem_init(heap) \in HeapType /\ s2n_mem_init(heap).live = heap.live /\ s2n_mem_init(heap).bad = heap.bad
        /\ s2n_mem_cleanup(heap) \in HeapType /\ s2n_mem_cleanup(heap).live = heap.live
        /\ s2n_mem_cleanup(heap).bad = heap.bad
    BY <1>1 DEF s2n_mem_init, s2n_mem_cleanup, HeapType
  <1>5. CASE s2n_init(p, th)
    <2>1. /\ heap' = IF p = 1 THEN s2n_mem_init(heap) ELSE heap
          /\ UNCHANGED <<limit, mode, phase, cell, managed_io, events, uses, abandoned, scene>>
          /\ scene = "connections" => phase \in {"none", "broken"}
      BY <1>5 DEF s2n_init
    <2>2. heap' \in HeapType /\ heap'.live = heap.live /\ heap'.bad = heap.bad BY <1>1, <1>4, <2>1
    <2> QED BY <1>2, <1>3, <2>1, <2>2, HeapOpened
  <1>6. CASE s2n_cleanup(p, th)
    <2>1. /\ heap' = s2n_mem_cleanup(heap) \/ heap' = heap
          /\ UNCHANGED <<limit, mode, phase, cell, managed_io, events, uses, abandoned, scene>>
          /\ scene = "connections" => phase \in {"none", "done"}
      BY <1>6 DEF s2n_cleanup
    <2>2. heap' \in HeapType /\ heap'.live = heap.live /\ heap'.bad = heap.bad BY <1>1, <1>4, <2>1
    <2> QED BY <1>2, <1>3, <2>1, <2>2, HeapOpened
  <1> QED BY <1>5, <1>6

\* Any step of a connection.
LEMMA ConnectionStep ==
    ASSUME MInv, ~Repeats, ~Cookies, scene = "connections", ConnectionsNext, UNCHANGED scene
    PROVE  MInv'
  <1>2. CASE New BY <1>2, NewActionStep
  <1>3. CASE Wipe BY <1>3, WipeStep
  <1>4. CASE Free BY <1>4, FreeStep
  <1>1. CASE SecondHello BY <1>1, SecondHelloStep
  <1>5. CASE SetRecvCtx BY <1>5, SetRecvCtxStep
  <1>6. CASE Negotiated BY <1>6, NegotiatedStep
  <1>7. CASE FreeHandshake BY <1>7, FreeHandshakeStep
  <1>8. ASSUME NEW e \in DOMAIN Handler, Handle(e) PROVE MInv'
    <2>1. CASE e \in Sockets BY <1>8, <2>1, SocketStep
    <2>2. CASE e \notin Sockets BY <1>8, <2>2, HandleStep
    <2> QED BY <2>1, <2>2
  <1>9. ASSUME NEW e \in DOMAIN Traffic, Carry(e) PROVE MInv' BY <1>9, CarryStep
  <1> QED BY <1>1, <1>2, <1>3, <1>4, <1>5, <1>6, <1>7, <1>8, <1>9 DEF ConnectionsNext

\* MInv is inductive.
LEMMA StaysOwned ==
    ASSUME ~Repeats, ~Cookies
    PROVE  MInv /\ [Next]_vars => MInv'
  <1> SUFFICES ASSUME MInv, [Next]_vars PROVE MInv' OBVIOUS
  <1>1. ASSUME NEW p \in Processes, NEW th \in Threads, s2n_init(p, th) \/ s2n_cleanup(p, th) PROVE MInv'
    BY <1>1, InitCleanup
  <1>2. CASE UNCHANGED <<connectionVars, scene>>
    <2>1. heap' = heap /\ UNCHANGED <<limit, mode, phase, cell, managed_io, events, abandoned, scene>>
      BY <1>2 DEF connectionVars
    <2> QED BY <2>1, HeapTyped, HeapOpened
  <1>3. CASE ForksNext BY <1>2, <1>3 DEF ForksNext
  <1>4. CASE scene = "connections" /\ ConnectionsNext /\ UNCHANGED <<randomVars, scene, main_thread>>
    BY <1>4, ConnectionStep
  <1>5. CASE UNCHANGED vars BY <1>2, <1>5 DEF vars
  <1> QED BY <1>1, <1>3, <1>4, <1>5 DEF Next

\* MInv is more than NothingLost.
LEMMA OwnedIsHeld ==
    ASSUME MInv
    PROVE  NothingLost
  <1> DEFINE s == State
  <1>1. Owned(s, abandoned) /\ s.m = heap /\ s.c = cell BY StateIs DEF MInv
  <1> HIDE DEF s
  <1>2. ~heap.bad /\ heap.live \subseteq Block /\ \A f \in Fields : cell[f] \in CellType BY <1>1, Typed
  <1>3. \A f \in Fields : cell[f].data \in heap.live \cup {NoBlock, UserBlock}
    BY <1>1, <1>2, Typed DEF CellType, Filled
  <1>4. ASSUME NEW b \in heap.live \ abandoned PROVE Cardinality(Holders(b)) = 1
    <2>1. b \in Block /\ b[1] \in Fields /\ cell[b[1]].data = b BY <1>1, <1>2, BlockIsOurs DEF Owned
    <2>2. \A f \in Fields : cell[f].data = b => f = b[1]
      BY <1>1, <2>1, Typed DEF CellOk, Filled
    <2>3. Holders(b) = {b[1]} BY <2>1, <2>2 DEF Holders
    <2> QED BY <2>3, FS_Singleton
  <1> QED BY <1>2, <1>3, <1>4 DEF NothingLost

(***************************************************************************)
(* Whatever the pages that can be locked, the number of handshakes and of  *)
(* calls in each: every block that s2n_mem.c has handed out is held by     *)
(* exactly one field of the connection, nothing is freed twice and nothing *)
(* of the application's is freed, through any order of handshakes, records *)
(* and s2n_connection_wipe, _free_handshake, _release_buffers and _free,   *)
(* each of whose calls may fail.  What NothingLost names as lost is lost:  *)
(* a creation that failed, and transport parameters received again after a *)
(* HelloRetryRequest.  No other call or message that comes once comes      *)
(* again, and no cookie is received, which loses memory (see the README).  *)
(***************************************************************************)
THEOREM NothingIsLost ==
    ASSUME ~Repeats, ~Cookies
    PROVE  Spec => []NothingLost
  <1>1. Init => MInv BY StartsOwned
  <1>2. MInv /\ [Next]_vars => MInv' BY StaysOwned
  <1>3. MInv => NothingLost BY OwnedIsHeld
  <1> QED BY <1>1, <1>2, <1>3, PTL DEF Spec

(***************************************************************************)
(* After s2n_connection_wipe a connection is as s2n_connection_new returns *)
(* it, whatever it has been used for: for the same constants.              *)
(***************************************************************************)
THEOREM WipedIsNew ==
    ASSUME ~Repeats, ~Cookies
    PROVE  Spec => []ReusedAsNew
  <1>1. Init => MInv BY StartsOwned
  <1>2. MInv /\ [Next]_vars => MInv' BY StaysOwned
  <1>3. MInv => ReusedAsNew BY DEF MInv
  <1> QED BY <1>1, <1>2, <1>3, PTL DEF Spec
=============================================================================
