------------------------------- MODULE Random -------------------------------
(***************************************************************************)
(* Random numbers (utils/s2n_random.c, crypto/s2n_drbg.c): every thread    *)
(* has a public and a private generator of its own.  Processes fork, which *)
(* copies the generators of the forking thread; a page that the kernel     *)
(* clears in the child, or a handler run there, is to tell of it.          *)
(*                                                                         *)
(* A generator is known by its kind and the entropy it was seeded with.    *)
(***************************************************************************)
EXTENDS Integers, Sequences, FiniteSets

CONSTANTS
    Processes,      \* identifiers of processes, 1 is the first
    Threads,        \* identifiers of threads in a process
    MaxSeeds,       \* bound on the seeds drawn from the operating system
    MaxPages,       \* bound on the calls of s2n_init in a process
    MaxThreads,     \* bound on the threads that live, in all processes
    Kernels         \* does the kernel clear the page on a fork, has the processor RDRAND,
                    \* is the final cleanup left to the end of the process?

ASSUME RandomAssumption ==
    /\ Processes \subseteq Nat \ {0} /\ 1 \in Processes
    /\ MaxSeeds \in Nat /\ MaxPages \in Nat /\ MaxThreads \in Nat
    /\ Kernels \subseteq [wipes : BOOLEAN, rdrand : BOOLEAN, atexit_cleanup : BOOLEAN]

VARIABLES
    kernel,         \* the element of Kernels this is
    proc,           \* the processes
    seeds           \* seeds drawn

randomVars == <<kernel, proc, seeds>>

Kinds == {"public", "private"}
Null == <<"null", 0>>     \* no cipher context
Zero == <<"zero", 0>>     \* a context with the zero key
Unborn == [alive |-> FALSE, ptr |-> 0, public |-> Null, private |-> Null]
NewThread == [Unborn EXCEPT !.alive = TRUE]

(***************************************************************************)
(* flag[0] is the variable zero, to which zero_if_forked_ptr points in a   *)
(* new thread, flag[n] the n-th page; page is zeroed_when_forked_page.     *)
(* heirs (history) are the threads that came into the process with a fork  *)
(* and have not been seeded in it.                                         *)
(***************************************************************************)
NoProcess ==
    [alive |-> FALSE, entropy_fd |-> FALSE, page |-> 0, atfork |-> FALSE, mix |-> "urandom",
     flag |-> [n \in 0..MaxPages |-> 0], thread |-> [t \in Threads |-> Unborn], heirs |-> {}]

-----------------------------------------------------------------------------
(***************************************************************************)
(* s2n_drbg_instantiate.  The context is made with a zero key and v = 0;   *)
(* the seed of the operating system, mixed with the personalization string *)
(* of the kind of generator, then replaces both.  got is the seed, or 0    *)
(* if the entropy callback failed, which leaves the zero key.              *)
(***************************************************************************)
s2n_drbg_instantiate(kind, got) == IF got = 0 THEN Zero ELSE <<kind, got>>

s2n_rand_cleanup_thread(th) == [th EXCEPT !.public = Null, !.private = Null]

(***************************************************************************)
(* s2n_defend_if_forked, of thread t of process p, where the operating     *)
(* system grants n seeds: the process afterwards.  The flag is raised when *)
(* both generators have their seed, and not before.                        *)
(***************************************************************************)
Forked(pr, t) == pr.flag[pr.thread[t].ptr] = 0
Granted(pr, n) == IF pr.entropy_fd THEN n ELSE 0

s2n_defend_if_forked_FlagFirst(pr, t, n) ==
    LET seed(i) == IF i <= Granted(pr, n) THEN seeds + i ELSE 0
        wiped == s2n_rand_cleanup_thread(pr.thread[t])
        th == [wiped EXCEPT !.public = s2n_drbg_instantiate("public", seed(1)),
                            !.private = IF seed(1) = 0 THEN Null ELSE s2n_drbg_instantiate("private", seed(2)),
                            !.ptr = pr.page]
    IN IF ~Forked(pr, t) THEN pr ELSE [pr EXCEPT !.thread[t] = th, !.flag[pr.page] = 1, !.heirs = @ \ {t}]

s2n_defend_if_forked(pr, t, n) ==
    LET got == Granted(pr, n)
        seed(i) == IF i <= got THEN seeds + i ELSE 0
        wiped == s2n_rand_cleanup_thread(pr.thread[t])
        th == [wiped EXCEPT !.public = s2n_drbg_instantiate("public", seed(1)),
                            !.private = IF got = 0 THEN Null ELSE s2n_drbg_instantiate("private", seed(2))]
    IN IF ~Forked(pr, t) THEN pr
       ELSE IF got < 2 THEN [pr EXCEPT !.thread[t] = th]
       ELSE [pr EXCEPT !.thread[t] = [th EXCEPT !.ptr = pr.page], !.flag[pr.page] = 1, !.heirs = @ \ {t}]

\* The seeds used up by it.
Used(pr, t, n) == IF Forked(pr, t) THEN Granted(pr, n) ELSE 0

(***************************************************************************)
(* s2n_drbg_generate draws only where there is a context and entropy to    *)
(* mix in; s2n_rand_rdrand_impl needs no file descriptor.                  *)
(***************************************************************************)
CanMix(pr) == pr.mix = "rdrand" \/ pr.entropy_fd
s2n_drbg_generate(pr, t, kind) == pr.thread[t][kind] # Null /\ CanMix(pr)

Runs(p, t) == proc[p].alive /\ proc[p].thread[t].alive
Seeds(pr, t, n) == seeds + Used(pr, t, n) <= MaxSeeds /\ seeds' = seeds + Used(pr, t, n)

(***************************************************************************)
(* s2n_get_public_random_data and s2n_get_private_random_data: the thread  *)
(* is seeded again if there was a fork, and draws if that did not fail.    *)
(* Draws(p, t, kind) says that the generator is used as it is.             *)
(***************************************************************************)
Draws(p, t, kind) == Runs(p, t) /\ ~Forked(proc[p], t) /\ s2n_drbg_generate(proc[p], t, kind)
s2n_get_random_data(p, t) ==
    /\ Runs(p, t) /\ proc[p].page > 0
    /\ \E n \in 0..2 :
          /\ Seeds(proc[p], t, n)
          /\ proc' = [proc EXCEPT ![p] = s2n_defend_if_forked(proc[p], t, n)]
    /\ UNCHANGED kernel

(***************************************************************************)
(* s2n_rand_init: the entropy source is opened, a page is allocated, whose *)
(* first word may hold anything, and the calling thread's flag is cleared, *)
(* which may be one on an older page.  s2n_rand_cleanup closes the source  *)
(* and puts the callbacks back; pages are never freed.                     *)
(***************************************************************************)
s2n_rand_init(p, t) ==
    /\ Runs(p, t) /\ proc[p].page < MaxPages
    /\ \E n \in 0..2, word \in {0, 1} :
          LET page == proc[p].page + 1
              pr == [proc[p] EXCEPT !.entropy_fd = TRUE, !.page = page, !.atfork = TRUE,
                                    !.mix = IF kernel.rdrand THEN "rdrand" ELSE @,
                                    !.flag = [proc[p].flag EXCEPT ![page] = word, ![proc[p].thread[t].ptr] = 0]]
          IN /\ Seeds(pr, t, n)
             /\ proc' = [proc EXCEPT ![p] = s2n_defend_if_forked(pr, t, n)]
    /\ UNCHANGED kernel

s2n_rand_cleanup(pr) == [pr EXCEPT !.entropy_fd = FALSE, !.mix = "urandom"]

-----------------------------------------------------------------------------
(***************************************************************************)
(* The operating system (external).  A child has the thread that forked    *)
(* and a copy of everything else; pages marked MADV_WIPEONFORK are cleared *)
(* in it.  s2n_on_fork runs in the child of fork(), not of a bare clone(), *)
(* where only the page helps.                                              *)
(***************************************************************************)
s2n_on_fork(pr, t) == [pr EXCEPT !.flag[pr.thread[t].ptr] = 0]

Child(pr, t, how) ==
    LET copy == [pr EXCEPT !.thread = [u \in Threads |-> IF u = t THEN pr.thread[t] ELSE Unborn],
                           !.flag = IF kernel.wipes THEN [n \in 0..MaxPages |-> 0] ELSE @,
                           !.heirs = {t}]
    IN IF how = "fork" /\ pr.atfork THEN s2n_on_fork(copy, t) ELSE copy

Room == Cardinality({u \in Processes \X Threads : Runs(u[1], u[2])}) < MaxThreads

Fork(p, t, q, how) ==
    /\ Runs(p, t) /\ Room /\ ~proc[q].alive /\ q > p
    /\ how = "clone" => kernel.wipes
    /\ proc' = [proc EXCEPT ![q] = Child(proc[p], t, how)]
    /\ UNCHANGED <<kernel, seeds>>

StartThread(p, u) ==
    /\ proc[p].alive /\ ~proc[p].thread[u].alive /\ Room
    /\ proc' = [proc EXCEPT ![p].thread[u] = NewThread]
    /\ UNCHANGED <<kernel, seeds>>

RandomInit ==
    /\ kernel \in Kernels /\ seeds = 0
    /\ \E t \in Threads :
          proc = [p \in Processes |-> IF p = 1 THEN [NoProcess EXCEPT !.alive = TRUE, !.thread[t] = NewThread]
                                      ELSE NoProcess]

(***************************************************************************)
(* s2n_public_random: of the numbers below 2^bits those that would favour  *)
(* some remainders are drawn again.  Accepted is the set of the others.    *)
(***************************************************************************)
Accepted(bits, bound) == {r \in 0..(2^bits - 1) : r < (2^bits - 1) - ((2^bits - 1) % bound)}
s2n_public_random(r, bound) == r % bound

-----------------------------------------------------------------------------
(***************************************************************************)
(* No two threads, in the same or in different processes, can both draw    *)
(* from one generator as it is, and none draws without a seed: after forks *)
(* of threads at any point, threads started in any process, failures of    *)
(* the entropy source, and cleanup and initialisation in any order.        *)
(*                                                                         *)
(* The flag s2n_defend_if_forked looks at is the page's, for all threads   *)
(* of the process, and the first of a child to be seeded raises it.  So    *)
(* the one exception are Overlooked threads: those that came with the fork *)
(* and pointed to the page which another thread of the child was seeded    *)
(* under before they were.  Of them the code promises nothing.             *)
(***************************************************************************)
Drawing == {u \in Processes \X Threads \X Kinds : Draws(u[1], u[2], u[3])}
Generator(u) == proc[u[1]].thread[u[2]][u[3]]
Overlooked(u) ==
    LET pr == proc[u[1]]
    IN /\ u[2] \in pr.heirs
       /\ \E w \in Threads \ pr.heirs : pr.thread[w].alive /\ pr.thread[w].ptr = pr.thread[u[2]].ptr
GeneratorsNotShared ==
    LET Defended == {u \in Drawing : ~Overlooked(u)}
    IN /\ \A u \in Defended : Generator(u) # Zero
       /\ \A u, v \in Defended : Generator(u) = Generator(v) => u = v
=============================================================================
