------------------------------ MODULE MCProcess ------------------------------
(***************************************************************************)
(* Model checking Process: two processes of two threads, and a connection  *)
(* that is used twice with two calls or messages in each handshake.        *)
(***************************************************************************)
EXTENDS Process, TLC

ThreadSymmetry == Permutations(Threads)

MCKernels == {[wipes |-> TRUE, rdrand |-> FALSE, atexit_cleanup |-> FALSE],
              [wipes |-> FALSE, rdrand |-> TRUE, atexit_cleanup |-> TRUE]}

\* Every remainder is as likely as any other (s2n_public_random).
ASSUME Uniform ==
    \A bits \in 2..6, bound \in 1..20 : bound < 2^bits =>
        \A x, y \in 0..(bound - 1) :
            Cardinality({r \in Accepted(bits, bound) : s2n_public_random(r, bound) = x})
          = Cardinality({r \in Accepted(bits, bound) : s2n_public_random(r, bound) = y})
=============================================================================
