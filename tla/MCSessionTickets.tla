-------------------------- MODULE MCSessionTickets --------------------------
(***************************************************************************)
(* TLC instances of SessionTickets.                                        *)
(***************************************************************************)
EXTENDS SessionTickets
CONSTANTS n1, n2, m1, m2, c1, c2
Symmetry == Permutations(Names) \cup Permutations(Materials)
=============================================================================
