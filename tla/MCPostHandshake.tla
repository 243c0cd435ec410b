-------------------------- MODULE MCPostHandshake --------------------------
(***************************************************************************)
(* TLC instances of PostHandshake.                                         *)
(***************************************************************************)
EXTENDS PostHandshake

(***************************************************************************)
(* The server is s2n and the client is another implementation, which may   *)
(* ask for key updates.                                                    *)
(***************************************************************************)
ClientOnly == {"client"}
NoForeign == {}
============================================================================
