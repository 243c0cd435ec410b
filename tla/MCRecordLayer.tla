--------------------------- MODULE MCRecordLayer ---------------------------
(***************************************************************************)
(* The record layer for TLC: every record algorithm with every version it  *)
(* is used with.                                                           *)
(***************************************************************************)
EXTENDS RecordLayer

(* Nothing, and more than any fragment. *)
MCSizes == {0, 20000}
MCTypes == {"app", "handshake", "ccs"}
=============================================================================
