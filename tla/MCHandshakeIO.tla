--------------------------- MODULE MCHandshakeIO ---------------------------
(***************************************************************************)
(* TLC instances of HandshakeIO: scripts of a TLS 1.2 handshake with       *)
(* client authentication, shortened to the messages whose transport        *)
(* differs.                                                                *)
(***************************************************************************)
EXTENDS HandshakeIO

M(e, n) == [from |-> e, body |-> n, writerBlocks |-> FALSE, readerBlocks |-> FALSE]
Blocking(s, W, R) ==
    [m \in DOMAIN s |-> [s[m] EXCEPT !.writerBlocks = m \in W, !.readerBlocks = m \in R]]

(***************************************************************************)
(* Hello; hello, key exchange, an empty done; key exchange, verify;        *)
(* finished.                                                               *)
(***************************************************************************)
Full == <<M("client", 2), M("server", 1), M("server", 3), M("server", 0),
          M("client", 1), M("client", 2), M("server", 1)>>
(* Hello; hello, done; key exchange, verify. *)
Short == <<M("client", 1), M("server", 2), M("server", 0), M("client", 1), M("client", 1)>>

(***************************************************************************)
(* Server key exchange and verify are signed, the client key exchange is   *)
(* decrypted and the hello waits for its callback.                         *)
(***************************************************************************)
S2nScenarios ==
    {[script |-> Blocking(Full, W, R), foreign |-> {}, late |-> FALSE] :
        W \in SUBSET {3, 6}, R \in SUBSET {1, 5}}
ForeignScenarios ==
    {[script |-> Short, foreign |-> {e}, late |-> FALSE] : e \in Endpoint}
SafeScenarios == S2nScenarios \cup ForeignScenarios
ForeignClientBlocking == {[script |-> Blocking(Short, {}, {4}), foreign |-> {"client"}, late |-> FALSE]}
ForeignServer == {[script |-> Short, foreign |-> {"server"}, late |-> TRUE]}

(* What the proofs assume of the scenarios holds of the ones that are checked. *)
ASSUME SafeScenariosAreTame == Tame
============================================================================
