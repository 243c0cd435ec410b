---------------------------- MODULE MCHandshake ----------------------------
(***************************************************************************)
(* TLC instances of Handshake: the scenarios.                              *)
(***************************************************************************)
EXTENDS Handshake

Both13 == [e \in Endpoint |-> [min |-> 12, max |-> 13]]
Max12 == [min |-> 12, max |-> 12]

(***************************************************************************)
(* TLS 1.3: client authentication, PSKs, early data, retries, QUIC.  With  *)
(* early data both sides have the same authentication type.                *)
(***************************************************************************)
Tls13Scenarios ==
    {s \in [policy : {Both13}, quic : BOOLEAN, auth : [Endpoint -> Auth],
            clientCert : BOOLEAN, psk : {"none", "refused", "second", "first"},
            early : SUBSET Endpoint, retry : BOOLEAN, pfs : {TRUE},
            status : {"none"}, session : {"none"}, known : {FALSE}, reissue : {FALSE},
            tickets : {{}}, ticketKey : {FALSE}] :
        /\ s.quic => s.early = {}
        /\ s.early # {} => s.auth["client"] = s.auth["server"]
        /\ "client" \in s.early => s.psk # "none"}

(***************************************************************************)
(* TLS 1.2, because one side has no more: client authentication, session   *)
(* tickets and the session cache, OCSP responses, key exchanges.  A client *)
(* that requires authentication and resumes is left to ResumedScenarios,   *)
(* and key exchange without forward secrecy goes without tickets.          *)
(***************************************************************************)
Tls12Scenarios ==
    {s \in [policy : {[Both13 EXCEPT !["server"] = Max12]}, quic : {FALSE},
            auth : [Endpoint -> Auth], clientCert : BOOLEAN, psk : {"none"},
            early : {{}}, retry : {FALSE}, pfs : BOOLEAN,
            status : {"none", "staple", "promise"}, session : {"none", "ticket", "cache"},
            known : BOOLEAN, reissue : BOOLEAN, tickets : SUBSET Endpoint,
            ticketKey : BOOLEAN] :
        /\ s.session = "ticket" => "client" \in s.tickets
        /\ s.session = "none" => ~s.known
        /\ s.reissue => s.known /\ s.session = "ticket"
        /\ s.ticketKey => s.tickets = Endpoint
        /\ ~s.pfs => s.tickets = {}
        /\ ~(s.auth["client"] = "REQUIRED" /\ Resumes(s))}

(***************************************************************************)
(* Every pair of version ranges, with early data or a TLS 1.2 session.     *)
(***************************************************************************)
VersionScenarios ==
    {s \in [policy : [Endpoint -> Policy], quic : BOOLEAN,
            auth : {[e \in Endpoint |-> "NONE"]}, clientCert : {FALSE},
            psk : {"none", "first"}, early : {{}, Endpoint}, retry : BOOLEAN,
            pfs : {TRUE}, status : {"none"}, session : {"none", "cache"}, known : {TRUE},
            reissue : {FALSE}, tickets : {{}}, ticketKey : {FALSE}] :
        /\ s.early # {} => s.psk = "first" /\ ~s.quic
        /\ s.session # "none" => s.psk = "none" /\ ~s.quic}

AllScenarios == Tls13Scenarios \cup Tls12Scenarios \cup VersionScenarios

(***************************************************************************)
(* Early data that the server does not take, and a resumed session of a    *)
(* client that requires client authentication.                             *)
(***************************************************************************)
RejectedScenarios ==
    {s \in Tls13Scenarios :
        /\ s.psk = "refused"
        /\ s.early = Endpoint
        /\ ~s.retry
        /\ \A e \in Endpoint : s.auth[e] = "NONE"}

ResumedScenarios ==
    {[policy |-> [Both13 EXCEPT !["server"] = Max12], quic |-> FALSE,
      auth |-> [e \in Endpoint |-> IF e = "client" THEN "REQUIRED" ELSE "NONE"],
      clientCert |-> TRUE, psk |-> "none", early |-> {}, retry |-> FALSE, pfs |-> TRUE,
      status |-> "none", session |-> "cache", known |-> TRUE, reissue |-> FALSE,
      tickets |-> {}, ticketKey |-> FALSE]}
============================================================================
