---------------------------- MODULE MCExtensions ----------------------------
(***************************************************************************)
(* The configured endpoints for TLC: three pairs (everything on, little    *)
(* on, a PSK with early data), with up to two settings changed when the    *)
(* peers are both s2n, one when a message may be altered on the way.       *)
(***************************************************************************)
EXTENDS Extensions

Full ==
  [version |-> TLS13, alpn |-> <<1, 2>>, mfl |-> 2, accept_mfl |-> TRUE, ocsp |-> TRUE,
   sct |-> TRUE, tickets |-> TRUE, client_auth |-> FALSE, name |-> 1, named |-> TRUE,
   groups |-> <<1, 2>>, quic |-> FALSE, quic_params |-> <<7>>, cb |-> "none",
   cb_does |-> "keep", early_expected |-> TRUE, psks |-> <<>>, psk_early |-> FALSE,
   psk_alpn |-> 0, psk_nul |-> FALSE, cipher |-> 1, max_early |-> 3, unit_test |-> FALSE,
   pq |-> FALSE, kems |-> <<1, 2>>, early_cb |-> "none", psk_cb |-> "none",
   psk_type |-> "external"]
Bare ==
  [Full EXCEPT !.alpn = <<>>, !.mfl = 0, !.accept_mfl = FALSE, !.ocsp = FALSE,
               !.sct = FALSE, !.tickets = FALSE, !.name = 0, !.named = FALSE, !.max_early = 0]
Psk == [Full EXCEPT !.psks = <<1>>, !.psk_early = TRUE, !.alpn = <<>>]

World(base) ==
  [client |-> base, server |-> [base EXCEPT !.alpn = IF base.alpn = <<>> THEN <<>> ELSE <<2, 3>>,
                                            !.quic_params = <<8>>]]

\* One setting of one side, or of both.
Both(field, value) == {<<"client", field, value>>, <<"server", field, value>>}
Changes ==
  {Both("version", TLS12), {<<"client", "version", TLS12>>}, {<<"server", "version", TLS12>>},
   Both("client_auth", TRUE), Both("unit_test", TRUE), Both("quic", TRUE),
   {<<"client", "quic", TRUE>>}, {<<"server", "quic", TRUE>>}, Both("quic_params", <<>>),
   Both("pq", TRUE), {<<"client", "pq", TRUE>>}, {<<"client", "kems", <<>>>>},
   {<<"server", "groups", <<2>>>>}, {<<"server", "groups", <<3>>>>},
   {<<"server", "groups", <<2, 1>>>>},
   {<<"client", "alpn", <<>>>>}, {<<"server", "alpn", <<>>>>}, {<<"server", "alpn", <<3>>>>},
   {<<"client", "mfl", 0>>}, {<<"client", "mfl", 3>>}, {<<"server", "accept_mfl", FALSE>>},
   {<<"client", "ocsp", FALSE>>}, {<<"server", "ocsp", FALSE>>},
   {<<"client", "sct", TRUE>>}, {<<"server", "sct", FALSE>>},
   {<<"client", "tickets", FALSE>>}, {<<"server", "tickets", FALSE>>},
   {<<"client", "name", 0>>}, {<<"server", "named", FALSE>>},
   {<<"server", "cb", "blocking">>}, {<<"server", "cb", "nonblocking">>},
   {<<"server", "cb_does", "swap">>}, {<<"server", "cb_does", "name">>},
   {<<"server", "cb_does", "reject">>},
   {<<"client", "early_expected", FALSE>>}, {<<"server", "early_expected", FALSE>>},
   {<<"client", "psks", <<2>>>>}, {<<"server", "psks", <<2>>>>},
   {<<"client", "psks", <<2, 1>>>>}, {<<"server", "psks", <<>>>>},
   Both("alpn", <<2>>),
   Both("psk_alpn", 2), Both("psk_alpn", 2) \cup Both("psk_nul", TRUE),
   {<<"client", "psk_alpn", 1>>}, {<<"server", "cipher", 2>>},
   {<<"server", "max_early", 0>>},
   {<<"server", "early_cb", "accepted">>}, {<<"server", "early_cb", "rejected">>},
   {<<"server", "early_cb", "later">>}, {<<"server", "early_cb", "fail">>},
   {<<"server", "psk_cb", "last">>}, {<<"server", "psk_cb", "decline">>},
   Both("psk_type", "resumption")}

Change(w, c) ==
  [side \in {"client", "server"} |->
     [field \in DOMAIN w[side] |->
        IF \E x \in c : x[1] = side /\ x[2] = field
        THEN (CHOOSE x \in c : x[1] = side /\ x[2] = field)[3] ELSE w[side][field]]]

\* The configuration a callback may put in place of the server's.
Whole(w, foreign) ==
  [client |-> w.client, server |-> w.server, foreign |-> foreign,
   other |-> [w.server EXCEPT !.alpn = <<1>>, !.sct = FALSE, !.groups = <<2>>,
                              !.cb = IF SwapBlocking THEN "none" ELSE @]]

(***************************************************************************)
(* After a HelloRetryRequest the client offers the PSKs of one hash and    *)
(* looks the chosen one up among all of them (s2n_server_psk.c:81): the    *)
(* worlds in which this goes wrong are left out.                           *)
(***************************************************************************)
TwoHashesRetried(w) ==
  /\ Len(w.client.psks) > 1
  /\ w.server.groups # <<1, 2>> \/ w.server.cb_does = "swap"

Pairs == {World(b) : b \in {Full, Bare, Psk}}
Once == Pairs \cup {Change(w, c) : w \in Pairs, c \in Changes}
Twice == Once \cup {Change(w, c) : w \in Once, c \in Changes}

MCWorlds ==
  {Whole(w, "no") : w \in {v \in Twice : ~TwoHashesRetried(v)}}
  \cup {Whole(w, "may") : w \in {v \in Once : ~TwoHashesRetried(v)}}
=============================================================================
