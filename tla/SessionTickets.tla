--------------------------- MODULE SessionTickets ---------------------------
(***************************************************************************)
(* Session tickets and cached sessions over the keys of TicketKeys: when a *)
(* server opens one, when it issues one, and how long what was agreed in a *)
(* full handshake lives on in the tickets made from it (tls/s2n_resume.c,  *)
(* tls/s2n_server_new_session_ticket.c, s2n_offered_psk_list_choose_psk).  *)
(*                                                                         *)
(* Connections are those of one server; clients present whatever they were *)
(* given, any number of times.  A ticket is what the server encrypted: the *)
(* key it used, and the session state.  In TLS 1.2 the handshake decides   *)
(* about a ticket when the ClientHello comes and sends it at the end.      *)
(***************************************************************************)
EXTENDS TicketKeys

CONSTANTS
    Versions,             \* the protocol versions in use, 12 or 13
    Connections,          \* connections of the server, one after the other or at once
    SessionStateLifetime, \* session_state_lifetime_in_nanos
    OneWeek,              \* ONE_WEEK_IN_SEC
    KeyingLifetimes,      \* the values of server_keying_material_lifetime
    OneSecond,            \* the least lifetime s2n_psk_validate_keying_material accepts
    LateTickets,          \* may tickets be asked for long after the handshake?
    MaxTickets            \* bound on the tickets clients hold and the sessions in the cache

ASSUME TicketAssumption ==
    /\ SessionStateLifetime \in Nat /\ OneWeek \in Nat /\ OneSecond \in Nat
    /\ Versions \subseteq {12, 13} /\ KeyingLifetimes \subseteq Nat
    /\ LateTickets \in BOOLEAN /\ MaxTickets \in Nat

VARIABLES
    conn,     \* the server's connections
    tickets,  \* every ticket clients hold
    cache     \* the external session cache, entries by session id

vars == <<now, config, conn, tickets, cache>>

(***************************************************************************)
(* issued is ticket_issue_time, expires keying_material_expiration (TLS    *)
(* 1.3 only).  The rest is history: when its key was chosen, whether the   *)
(* key store it was made with still lives and, for TLS 1.3, when the first *)
(* ticket of its chain expires; established is when a handshake was done.  *)
(***************************************************************************)
Time == Nat
Ticket == [version : {12, 13}, name : Names, material : Materials, issued : Time, expires : Time,
           chosen : Time, bound : Time, live : BOOLEAN]
NoTicket == [version |-> 0]

Conn == [phase : {"none", "hello", "typed", "keys", "done", "failed"}, version : {12, 13},
         offered : Ticket \cup {NoTicket}, sid : Connections,
         session_ticket_status : {"NO_TICKET", "DECRYPT_TICKET", "NEW_TICKET"},
         with_session_ticket : BOOLEAN, resumed : BOOLEAN,
         chosen_psk : Ticket \cup {NoTicket}, established : Time]
NewConn(c) == [phase |-> "none", version |-> 12, offered |-> NoTicket, sid |-> c,
               session_ticket_status |-> "NO_TICKET", with_session_ticket |-> FALSE,
               resumed |-> FALSE, chosen_psk |-> NoTicket, established |-> 0]

Room(others) == Cardinality(tickets) + Cardinality({s \in others : cache[s] # NoTicket}) < MaxTickets

-----------------------------------------------------------------------------
(***************************************************************************)
(* s2n_encrypt_session_ticket: the tickets it can make.  The key is chosen *)
(* at one reading of the clock, the state stamped at a later one.          *)
(***************************************************************************)
s2n_encrypt_session_ticket(c, chosenAt, stampedAt, expires, bound) ==
    {[version |-> conn[c].version, name |-> k.name, material |-> k.material,
      issued |-> stampedAt, expires |-> expires, chosen |-> chosenAt,
      bound |-> bound, live |-> TRUE] :
        k \in s2n_get_ticket_encrypt_decrypt_key(chosenAt) \ {NoKey}}
CannotEncrypt(at) == NoKey \in s2n_get_ticket_encrypt_decrypt_key(at)

(***************************************************************************)
(* What deserializing the state checks.                                    *)
(***************************************************************************)
s2n_tls12_deserialize_resumption_state_AnyAge(c, t, at) == t.version = conn[c].version /\ t.issued <= at
s2n_tls12_deserialize_resumption_state(c, t, at) ==
    t.version = conn[c].version /\ t.issued <= at /\ at - t.issued <= SessionStateLifetime

s2n_tls13_deserialize_session_state(c, t, at) ==
    t.version = 13 /\ t.issued <= at /\ at - t.issued <= OneWeek /\ t.expires > at

s2n_deserialize_resumption_state(c, t, at) ==
    IF t.version = 12 THEN s2n_tls12_deserialize_resumption_state(c, t, at)
    ELSE s2n_tls13_deserialize_session_state(c, t, at)

(***************************************************************************)
(* s2n_decrypt_session_ticket up to the session state: the key of that     *)
(* name is looked up, the ticket opens if it was made with the same key.   *)
(***************************************************************************)
Opens(c, t, foundAt, readAt) ==
    LET key == s2n_find_ticket_key(config.ticket_keys, t.name, foundAt).key
    IN  key # NoKey /\ key.material = t.material /\ s2n_deserialize_resumption_state(c, t, readAt)

(***************************************************************************)
(* s2n_decrypt_session_cache opens a cached session in the same way.       *)
(***************************************************************************)
s2n_decrypt_session_cache(c, entry, foundAt, readAt) == Opens(c, entry, foundAt, readAt)

KeysAfter(t, at) ==
    [config EXCEPT !.ticket_keys = s2n_find_ticket_key(@, t.name, at).left]

(***************************************************************************)
(* The end of s2n_decrypt_session_ticket: a ticket whose key is no longer  *)
(* used for encryption is replaced, if there is a key to do it with.       *)
(***************************************************************************)
Replaces(t, at) ==
    /\ DecryptOnly(s2n_find_ticket_key(config.ticket_keys, t.name, now).key, at)
    /\ s2n_config_is_encrypt_decrypt_key_available(at)

-----------------------------------------------------------------------------
(***************************************************************************)
(* TLS 1.2.  s2n_client_session_ticket_recv.                               *)
(***************************************************************************)
Set(c, r) == conn' = [conn EXCEPT ![c] = r]
Offerable(version) == {t \in tickets : t.version = version} \cup {NoTicket}

s2n_client_session_ticket_recv(c, t, sid) ==
    /\ conn[c].phase = "none" /\ 12 \in Versions
    /\ Set(c, [NewConn(c) EXCEPT
           !.phase = "hello", !.offered = t, !.sid = sid,
           !.session_ticket_status =
               IF ~config.use_tickets THEN "NO_TICKET"
               ELSE IF t # NoTicket THEN "DECRYPT_TICKET"
               ELSE IF s2n_config_is_encrypt_decrypt_key_available(now) THEN "NEW_TICKET"
               ELSE "NO_TICKET"])
    /\ UNCHANGED <<now, config, tickets, cache>>

(***************************************************************************)
(* s2n_conn_set_handshake_type: the ticket is opened, or the session is    *)
(* looked up in the cache, or the handshake is a full one.  The clock is   *)
(* read several times; the later readings are at "at".                     *)
(***************************************************************************)
ResumesTicket(c, at) ==
    /\ config.use_tickets /\ conn[c].session_ticket_status = "DECRYPT_TICKET"
    /\ Opens(c, conn[c].offered, now, at)
    /\ Set(c, [conn[c] EXCEPT
           !.phase = "keys", !.resumed = TRUE, !.offered = NoTicket,
           !.session_ticket_status = IF Replaces(conn[c].offered, at) THEN "NEW_TICKET" ELSE @,
           !.with_session_ticket = Replaces(conn[c].offered, at)])
    /\ config' = KeysAfter(conn[c].offered, now)

RefusesTicket(c, at) ==
    /\ config.use_tickets /\ conn[c].session_ticket_status = "DECRYPT_TICKET"
    /\ ~Opens(c, conn[c].offered, now, at)
    /\ LET new == \E i \in DOMAIN config.ticket_keys :
                      MayEncrypt(config.ticket_keys[i], at)
       IN  Set(c, [conn[c] EXCEPT
               !.phase = "typed", !.sid = c, !.offered = NoTicket,
               !.session_ticket_status = IF new THEN "NEW_TICKET" ELSE @,
               !.with_session_ticket = new])
    /\ config' = KeysAfter(conn[c].offered, now)

(***************************************************************************)
(* No ticket was presented: the session is looked up in the cache.         *)
(***************************************************************************)
LooksUpCache(c, at) ==
    LET nst == config.use_tickets /\ conn[c].session_ticket_status = "NEW_TICKET"
        entry == IF config.use_session_cache THEN cache[conn[c].sid] ELSE NoTicket
        found == entry # NoTicket /\ s2n_decrypt_session_cache(c, entry, now, at)
    IN  /\ ~(config.use_tickets /\ conn[c].session_ticket_status = "DECRYPT_TICKET")
        /\ config' = IF entry = NoTicket THEN config ELSE KeysAfter(entry, now)
        /\ Set(c, [conn[c] EXCEPT
               !.phase = IF found THEN "keys" ELSE "typed", !.resumed = found,
               !.sid = IF found THEN @ ELSE c, !.offered = NoTicket,
               !.with_session_ticket = nst])

s2n_conn_set_handshake_type(c) ==
    /\ conn[c].phase = "hello" /\ conn[c].version = 12
    /\ \E at \in {t \in {now, now + 1} : t <= MaxTime} :
           /\ ResumesTicket(c, at) \/ RefusesTicket(c, at) \/ LooksUpCache(c, at)
           /\ now' = at
    /\ UNCHANGED <<tickets, cache>>

(***************************************************************************)
(* s2n_calculate_keys of a full handshake puts the session into the cache; *)
(* without a key to encrypt it with, or if none is picked, the handshake   *)
(* fails.                                                                  *)
(***************************************************************************)
s2n_store_to_cache(c) ==
    /\ conn[c].phase = "typed" /\ conn[c].version = 12
    /\ IF ~config.use_session_cache
       THEN Set(c, [conn[c] EXCEPT !.phase = "keys"]) /\ UNCHANGED cache
       ELSE \/ \E t \in s2n_encrypt_session_ticket(c, now, now, 0, 0) :
                   /\ Room(Connections \ {conn[c].sid})
                   /\ cache' = [cache EXCEPT ![conn[c].sid] = t]
                   /\ Set(c, [conn[c] EXCEPT !.phase = "keys"])
            \/ /\ CannotEncrypt(now)
               /\ Set(c, [conn[c] EXCEPT !.phase = "failed"])
               /\ cache' = [cache EXCEPT ![conn[c].sid] = NoTicket]
    /\ UNCHANGED <<now, config, tickets>>

(***************************************************************************)
(* s2n_server_nst_send, when the handshake was to have a NewSessionTicket. *)
(* If tickets were turned off meanwhile it is sent empty; if the keys are  *)
(* gone or none is picked, or the status no longer says so, the handshake  *)
(* fails.                                                                  *)
(***************************************************************************)
NstFails(c) ==
    /\ config.use_tickets
    /\ conn[c].session_ticket_status # "NEW_TICKET" \/ CannotEncrypt(now)
    /\ Set(c, [conn[c] EXCEPT !.phase = "failed"])
    /\ cache' = IF config.use_session_cache
                THEN [cache EXCEPT ![conn[c].sid] = NoTicket] ELSE cache
    /\ UNCHANGED tickets
NstEmpty(c) ==
    /\ ~config.use_tickets
    /\ Set(c, [conn[c] EXCEPT !.phase = "done"])
    /\ UNCHANGED <<tickets, cache>>
NstSent(c) ==
    /\ config.use_tickets /\ conn[c].session_ticket_status = "NEW_TICKET"
    /\ \E t \in s2n_encrypt_session_ticket(c, now, now, 0, 0) : tickets' = tickets \cup {t}
    /\ Set(c, [conn[c] EXCEPT !.phase = "done"])
    /\ UNCHANGED cache

s2n_server_nst_send(c) ==
    /\ conn[c].phase = "keys" /\ conn[c].with_session_ticket /\ Room(Connections)
    /\ NstFails(c) \/ NstEmpty(c) \/ NstSent(c)
    /\ UNCHANGED <<now, config>>

NoNst(c) ==
    /\ conn[c].phase = "keys" /\ ~conn[c].with_session_ticket
    /\ Set(c, [conn[c] EXCEPT !.phase = "done"])
    /\ UNCHANGED <<now, config, tickets, cache>>

-----------------------------------------------------------------------------
(***************************************************************************)
(* TLS 1.3.  s2n_offered_psk_list_choose_psk for the one ticket offered:   *)
(* it must open, and be younger by the client's own reckoning than a       *)
(* session may be; otherwise the handshake is a full one.                  *)
(***************************************************************************)
Chooses(c, t, at) ==
    /\ t # NoTicket /\ config.use_tickets
    /\ Opens(c, t, now, at)
    /\ at - t.issued < SessionStateLifetime

s2n_offered_psk_list_choose_psk(c, t) ==
    /\ conn[c].phase = "none" /\ 13 \in Versions
    /\ \E at \in {x \in {now, now + 1} : x <= MaxTime} :
           LET psk == Chooses(c, t, at)
           IN  /\ Set(c, [NewConn(c) EXCEPT
                      !.phase = "done", !.version = 13, !.resumed = psk,
                      !.chosen_psk = IF psk THEN t ELSE NoTicket, !.established = at])
               /\ now' = at
    /\ config' = IF t # NoTicket /\ config.use_tickets THEN KeysAfter(t, now) ELSE config
    /\ UNCHANGED <<tickets, cache>>

s2n_psk_validate_keying_material(c, at) ==
    conn[c].chosen_psk # NoTicket => conn[c].chosen_psk.expires > at + OneSecond

(***************************************************************************)
(* s2n_tls13_serialize_keying_material_expiration.                         *)
(***************************************************************************)
KeyingMaterialExpiration_Afresh(c, at, lifetime) == at + lifetime
KeyingMaterialExpiration(c, at, lifetime) ==
    IF conn[c].chosen_psk = NoTicket THEN at + lifetime
    ELSE Min({conn[c].chosen_psk.expires, at + lifetime})

(***************************************************************************)
(* s2n_tls13_server_nst_send writes a ticket; without a key it gives up    *)
(* quietly.  What a ticket made in a full handshake is bound by is its own *)
(* expiration, and later ones are bound by the same.                       *)
(***************************************************************************)
s2n_tls13_server_nst_send(c, lifetime) ==
    /\ conn[c].phase = "done" /\ conn[c].version = 13 /\ config.use_tickets
    /\ LateTickets \/ conn[c].established = now
    /\ Room(Connections)
    /\ s2n_psk_validate_keying_material(c, now)
    /\ \E at \in {x \in {now, now + 1} : x <= MaxTime} :
           LET expires == KeyingMaterialExpiration(c, at, lifetime)
               bound == IF conn[c].chosen_psk = NoTicket THEN expires ELSE conn[c].chosen_psk.bound
           IN  /\ \E t \in s2n_encrypt_session_ticket(c, now, at, expires, bound) :
                      tickets' = tickets \cup {t}
               /\ now' = at
    /\ UNCHANGED <<config, conn, cache>>

s2n_connection_wipe(c) ==
    /\ conn[c].phase \in {"done", "failed"}
    /\ Set(c, NewConn(c))
    /\ UNCHANGED <<now, config, tickets, cache>>

-----------------------------------------------------------------------------
(***************************************************************************)
(* The store changes under the connections.  Clients keep their tickets,   *)
(* which are worth nothing once the store they were made with is freed.    *)
(***************************************************************************)
KeysChange ==
    /\ KeyNext
    /\ LET freed == ~config'.use_tickets /\ ~config'.use_session_cache
       IN  tickets' = IF freed THEN {[t EXCEPT !.live = FALSE] : t \in tickets} ELSE tickets
    /\ UNCHANGED <<conn, cache>>

(***************************************************************************)
(* A client forgets a ticket, or the cache a session.                      *)
(***************************************************************************)
Forget(t) ==
    /\ tickets' = tickets \ {t}
    /\ UNCHANGED <<now, config, conn, cache>>
Evict(sid) ==
    /\ cache[sid] # NoTicket
    /\ cache' = [cache EXCEPT ![sid] = NoTicket]
    /\ UNCHANGED <<now, config, conn, tickets>>

Init ==
    /\ KeyInit
    /\ conn = [c \in Connections |-> NewConn(c)]
    /\ tickets = {}
    /\ cache = [c \in Connections |-> NoTicket]

Next ==
    \/ KeysChange
    \/ \E t \in tickets : Forget(t)
    \/ \E sid \in Connections : Evict(sid)
    \/ \E c \in Connections :
           \/ \E t \in Offerable(12), sid \in Connections : s2n_client_session_ticket_recv(c, t, sid)
           \/ s2n_conn_set_handshake_type(c)
           \/ s2n_store_to_cache(c)
           \/ s2n_server_nst_send(c)
           \/ NoNst(c)
           \/ \E t \in Offerable(13) : s2n_offered_psk_list_choose_psk(c, t)
           \/ \E l \in KeyingLifetimes : s2n_tls13_server_nst_send(c, l)
           \/ s2n_connection_wipe(c)

Spec == Init /\ [][Next]_vars

-----------------------------------------------------------------------------
TypeOK ==
    /\ KeysTypeOK
    /\ conn \in [Connections -> Conn]
    /\ tickets \subseteq Ticket
    /\ cache \in [Connections -> Ticket \cup {NoTicket}]

(***************************************************************************)
(* A TLS 1.3 ticket is good for the lifetime it was sent with: as long as  *)
(* its own keying material has not expired, the key it was made with is    *)
(* still there, and still decrypts, for ticket_lifetime after it was       *)
(* chosen (s2n_generate_ticket_lifetime promises the least of the decrypt  *)
(* lifetime, the session lifetime and a week).  It fails if a key is wiped *)
(* too early, the wrong one is, or a name comes to mean another key.       *)
(***************************************************************************)
s2n_generate_ticket_lifetime == Min({DecryptLifetime, SessionStateLifetime, OneWeek})
LifetimeHonoured ==
    \A t \in tickets :
        (t.version = 13 /\ t.live /\ now < t.chosen + s2n_generate_ticket_lifetime /\ now < t.expires)
            => \A c \in Connections : Opens(c, t, now, now)

(***************************************************************************)
(* What was agreed in one full handshake does not live on for ever in      *)
(* tickets made from tickets, though each resumption counts the time of a  *)
(* new one afresh: whichever of them a client keeps or forgets, and        *)
(* however often it resumes, no ticket is made to last and no connection   *)
(* resumes beyond the expiration of the first ticket of the chain.         *)
(***************************************************************************)
ChainBounded ==
    /\ \A t \in tickets : t.version = 13 => t.expires <= t.bound
    /\ \A c \in Connections :
           conn[c].chosen_psk # NoTicket => conn[c].established < conn[c].chosen_psk.bound

(***************************************************************************)
(* "Server does an abbreviated handshake, but does not issue a NST even    *)
(* though the key is in decrypt-only state due to the absence of           *)
(* encrypt-decrypt key" (tests/unit/s2n_session_ticket_test.c): a TLS 1.2  *)
(* handshake that was to end with a ticket does not fail for want of a key.*)
(***************************************************************************)
NoTicketNoHarm ==
    \A c \in Connections :
        (conn[c].phase = "failed" /\ conn[c].with_session_ticket) => config.use_session_cache

(***************************************************************************)
(* "Use this to ensure session tickets don't get reissued past the         *)
(* lifetime of the certificate used to authenticate the original full      *)
(* handshake" (docs/USAGE-GUIDE.md): no ticket outlives, by the lifetime   *)
(* that was set, the full handshake it was made in.                        *)
(***************************************************************************)
LifetimeFromHandshake ==
    [][\A c \in Connections, l \in KeyingLifetimes :
          (s2n_tls13_server_nst_send(c, l) /\ conn[c].chosen_psk = NoTicket)
              => \A t \in tickets' \ tickets : t.expires <= conn[c].established + l + 1]_vars
=============================================================================
