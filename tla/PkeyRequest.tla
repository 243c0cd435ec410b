---------------------------- MODULE PkeyRequest ----------------------------
(***************************************************************************)
(* What a handshake expects of an asynchronous private key operation: it   *)
(* is answered at most once, only while it is waiting, and with the answer *)
(* to a request that was made for this connection, is neither answered nor *)
(* given up, and is never used again.  A connection that starts anew while *)
(* a request is open may be given the answer to that one.                  *)
(***************************************************************************)
EXTENDS Naturals

CONSTANTS Connections

VARIABLES
    phase,     \* phase[c]: where the request of connection c is
    request,   \* request[c]: the number of its last request
    answer,    \* answer[c]: the number of the request it was last answered
    open       \* open[c]: the requests that may still be answered

vars == <<phase, request, answer, open>>

Phase == {"idle", "asking", "waiting", "answered", "failed"}

Init ==
    /\ phase = [c \in Connections |-> "idle"]
    /\ request = [c \in Connections |-> 0]
    /\ answer = [c \in Connections |-> 0]
    /\ open = [c \in Connections |-> {}]

Move(c, from, to) ==
    /\ phase[c] = from
    /\ phase' = [phase EXCEPT ![c] = to]

Ask(c) ==
    /\ Move(c, "idle", "asking")
    /\ request' = [request EXCEPT ![c] = @ + 1]
    /\ open' = [open EXCEPT ![c] = @ \cup {request[c] + 1}]
    /\ UNCHANGED answer
Wait(c) == Move(c, "asking", "waiting") /\ UNCHANGED <<request, answer, open>>
Refuse(c) == Move(c, "asking", "failed") /\ UNCHANGED <<request, answer, open>>
Answer(c) ==
    /\ Move(c, "waiting", "answered")
    /\ \E n \in open[c] : /\ answer' = [answer EXCEPT ![c] = n]
                          /\ open' = [open EXCEPT ![c] = @ \ {n}]
    /\ UNCHANGED request
Use(c) == Move(c, "answered", "idle") /\ UNCHANGED <<request, answer, open>>
GiveUp(c) ==
    /\ \E n \in open[c] : open' = [open EXCEPT ![c] = @ \ {n}]
    /\ UNCHANGED <<phase, request, answer>>

(***************************************************************************)
(* The connection starts anew.  Its requests stay open.                    *)
(***************************************************************************)
Reset(c) ==
    /\ phase' = [phase EXCEPT ![c] = "idle"]
    /\ answer' = [answer EXCEPT ![c] = 0]
    /\ UNCHANGED <<request, open>>

Next == \E c \in Connections :
    Ask(c) \/ Wait(c) \/ Refuse(c) \/ Answer(c) \/ Use(c) \/ GiveUp(c) \/ Reset(c)

Spec == Init /\ [][Next]_vars
============================================================================
