----------------------------- MODULE AsyncPkey -----------------------------
(***************************************************************************)
(* Asynchronous private key operations (tls/s2n_async_pkey.c).  A handler  *)
(* of the handshake makes an operation and hands it to the application's   *)
(* callback; the application performs it, in another thread perhaps, and   *)
(* applies it to the connection, which lets the paused handshake go on.    *)
(*                                                                         *)
(* An operation may be performed, completed from outside, applied and      *)
(* freed in any order the application chooses; a connection may be wiped   *)
(* for another handshake, freed, and allocated again at the same address.  *)
(* Connections and operations are freed at any moment, but for a           *)
(* connection inside the callback.  As the documentation asks, no two      *)
(* calls use one connection or one operation at the same time.  Signatures *)
(* and plaintexts are good or bad.                                         *)
(***************************************************************************)
EXTENDS Naturals

CONSTANTS
    Connections,   \* the addresses of connections
    Operations,    \* the addresses of operations
    Types,         \* a subset of S2N_ASYNC_DECRYPT and S2N_ASYNC_SIGN
    Careless,      \* may results be bad, and modes change at any time?
    MaxRequests,   \* bound on the requests of a connection
    MaxTogether    \* bound on the requests of any two connections

ASSUME TypesAssumption == Types \subseteq {"DECRYPT", "SIGN"}
ASSUME FlagAssumption == Careless \in BOOLEAN
ASSUME BoundAssumption == MaxRequests \in Nat /\ MaxTogether \in Nat

VARIABLES
    conn,      \* the connections
    op,        \* the operations
    orphan     \* an operation was performed for a connection that is gone

vars == <<conn, op, orphan>>

(***************************************************************************)
(* async is handshake.async_state.  request counts the operations made for *)
(* this address, result is what on_complete has put into the handshake:    *)
(* which request it belongs to and its value.  completions counts the      *)
(* on_complete calls since the handler was entered first.  alone tells     *)
(* that no older operation for this address was outstanding then.          *)
(***************************************************************************)
AsyncState == {"NOT_INVOKED", "INVOKING_CALLBACK", "INVOKED_WAITING", "INVOKED_COMPLETE"}
Value == {"none", "good", "bad", "short"}
Connection == [alive : BOOLEAN, failed : BOOLEAN, async : AsyncState, paused : BOOLEAN,
               request : 0..MaxRequests, result : [of : 0..MaxRequests, value : Value,
               strict : BOOLEAN], completions : 0..MaxRequests, alone : BOOLEAN]
NoResult == [of |-> 0, value |-> "none", strict |-> FALSE]
NewConnection == [alive |-> TRUE, failed |-> FALSE, async |-> "NOT_INVOKED", paused |-> FALSE,
                  request |-> 0, result |-> NoResult, completions |-> 0,
                  alone |-> TRUE]

(***************************************************************************)
(* digest tells whether the hash state of a signature can still be used.   *)
(***************************************************************************)
NoOperation == [type |-> "none"]
Operation == [type : {"DECRYPT", "SIGN"}, conn : Connections, of : 1..MaxRequests,
              mode : {"FAST", "STRICT"}, complete : BOOLEAN, applied : BOOLEAN,
              digest : BOOLEAN, output : Value]

Allocated(o) == op[o] # NoOperation
Outstanding(c) == \E o \in Operations : Allocated(o) /\ op[o].conn = c /\ ~op[o].applied

----------------------------------------------------------------------------
(***************************************************************************)
(* The handshake.                                                          *)
(***************************************************************************)

(***************************************************************************)
(* s2n_async_pkey_sign_async and s2n_async_pkey_decrypt_async up to the    *)
(* callback.                                                               *)
(***************************************************************************)
Invoke(c, o) ==
    /\ conn[c].alive /\ ~conn[c].failed /\ ~conn[c].paused
    /\ conn[c].async = "NOT_INVOKED"
    /\ conn[c].request < MaxRequests
    /\ \A d \in Connections \ {c} : conn[c].request + conn[d].request < MaxTogether
    /\ ~Allocated(o)
    /\ conn' = [conn EXCEPT ![c].async = "INVOKING_CALLBACK", ![c].request = @ + 1,
                            ![c].completions = 0, ![c].alone = ~Outstanding(c)]
    /\ \E t \in Types, m \in (IF Careless THEN {"FAST", "STRICT"} ELSE {"FAST"}) :
          op' = [op EXCEPT ![o] =
              [type |-> t, conn |-> c, of |-> conn[c].request + 1, mode |-> m,
               complete |-> FALSE, applied |-> FALSE, digest |-> TRUE, output |-> "none"]]
    /\ UNCHANGED orphan

CallbackReturns(c) ==
    /\ conn[c].async = "INVOKING_CALLBACK" /\ ~conn[c].failed
    /\ \/ conn' = [conn EXCEPT ![c].async = "INVOKED_WAITING", ![c].paused = TRUE]
       \/ Careless /\ conn' = [conn EXCEPT ![c].failed = TRUE]
    /\ UNCHANGED <<op, orphan>>

(***************************************************************************)
(* s2n_handle_retry_state with S2N_ASYNC_PKEY_GUARD in the handler.        *)
(***************************************************************************)
s2n_handle_retry_state(c) ==
    /\ conn[c].alive /\ conn[c].paused
    /\ conn[c].async = "INVOKED_COMPLETE"
    /\ conn' = [conn EXCEPT ![c].async = "NOT_INVOKED", ![c].paused = FALSE]
    /\ UNCHANGED <<op, orphan>>

----------------------------------------------------------------------------
(***************************************************************************)
(* The operation.                                                          *)
(***************************************************************************)

(***************************************************************************)
(* Signing reads op->conn->config.  In fast mode it uses up the digest,    *)
(* even when the key then fails; it fails when the digest was used before. *)
(***************************************************************************)
s2n_async_pkey_decrypt_perform(o, v) ==
    /\ op[o].type = "DECRYPT"
    /\ op' = [op EXCEPT ![o].output = v, ![o].complete = TRUE]
    /\ UNCHANGED orphan

s2n_async_pkey_sign_perform(o, v) ==
    /\ op[o].type = "SIGN"
    /\ orphan' = (orphan \/ ~conn[op[o].conn].alive)
    /\ op[o].digest
    /\ \E ok \in (IF Careless THEN BOOLEAN ELSE {TRUE}) :
          op' = [op EXCEPT ![o].output = IF ok THEN v ELSE @, ![o].complete = ok,
                           ![o].digest = op[o].mode = "STRICT"]

s2n_async_pkey_op_perform(o) ==
    /\ Allocated(o)
    /\ ~op[o].complete
    /\ \E v \in (IF Careless THEN {"good", "bad"} ELSE {"good"}) :
          s2n_async_pkey_decrypt_perform(o, v) \/ s2n_async_pkey_sign_perform(o, v)
    /\ UNCHANGED conn

(***************************************************************************)
(* The application did the work itself, or asks for the result to be       *)
(* checked.  The code has no guard: a careful application sets what it     *)
(* computed, and the mode before it computes.                              *)
(***************************************************************************)
s2n_async_pkey_op_set_output(o) ==
    /\ Allocated(o)
    /\ \E v \in (IF Careless THEN {"good", "bad", "short"} ELSE {"good"}) :
          op' = [op EXCEPT ![o].output = v, ![o].complete = TRUE]
    /\ UNCHANGED <<conn, orphan>>

s2n_async_pkey_op_set_validation_mode(o) ==
    /\ Allocated(o)
    /\ Careless \/ ~op[o].complete
    /\ \E m \in {"FAST", "STRICT"} : op' = [op EXCEPT ![o].mode = m]
    /\ UNCHANGED <<conn, orphan>>

(***************************************************************************)
(* Whether the apply function of the type succeeds.  A strict signature is *)
(* verified, which uses up the digest; a plaintext has the right size.     *)
(***************************************************************************)
s2n_async_pkey_decrypt_apply(p) == p.output # "short"
SignApply_DigestOnly(p) == p.mode = "STRICT" => p.digest
s2n_async_pkey_sign_apply(p) == p.mode = "STRICT" => p.digest /\ p.output = "good"
Applies(p) ==
    IF p.type = "DECRYPT" THEN s2n_async_pkey_decrypt_apply(p)
    ELSE s2n_async_pkey_sign_apply(p)

CanApply_NotOnce(o, c) ==
    /\ Allocated(o) /\ conn[c].alive
    /\ op[o].complete
    /\ op[o].conn = c
    /\ conn[c].async = "INVOKED_WAITING"
CanApply_Again(o, c) ==
    /\ Allocated(o) /\ conn[c].alive
    /\ op[o].complete
    /\ op[o].conn = c
    /\ conn[c].async # "INVOKING_CALLBACK"
CanApply_AnyState(o, c) ==
    /\ Allocated(o) /\ conn[c].alive
    /\ op[o].complete /\ ~op[o].applied
    /\ op[o].conn = c
CanApply(o, c) ==
    /\ Allocated(o) /\ conn[c].alive
    /\ op[o].complete /\ ~op[o].applied
    /\ op[o].conn = c
    /\ conn[c].async = "INVOKED_WAITING"

s2n_async_pkey_op_apply(o, c) ==
    /\ CanApply(o, c)
    /\ IF Applies(op[o])
       THEN /\ conn' = [conn EXCEPT
                 ![c].result = [of |-> op[o].of, value |-> op[o].output,
                                strict |-> op[o].type = "SIGN" /\ op[o].mode = "STRICT"],
                 ![c].completions = @ + 1,
                 ![c].async = "INVOKED_COMPLETE"]
            /\ op' = [op EXCEPT ![o].applied = TRUE, ![o].digest = FALSE, ![o].output = "none"]
       ELSE /\ op' = [op EXCEPT ![o].digest = @ /\ op[o].type = "DECRYPT"]
            /\ UNCHANGED conn
    /\ UNCHANGED orphan

s2n_async_pkey_op_free(o) ==
    /\ Allocated(o)
    /\ op' = [op EXCEPT ![o] = NoOperation]
    /\ UNCHANGED <<conn, orphan>>

----------------------------------------------------------------------------
(***************************************************************************)
(* The connection's life.  The callback does not wipe or free it.          *)
(***************************************************************************)
MayGo(c) ==
    /\ conn[c].alive
    /\ conn[c].async = "INVOKING_CALLBACK" => conn[c].failed

Cleared(c) == [NewConnection EXCEPT !.request = conn[c].request]

s2n_connection_wipe(c) ==
    /\ MayGo(c)
    /\ conn' = [conn EXCEPT ![c] = Cleared(c)]
    /\ UNCHANGED <<op, orphan>>

s2n_connection_free(c) ==
    /\ MayGo(c)
    /\ conn' = [conn EXCEPT ![c] = [Cleared(c) EXCEPT !.alive = FALSE]]
    /\ UNCHANGED <<op, orphan>>

s2n_connection_new(c) ==
    /\ ~conn[c].alive
    /\ conn' = [conn EXCEPT ![c] = Cleared(c)]
    /\ UNCHANGED <<op, orphan>>

----------------------------------------------------------------------------
Init ==
    /\ conn = [c \in Connections |-> NewConnection]
    /\ op = [o \in Operations |-> NoOperation]
    /\ orphan = FALSE

Next ==
    \/ \E c \in Connections, o \in Operations : Invoke(c, o) \/ s2n_async_pkey_op_apply(o, c)
    \/ \E c \in Connections : \/ CallbackReturns(c) \/ s2n_handle_retry_state(c)
                              \/ s2n_connection_wipe(c) \/ s2n_connection_free(c)
                              \/ s2n_connection_new(c)
    \/ \E o \in Operations : \/ s2n_async_pkey_op_perform(o) \/ s2n_async_pkey_op_set_output(o)
                             \/ s2n_async_pkey_op_set_validation_mode(o)
                             \/ s2n_async_pkey_op_free(o)

Spec == Init /\ [][Next]_vars

(***************************************************************************)
(* Callbacks return, applications perform and apply their operations and   *)
(* call s2n_negotiate again.                                               *)
(***************************************************************************)
FairSpec ==
    /\ Spec
    /\ \A c \in Connections : WF_vars(CallbackReturns(c)) /\ WF_vars(s2n_handle_retry_state(c))
    /\ \A o \in Operations :
          /\ WF_vars(s2n_async_pkey_op_perform(o))
          /\ WF_vars(\E c \in Connections : s2n_async_pkey_op_apply(o, c))

----------------------------------------------------------------------------
(***************************************************************************)
(* Type invariant.                                                         *)
(***************************************************************************)
TypeOK ==
    /\ conn \in [Connections -> Connection]
    /\ op \in [Operations -> Operation \cup {NoOperation}]
    /\ orphan \in BOOLEAN

(***************************************************************************)
(* A handler that s2n_negotiate calls again to go on finds one result, put *)
(* there by one call of on_complete.  It is of the operation it made       *)
(* itself, unless an operation that was made for an earlier handshake at   *)
(* this address was still around when it asked: s2n_async_pkey_op_apply    *)
(* compares addresses, and takes the stale one for the new handshake.      *)
(***************************************************************************)
OwnResult ==
    \A c \in Connections :
       conn[c].async = "INVOKED_COMPLETE" =>
          /\ conn[c].completions = 1
          /\ conn[c].alone => conn[c].result.of = conn[c].request

(***************************************************************************)
(* A signature that is sent under strict validation is valid, whenever the *)
(* mode was set and whoever made it.                                       *)
(***************************************************************************)
StrictIsValid ==
    \A c \in Connections : conn[c].result.strict => conn[c].result.value = "good"

(***************************************************************************)
(* No operation looks at a connection that was freed.                      *)
(***************************************************************************)
Uncoupled == ~orphan

(***************************************************************************)
(* A handshake that waits for an operation goes on, or is wiped or freed,  *)
(* unless the application freed the operation it waits for: that one waits *)
(* for ever.                                                               *)
(***************************************************************************)
Awaited(c) ==
    \E o \in Operations :
       Allocated(o) /\ op[o].conn = c /\ op[o].of = conn[c].request /\ ~op[o].applied

(***************************************************************************)
(* The operations implement the abstract request of a handshake.           *)
(***************************************************************************)
PhaseOf(c) ==
    CASE c.failed -> "failed"
      [] c.async = "INVOKING_CALLBACK" /\ ~c.failed -> "asking"
      [] c.async = "INVOKED_WAITING" -> "waiting"
      [] c.async = "INVOKED_COMPLETE" -> "answered"
      [] OTHER -> "idle"

OpenRequests(c) ==
    {op[o].of : o \in {q \in Operations : Allocated(q) /\ op[q].conn = c /\ ~op[q].applied}}

Abstract == INSTANCE PkeyRequest WITH
    phase <- [c \in Connections |-> PhaseOf(conn[c])],
    request <- [c \in Connections |-> conn[c].request],
    answer <- [c \in Connections |-> conn[c].result.of],
    open <- [c \in Connections |-> OpenRequests(c)]
RequestsAnswered == Abstract!Spec
============================================================================
