-------------------------- MODULE AsyncPkeyProofs --------------------------
(***************************************************************************)
(* Proofs about AsyncPkey, for any connections and operations.             *)
(***************************************************************************)
EXTENDS AsyncPkey, TLAPS

----------------------------------------------------------------------------
(***************************************************************************)
(* Types.  The counter of completions stays in its range because a handler *)
(* that was entered is completed once: apply leaves the state in which it  *)
(* may be called.                                                          *)
(***************************************************************************)
Asking == {"INVOKING_CALLBACK", "INVOKED_WAITING"}

CompletedOnce ==
    \A c \in Connections :
       conn[c].async \in Asking => conn[c].completions = 0 /\ conn[c].request > 0

TypeInv == TypeOK /\ CompletedOnce

LEMMA ConnectionTypes ==
    /\ NewConnection \in Connection
    /\ \A k \in Connection : [NewConnection EXCEPT !.request = k.request] \in Connection
    /\ \A k \in Connection :
          [[NewConnection EXCEPT !.request = k.request] EXCEPT !.alive = FALSE] \in Connection
<1>1. NewConnection \in Connection
  BY BoundAssumption DEF NewConnection, NoResult, Connection, AsyncState, Value
<1>2. ASSUME NEW k \in Connection
      PROVE [NewConnection EXCEPT !.request = k.request] \in Connection
  BY <1>1 DEF Connection
<1>3. ASSUME NEW k \in Connection PROVE [k EXCEPT !.alive = FALSE] \in Connection
  BY DEF Connection
<1> QED BY <1>1, <1>2, <1>3

LEMMA OperationTypes ==
    /\ \A p \in Operation : \A b \in BOOLEAN : [p EXCEPT !.digest = b] \in Operation
    /\ \A p \in Operation :
          [p EXCEPT !.applied = TRUE, !.digest = FALSE, !.output = "none"] \in Operation
    /\ \A p \in Operation : \A v \in Value : \A k, d \in BOOLEAN :
          [p EXCEPT !.output = v, !.complete = k, !.digest = d] \in Operation
    /\ \A p \in Operation : \A v \in Value :
          [p EXCEPT !.output = v, !.complete = TRUE] \in Operation
<1>1. ASSUME NEW p \in Operation, NEW b \in BOOLEAN PROVE [p EXCEPT !.digest = b] \in Operation
  BY DEF Operation
<1>2. ASSUME NEW p \in Operation
      PROVE [p EXCEPT !.applied = TRUE, !.digest = FALSE, !.output = "none"] \in Operation
  BY DEF Operation, Value
<1>3. ASSUME NEW p \in Operation, NEW v \in Value, NEW k \in BOOLEAN, NEW d \in BOOLEAN
      PROVE [p EXCEPT !.output = v, !.complete = k, !.digest = d] \in Operation
  BY DEF Operation
<1>4. ASSUME NEW p \in Operation, NEW v \in Value
      PROVE [p EXCEPT !.output = v, !.complete = TRUE] \in Operation
  BY DEF Operation
<1> QED BY <1>1, <1>2, <1>3, <1>4

LEMMA TypeInit == Init => TypeInv
<1> SUFFICES ASSUME Init PROVE TypeInv
  OBVIOUS
<1>1. conn \in [Connections -> Connection]
  BY ConnectionTypes DEF Init
<1>2. op \in [Operations -> Operation \cup {NoOperation}]
  BY DEF Init
<1>3. CompletedOnce
  BY DEF Init, CompletedOnce, Asking, NewConnection
<1> QED BY <1>1, <1>2, <1>3 DEF TypeInv, TypeOK, Init

LEMMA TypeStep == TypeInv /\ [Next]_vars => TypeInv'
<1> SUFFICES ASSUME TypeInv, [Next]_vars PROVE TypeInv'
  OBVIOUS
<1> USE DEF TypeInv
<1>1. ASSUME NEW c \in Connections, NEW o \in Operations, Invoke(c, o) PROVE TypeInv'
  <2> USE <1>1
  <2>1. conn[c] \in Connection /\ conn[c].request + 1 \in 1..MaxRequests
    BY BoundAssumption DEF TypeOK, Invoke, Connection
  <2>2. conn' \in [Connections -> Connection]
    <3> DEFINE b == ~Outstanding(c)
    <3>1. conn' = [conn EXCEPT ![c] = [conn[c] EXCEPT !.async = "INVOKING_CALLBACK",
                                   !.request = @ + 1, !.completions = 0, !.alone = b]]
      BY DEF TypeOK, Invoke
    <3>2. b \in BOOLEAN
      OBVIOUS
    <3> HIDE DEF b
    <3>3. [conn[c] EXCEPT !.async = "INVOKING_CALLBACK", !.request = @ + 1, !.completions = 0,
                          !.alone = b] \in Connection
      <4>1. conn[c].request + 1 \in 0..MaxRequests /\ 0 \in 0..MaxRequests
        BY <2>1, BoundAssumption
      <4>2. "INVOKING_CALLBACK" \in AsyncState
        BY DEF AsyncState
      <4> QED BY ONLY <2>1, <3>2, <4>1, <4>2 DEF Connection
    <3> QED BY <3>1, <3>3 DEF TypeOK
  <2>3. op' \in [Operations -> Operation \cup {NoOperation}]
    BY <2>1, TypesAssumption DEF TypeOK, Invoke, Operation, Value
  <2>4. CompletedOnce'
    BY <2>1, BoundAssumption DEF TypeOK, Invoke, CompletedOnce, Connection, Asking
  <2> QED BY <2>2, <2>3, <2>4 DEF TypeOK, Invoke
<1>2. ASSUME NEW c \in Connections, NEW o \in Operations, s2n_async_pkey_op_apply(o, c)
      PROVE TypeInv'
  <2> USE <1>2
  <2>1. /\ conn[c] \in Connection /\ op[o] \in Operation
        /\ conn[c].completions = 0 /\ conn[c].request > 0
    BY DEF s2n_async_pkey_op_apply, CanApply, Allocated, TypeOK, CompletedOnce, Asking
  <2>2. op' \in [Operations -> Operation \cup {NoOperation}]
    <3>1. CASE Applies(op[o])
      <4> DEFINE p == [op[o] EXCEPT !.applied = TRUE, !.digest = FALSE, !.output = "none"]
      <4>1. op' = [op EXCEPT ![o] = p]
        BY <3>1 DEF s2n_async_pkey_op_apply
      <4>2. p \in Operation
        BY <2>1, OperationTypes
      <4> QED BY <4>1, <4>2 DEF TypeOK
    <3>2. CASE ~Applies(op[o])
      <4>1. (op[o].digest /\ op[o].type = "DECRYPT") \in BOOLEAN
        OBVIOUS
      <4> QED BY <2>1, <3>2, <4>1, OperationTypes DEF TypeOK, s2n_async_pkey_op_apply
    <3> QED BY <3>1, <3>2
  <2>3. conn' \in [Connections -> Connection]
    <3>1. CASE Applies(op[o])
      <4> DEFINE r == [of |-> op[o].of, value |-> op[o].output,
                       strict |-> op[o].type = "SIGN" /\ op[o].mode = "STRICT"]
      <4>1. r \in [of : 0..MaxRequests, value : Value, strict : BOOLEAN]
        BY <2>1, BoundAssumption DEF Operation
      <4>2. conn' = [conn EXCEPT ![c] = [conn[c] EXCEPT !.result = r, !.completions = @ + 1,
                                                        !.async = "INVOKED_COMPLETE"]]
        BY <3>1 DEF s2n_async_pkey_op_apply, TypeOK
      <4> HIDE DEF r
      <4>3. conn[c].completions + 1 \in 0..MaxRequests /\ "INVOKED_COMPLETE" \in AsyncState
        BY <2>1, BoundAssumption DEF Connection, AsyncState
      <4>4. [conn[c] EXCEPT !.result = r, !.completions = @ + 1,
                            !.async = "INVOKED_COMPLETE"] \in Connection
        BY <4>1, <2>1, <4>3 DEF Connection
      <4> QED BY <4>2, <4>4 DEF TypeOK
    <3>2. CASE ~Applies(op[o])
      BY <3>2 DEF s2n_async_pkey_op_apply, TypeOK
    <3> QED BY <3>1, <3>2
  <2>4. CompletedOnce'
    <3>1. CASE Applies(op[o])
      <4>1. /\ conn'[c].async = "INVOKED_COMPLETE"
            /\ \A d \in Connections : d # c => conn'[d] = conn[d]
        BY <3>1, <2>1 DEF s2n_async_pkey_op_apply, TypeOK, Connection
      <4> QED BY <4>1 DEF CompletedOnce, Asking
    <3>2. CASE ~Applies(op[o])
      BY <3>2 DEF s2n_async_pkey_op_apply, CompletedOnce
    <3> QED BY <3>1, <3>2
  <2> QED BY <2>2, <2>3, <2>4 DEF TypeOK, s2n_async_pkey_op_apply
<1>3. ASSUME NEW c \in Connections, CallbackReturns(c) \/ s2n_handle_retry_state(c)
      PROVE TypeInv'
  <2> USE <1>3 DEF CallbackReturns, s2n_handle_retry_state
  <2>1. conn' \in [Connections -> Connection]
    <3>1. /\ [conn[c] EXCEPT !.async = "INVOKED_WAITING", !.paused = TRUE] \in Connection
          /\ [conn[c] EXCEPT !.failed = TRUE] \in Connection
          /\ [conn[c] EXCEPT !.async = "NOT_INVOKED", !.paused = FALSE] \in Connection
      BY DEF TypeOK, Connection, AsyncState
    <3> QED BY <3>1 DEF TypeOK
  <2>2. CompletedOnce'
    BY DEF TypeOK, CompletedOnce, Connection, Asking
  <2> QED BY <2>1, <2>2 DEF TypeOK
<1>4. ASSUME NEW c \in Connections,
             s2n_connection_wipe(c) \/ s2n_connection_free(c) \/ s2n_connection_new(c)
      PROVE TypeInv'
  <2> USE <1>4 DEF s2n_connection_wipe, s2n_connection_free, s2n_connection_new, Cleared
  <2>1. conn' \in [Connections -> Connection]
    BY ConnectionTypes DEF TypeOK
  <2>2. conn'[c].async = "NOT_INVOKED"
    BY DEF TypeOK, NewConnection
  <2>3. CompletedOnce'
    BY <2>2 DEF TypeOK, CompletedOnce, Asking
  <2> QED BY <2>1, <2>3 DEF TypeOK
<1>5. ASSUME NEW o \in Operations,
             \/ s2n_async_pkey_op_perform(o) \/ s2n_async_pkey_op_set_output(o)
             \/ s2n_async_pkey_op_set_validation_mode(o) \/ s2n_async_pkey_op_free(o)
      PROVE TypeInv'
  <2>1. op' \in [Operations -> Operation \cup {NoOperation}] /\ orphan' \in BOOLEAN
    <3>1. CASE s2n_async_pkey_op_perform(o)
      <4>1. op[o] \in Operation
        BY <3>1 DEF s2n_async_pkey_op_perform, Allocated, TypeOK
      <4>2. PICK v \in {"good", "bad"} :
               s2n_async_pkey_decrypt_perform(o, v) \/ s2n_async_pkey_sign_perform(o, v)
        BY <3>1 DEF s2n_async_pkey_op_perform
      <4>3. CASE s2n_async_pkey_decrypt_perform(o, v)
        BY <4>1, <4>3, OperationTypes DEF s2n_async_pkey_decrypt_perform, TypeOK, Value
      <4>4. CASE s2n_async_pkey_sign_perform(o, v)
        <5>1. PICK ok \in BOOLEAN :
                 op' = [op EXCEPT ![o].output = IF ok THEN v ELSE @, ![o].complete = ok,
                                  ![o].digest = op[o].mode = "STRICT"]
          BY <4>4 DEF s2n_async_pkey_sign_perform
        <5>2. (op[o].mode = "STRICT") \in BOOLEAN
          OBVIOUS
        <5>3. (IF ok THEN v ELSE op[o].output) \in Value
          BY <4>1 DEF Operation, Value
        <5> QED BY <4>1, <4>4, <5>1, <5>2, <5>3, OperationTypes
          DEF s2n_async_pkey_sign_perform, TypeOK
      <4> QED BY <4>2, <4>3, <4>4
    <3>2. CASE s2n_async_pkey_op_set_output(o)
      <4>1. PICK v \in Value : op' = [op EXCEPT ![o] = [op[o] EXCEPT !.output = v,
                                                                     !.complete = TRUE]]
        BY <3>2 DEF s2n_async_pkey_op_set_output, Value
      <4>2. op[o] \in Operation
        BY <3>2 DEF s2n_async_pkey_op_set_output, Allocated, TypeOK
      <4>3. [op[o] EXCEPT !.output = v, !.complete = TRUE] \in Operation
        BY <4>2, OperationTypes
      <4> QED BY <3>2, <4>1, <4>3 DEF s2n_async_pkey_op_set_output, TypeOK
    <3>3. CASE s2n_async_pkey_op_set_validation_mode(o)
      BY <3>3 DEF s2n_async_pkey_op_set_validation_mode, Allocated, TypeOK, Operation
    <3>4. CASE s2n_async_pkey_op_free(o)
      BY <3>4 DEF s2n_async_pkey_op_free, TypeOK
    <3> QED BY <1>5, <3>1, <3>2, <3>3, <3>4
  <2>2. UNCHANGED conn
    BY <1>5 DEF s2n_async_pkey_op_perform, s2n_async_pkey_op_set_output,
       s2n_async_pkey_op_set_validation_mode, s2n_async_pkey_op_free
  <2> QED BY <2>1, <2>2 DEF TypeOK, CompletedOnce
<1>6. ASSUME UNCHANGED vars PROVE TypeInv'
  BY <1>6 DEF vars, TypeOK, CompletedOnce, Allocated
<1> QED BY <1>1, <1>2, <1>3, <1>4, <1>5, <1>6 DEF Next

(***************************************************************************)
(* Connections and operations keep their types, whatever the application   *)
(* does: in particular on_complete runs at most once for a request.        *)
(***************************************************************************)
THEOREM TypeCorrect == Spec => []TypeOK
<1>1. TypeInv => TypeOK
  BY DEF TypeInv
<1> QED BY <1>1, TypeInit, TypeStep, PTL DEF Spec

----------------------------------------------------------------------------
(***************************************************************************)
(* The inductive invariant.  An operation that is not applied was made for *)
(* a request of its connection that no other such operation was made for;  *)
(* when the connection asked with no older one around, for its present     *)
(* request.                                                                *)
(***************************************************************************)
Pending(o) == Allocated(o) /\ ~op[o].applied

OwnPending ==
    /\ \A o \in Operations : Pending(o) =>
          /\ op[o].of <= conn[op[o].conn].request
          /\ (conn[op[o].conn].async \in Asking /\ conn[op[o].conn].alone) =>
                op[o].of = conn[op[o].conn].request
    /\ \A o, p \in Operations :
          (Pending(o) /\ Pending(p) /\ op[o].conn = op[p].conn /\ op[o].of = op[p].of) => o = p

(***************************************************************************)
(* What is settled about a connection that does not ask.                   *)
(***************************************************************************)
Settled ==
    \A c \in Connections :
       /\ conn[c].async = "INVOKED_COMPLETE" =>
             /\ conn[c].completions = 1
             /\ conn[c].alone => conn[c].result.of = conn[c].request
       /\ conn[c].failed => conn[c].async = "INVOKING_CALLBACK"

IInv == TypeInv /\ OwnPending /\ Settled

LEMMA IInvInit == Init => IInv
<1> SUFFICES ASSUME Init PROVE IInv
  OBVIOUS
<1>1. \A o \in Operations : ~Pending(o)
  BY DEF Init, Pending, Allocated
<1>2. Settled
  BY DEF Init, Settled, NewConnection
<1> QED BY <1>1, <1>2, TypeInit DEF IInv, OwnPending

(***************************************************************************)
(* What each kind of step does to a connection and to an operation.        *)
(***************************************************************************)
Elsewhere(c) == \A d \in Connections : d # c => conn'[d] = conn[d]
OtherOperations(o) == \A p \in Operations : p # o => op'[p] = op[p]

LEMMA InvokeEffect ==
    ASSUME TypeInv, NEW c \in Connections, NEW o \in Operations, Invoke(c, o)
    PROVE  /\ Elsewhere(c) /\ OtherOperations(o)
           /\ conn'[c].async = "INVOKING_CALLBACK" /\ conn'[c].request = conn[c].request + 1
           /\ conn'[c].failed = conn[c].failed /\ conn'[c].alive = conn[c].alive
           /\ conn'[c].result = conn[c].result
           /\ conn'[c].alone = ~Outstanding(c)
           /\ op'[o].conn = c /\ op'[o].of = conn'[c].request
           /\ op'[o] # NoOperation /\ ~op'[o].applied
<1>1. conn[c] \in Connection /\ conn \in [Connections -> Connection]
  BY DEF TypeInv, TypeOK
<1>2. op \in [Operations -> Operation \cup {NoOperation}]
  BY DEF TypeInv, TypeOK
<1>3. PICK t \in Types, m \in {"FAST", "STRICT"} :
         op' = [op EXCEPT ![o] =
              [type |-> t, conn |-> c, of |-> conn[c].request + 1, mode |-> m,
               complete |-> FALSE, applied |-> FALSE, digest |-> TRUE, output |-> "none"]]
  BY DEF Invoke
<1> DEFINE b == ~Outstanding(c)
<1>4. conn' = [conn EXCEPT ![c] = [conn[c] EXCEPT !.async = "INVOKING_CALLBACK",
                                   !.request = @ + 1, !.completions = 0, !.alone = b]]
  BY <1>1 DEF Invoke
<1> HIDE DEF b
<1>5. Elsewhere(c) /\ OtherOperations(o)
  BY <1>1, <1>2, <1>3, <1>4 DEF Elsewhere, OtherOperations
<1>6. conn'[c] = [conn[c] EXCEPT !.async = "INVOKING_CALLBACK",
                                 !.request = @ + 1, !.completions = 0, !.alone = b]
  BY <1>1, <1>4
<1>7. op'[o].conn = c /\ op'[o].of = conn[c].request + 1 /\ ~op'[o].applied
  BY <1>2, <1>3
<1>8. op'[o] # NoOperation
  <2>1. op'[o].type \in Types
    BY <1>2, <1>3
  <2> QED BY <2>1, TypesAssumption DEF NoOperation
<1>9. /\ conn'[c].async = "INVOKING_CALLBACK" /\ conn'[c].request = conn[c].request + 1
      /\ conn'[c].failed = conn[c].failed /\ conn'[c].alive = conn[c].alive
      /\ conn'[c].result = conn[c].result /\ conn'[c].alone = b
  BY <1>1, <1>6 DEF Connection
<1> QED BY <1>5, <1>7, <1>8, <1>9 DEF b

LEMMA ApplyEffect ==
    ASSUME TypeInv, NEW c \in Connections, NEW o \in Operations,
           s2n_async_pkey_op_apply(o, c)
    PROVE  /\ op[o] \in Operation /\ ~op[o].applied /\ op[o].conn = c
           /\ OtherOperations(o) /\ Elsewhere(c)
           /\ conn[c].async = "INVOKED_WAITING" /\ conn[c].alive
           /\ op'[o] \in Operation /\ op'[o].conn = c /\ op'[o].of = op[o].of
           /\ \/ /\ op'[o].applied
                 /\ conn'[c].async = "INVOKED_COMPLETE"
                 /\ conn'[c].completions = conn[c].completions + 1
                 /\ conn'[c].result.of = op[o].of
                 /\ conn'[c].request = conn[c].request /\ conn'[c].alone = conn[c].alone
                 /\ conn'[c].failed = conn[c].failed /\ conn'[c].alive = conn[c].alive
              \/ conn' = conn /\ ~op'[o].applied
<1>1. conn[c] \in Connection /\ conn \in [Connections -> Connection]
  BY DEF TypeInv, TypeOK
<1>2. op \in [Operations -> Operation \cup {NoOperation}]
  BY DEF TypeInv, TypeOK
<1>3. /\ op[o] \in Operation /\ ~op[o].applied /\ op[o].conn = c
      /\ conn[c].async = "INVOKED_WAITING" /\ conn[c].alive
  BY <1>2 DEF s2n_async_pkey_op_apply, CanApply, Allocated
<1>4. CASE Applies(op[o])
  <2>1. op' = [op EXCEPT ![o] =
                  [op[o] EXCEPT !.applied = TRUE, !.digest = FALSE, !.output = "none"]]
    BY <1>4 DEF s2n_async_pkey_op_apply
  <2>2. conn' = [conn EXCEPT ![c] = [conn[c] EXCEPT
            !.result = [of |-> op[o].of, value |-> op[o].output,
                        strict |-> op[o].type = "SIGN" /\ op[o].mode = "STRICT"],
            !.completions = @ + 1, !.async = "INVOKED_COMPLETE"]]
    BY <1>4 DEF s2n_async_pkey_op_apply
  <2>3. OtherOperations(o) /\ Elsewhere(c)
    BY <1>1, <1>2, <2>1, <2>2 DEF OtherOperations, Elsewhere
  <2>4. /\ op'[o].applied /\ op'[o].conn = c /\ op'[o].of = op[o].of
        /\ op'[o] \in Operation
    <3>1. op'[o] = [op[o] EXCEPT !.applied = TRUE, !.digest = FALSE, !.output = "none"]
      BY <1>2, <2>1
    <3>2. op'[o] \in Operation
      BY <3>1, <1>3, OperationTypes
    <3> QED BY <3>1, <3>2, <1>3 DEF Operation
  <2>5. /\ conn'[c].async = "INVOKED_COMPLETE"
        /\ conn'[c].completions = conn[c].completions + 1
        /\ conn'[c].result.of = op[o].of
        /\ conn'[c].request = conn[c].request /\ conn'[c].alone = conn[c].alone
        /\ conn'[c].failed = conn[c].failed /\ conn'[c].alive = conn[c].alive
    BY <1>1, <2>2 DEF Connection
  <2> QED BY <1>3, <2>3, <2>4, <2>5
<1>5. CASE ~Applies(op[o])
  <2>1. op' = [op EXCEPT ![o] = [op[o] EXCEPT !.digest = @ /\ op[o].type = "DECRYPT"]]
    BY <1>5 DEF s2n_async_pkey_op_apply
  <2>2. conn' = conn
    BY <1>5 DEF s2n_async_pkey_op_apply
  <2>3. OtherOperations(o) /\ Elsewhere(c)
    BY <1>2, <2>1, <2>2 DEF OtherOperations, Elsewhere
  <2>4. (op[o].digest /\ op[o].type = "DECRYPT") \in BOOLEAN
    OBVIOUS
  <2>5. /\ op'[o].conn = c /\ op'[o].of = op[o].of /\ op'[o].applied = op[o].applied
        /\ op'[o] \in Operation
    <3> DEFINE d == op[o].digest /\ op[o].type = "DECRYPT"
    <3>1. op'[o] = [op[o] EXCEPT !.digest = d]
      BY <1>2, <2>1
    <3>2. d \in BOOLEAN
      BY <2>4
    <3> HIDE DEF d
    <3>3. op'[o] \in Operation
      BY <3>1, <3>2, <1>3, OperationTypes
    <3> QED BY <3>1, <3>3, <1>3 DEF Operation
  <2> QED BY <1>3, <2>2, <2>3, <2>5
<1> QED BY <1>4, <1>5

(***************************************************************************)
(* An operation keeps its connection and its request while the application *)
(* works on it.                                                            *)
(***************************************************************************)
LEMMA WorkEffect ==
    ASSUME TypeInv, NEW o \in Operations,
           \/ s2n_async_pkey_op_perform(o) \/ s2n_async_pkey_op_set_output(o)
           \/ s2n_async_pkey_op_set_validation_mode(o)
    PROVE  /\ conn' = conn /\ OtherOperations(o)
           /\ op[o] \in Operation
           /\ op'[o].conn = op[o].conn /\ op'[o].of = op[o].of
           /\ op'[o].applied = op[o].applied /\ op'[o].type = op[o].type
<1>1. op \in [Operations -> Operation \cup {NoOperation}]
  BY DEF TypeInv, TypeOK
<1>2. op[o] \in Operation
  BY <1>1 DEF s2n_async_pkey_op_perform, s2n_async_pkey_op_set_output,
     s2n_async_pkey_op_set_validation_mode, Allocated
<1> DEFINE Same(q) == /\ q.conn = op[o].conn /\ q.of = op[o].of
                      /\ q.applied = op[o].applied /\ q.type = op[o].type
<1>3. \E q : op' = [op EXCEPT ![o] = q] /\ Same(q)
  <2>1. CASE s2n_async_pkey_op_set_output(o)
    <3>1. PICK v \in Value :
             op' = [op EXCEPT ![o] = [op[o] EXCEPT !.output = v, !.complete = TRUE]]
      BY <2>1 DEF s2n_async_pkey_op_set_output, Value
    <3>2. Same([op[o] EXCEPT !.output = v, !.complete = TRUE])
      BY <1>2 DEF Operation
    <3> QED BY <3>1, <3>2
  <2>2. CASE s2n_async_pkey_op_set_validation_mode(o)
    <3>1. PICK m \in {"FAST", "STRICT"} : op' = [op EXCEPT ![o] = [op[o] EXCEPT !.mode = m]]
      BY <2>2 DEF s2n_async_pkey_op_set_validation_mode
    <3>2. Same([op[o] EXCEPT !.mode = m])
      BY <1>2 DEF Operation
    <3> QED BY <3>1, <3>2
  <2>3. CASE s2n_async_pkey_op_perform(o)
    <3>1. PICK v \in {"good", "bad"} :
             s2n_async_pkey_decrypt_perform(o, v) \/ s2n_async_pkey_sign_perform(o, v)
      BY <2>3 DEF s2n_async_pkey_op_perform
    <3>2. CASE s2n_async_pkey_decrypt_perform(o, v)
      <4>1. op' = [op EXCEPT ![o] = [op[o] EXCEPT !.output = v, !.complete = TRUE]]
        BY <3>2 DEF s2n_async_pkey_decrypt_perform
      <4>2. Same([op[o] EXCEPT !.output = v, !.complete = TRUE])
        BY <1>2 DEF Operation
      <4> QED BY <4>1, <4>2
    <3>3. CASE s2n_async_pkey_sign_perform(o, v)
      <4>1. PICK ok \in BOOLEAN :
               op' = [op EXCEPT ![o] = [op[o] EXCEPT !.output = IF ok THEN v ELSE @,
                                          !.complete = ok, !.digest = op[o].mode = "STRICT"]]
        BY <3>3 DEF s2n_async_pkey_sign_perform
      <4> DEFINE w == IF ok THEN v ELSE op[o].output
                 d == op[o].mode = "STRICT"
      <4>2. op' = [op EXCEPT ![o] = [op[o] EXCEPT !.output = w, !.complete = ok, !.digest = d]]
        BY <4>1
      <4> HIDE DEF w, d
      <4>3. Same([op[o] EXCEPT !.output = w, !.complete = ok, !.digest = d])
        BY <1>2 DEF Operation
      <4> QED BY <4>2, <4>3
    <3> QED BY <3>1, <3>2, <3>3
  <2> QED BY <2>1, <2>2, <2>3
<1>4. conn' = conn
  BY DEF s2n_async_pkey_op_perform, s2n_async_pkey_op_set_output,
     s2n_async_pkey_op_set_validation_mode
<1> QED BY <1>1, <1>2, <1>3, <1>4 DEF OtherOperations

LEMMA LifeEffect ==
    ASSUME TypeInv, NEW c \in Connections,
           s2n_connection_wipe(c) \/ s2n_connection_free(c) \/ s2n_connection_new(c)
    PROVE  /\ op' = op /\ Elsewhere(c)
           /\ conn'[c].async = "NOT_INVOKED" /\ ~conn'[c].failed
           /\ conn'[c].request = conn[c].request /\ conn'[c].result = NoResult
<1>1. conn \in [Connections -> Connection]
  BY DEF TypeInv, TypeOK
<1>2. conn' = [conn EXCEPT ![c] = Cleared(c)]
      \/ conn' = [conn EXCEPT ![c] = [Cleared(c) EXCEPT !.alive = FALSE]]
  BY DEF s2n_connection_wipe, s2n_connection_free, s2n_connection_new
<1>3. op' = op
  BY DEF s2n_connection_wipe, s2n_connection_free, s2n_connection_new
<1>4. Elsewhere(c)
  BY <1>1, <1>2 DEF Elsewhere
<1>5. conn'[c] = Cleared(c) \/ conn'[c] = [Cleared(c) EXCEPT !.alive = FALSE]
  BY <1>1, <1>2
<1>6. /\ Cleared(c).async = "NOT_INVOKED" /\ Cleared(c).failed = FALSE
      /\ Cleared(c).request = conn[c].request /\ Cleared(c).result = NoResult
      /\ [Cleared(c) EXCEPT !.alive = FALSE].async = "NOT_INVOKED"
      /\ [Cleared(c) EXCEPT !.alive = FALSE].failed = FALSE
      /\ [Cleared(c) EXCEPT !.alive = FALSE].request = conn[c].request
      /\ [Cleared(c) EXCEPT !.alive = FALSE].result = NoResult
  BY DEF Cleared, NewConnection
<1> QED BY <1>3, <1>4, <1>5, <1>6

LEMMA HandshakeEffect ==
    ASSUME TypeInv, NEW c \in Connections, CallbackReturns(c) \/ s2n_handle_retry_state(c)
    PROVE  /\ op' = op /\ Elsewhere(c)
           /\ conn'[c].request = conn[c].request /\ conn'[c].result = conn[c].result
           /\ conn'[c].alive = conn[c].alive /\ conn'[c].alone = conn[c].alone
           /\ \/ /\ conn[c].async = "INVOKING_CALLBACK" /\ ~conn[c].failed
                 /\ \/ conn'[c].async = "INVOKED_WAITING" /\ ~conn'[c].failed
                    \/ conn'[c].async = "INVOKING_CALLBACK" /\ conn'[c].failed
              \/ /\ conn[c].async = "INVOKED_COMPLETE" /\ conn[c].alive
                 /\ conn'[c].async = "NOT_INVOKED" /\ conn'[c].failed = conn[c].failed
<1>1. conn \in [Connections -> Connection] /\ conn[c] \in Connection
  BY DEF TypeInv, TypeOK
<1>2. \/ /\ conn[c].async = "INVOKING_CALLBACK" /\ ~conn[c].failed
         /\ conn' = [conn EXCEPT ![c] =
                        [conn[c] EXCEPT !.async = "INVOKED_WAITING", !.paused = TRUE]]
      \/ /\ conn[c].async = "INVOKING_CALLBACK" /\ ~conn[c].failed
         /\ conn' = [conn EXCEPT ![c] = [conn[c] EXCEPT !.failed = TRUE]]
      \/ /\ conn[c].async = "INVOKED_COMPLETE" /\ conn[c].alive
         /\ conn' = [conn EXCEPT ![c] =
                        [conn[c] EXCEPT !.async = "NOT_INVOKED", !.paused = FALSE]]
  BY DEF CallbackReturns, s2n_handle_retry_state
<1>3. op' = op
  BY DEF CallbackReturns, s2n_handle_retry_state
<1>4. Elsewhere(c)
  BY <1>1, <1>2 DEF Elsewhere
<1>5. \/ /\ conn[c].async = "INVOKING_CALLBACK" /\ ~conn[c].failed
         /\ conn'[c] = [conn[c] EXCEPT !.async = "INVOKED_WAITING", !.paused = TRUE]
      \/ /\ conn[c].async = "INVOKING_CALLBACK" /\ ~conn[c].failed
         /\ conn'[c] = [conn[c] EXCEPT !.failed = TRUE]
      \/ /\ conn[c].async = "INVOKED_COMPLETE" /\ conn[c].alive
         /\ conn'[c] = [conn[c] EXCEPT !.async = "NOT_INVOKED", !.paused = FALSE]
  BY <1>1, <1>2
<1> QED BY <1>1, <1>3, <1>4, <1>5 DEF Connection

(***************************************************************************)
(* Steps that leave the connections and, of the operations that are not    *)
(* applied, what they were made for.                                       *)
(***************************************************************************)
SamePending(p) == op'[p].conn = op[p].conn /\ op'[p].of = op[p].of

LEMMA IInvStep == IInv /\ [Next]_vars => IInv'
<1> SUFFICES ASSUME IInv, [Next]_vars PROVE OwnPending' /\ Settled'
  BY TypeStep DEF IInv
<1> USE DEF IInv
<1>0. /\ conn \in [Connections -> Connection]
      /\ op \in [Operations -> Operation \cup {NoOperation}]
      /\ \A o \in Operations : Allocated(o) => op[o].conn \in Connections /\ op[o].of \in Nat
      /\ \A c \in Connections : conn[c].request \in Nat /\ conn[c].alone \in BOOLEAN
  BY BoundAssumption DEF TypeInv, TypeOK, Allocated, Operation, Connection
<1>1. ASSUME NEW c \in Connections, NEW o \in Operations, Invoke(c, o)
      PROVE OwnPending' /\ Settled'
  <2>1. conn[c].async = "NOT_INVOKED" /\ conn[c].alive /\ ~conn[c].failed /\ ~Pending(o)
    BY <1>1 DEF Invoke, Pending
  <2>2. \A p \in Operations : p # o => (Pending(p)' <=> Pending(p)) /\ SamePending(p)
    BY <1>1, InvokeEffect DEF Pending, Allocated, OtherOperations, SamePending
  <2>3. /\ conn'[c].request = conn[c].request + 1 /\ conn'[c].alone = ~Outstanding(c)
        /\ op'[o].conn = c /\ op'[o].of = conn[c].request + 1
        /\ \A d \in Connections : d # c => conn'[d] = conn[d]
    BY <1>1, InvokeEffect DEF Elsewhere
  <2>4. ASSUME NEW p \in Operations, Pending(p)', p # o
        PROVE  /\ Pending(p) /\ op[p].conn \in Connections /\ op[p].of \in Nat /\ SamePending(p)
               /\ op[p].of <= conn[op[p].conn].request
               /\ op[p].conn = c => Outstanding(c)
    BY <1>0, <2>2, <2>4 DEF OwnPending, Pending, Outstanding
  <2>5. ASSUME NEW p \in Operations, Pending(p)'
        PROVE  /\ op'[p].of <= conn'[op'[p].conn].request
               /\ (conn'[op'[p].conn].async \in Asking /\ conn'[op'[p].conn].alone) =>
                     op'[p].of = conn'[op'[p].conn].request
    <3>1. CASE p = o
      BY <1>0, <2>3, <3>1
    <3>2. CASE p # o /\ op[p].conn = c
      <4>1. op'[p].conn = c /\ op'[p].of = op[p].of /\ op[p].of <= conn[c].request
            /\ op[p].of \in Nat /\ ~conn'[c].alone
        BY <2>3, <2>4, <2>5, <3>2 DEF SamePending
      <4> QED BY <1>0, <2>3, <4>1
    <3>3. CASE p # o /\ op[p].conn # c
      <4>1. op'[p].conn = op[p].conn /\ op'[p].of = op[p].of /\ Pending(p)
            /\ conn'[op[p].conn] = conn[op[p].conn]
        BY <2>3, <2>4, <2>5, <3>3 DEF SamePending
      <4> QED BY <4>1 DEF OwnPending
    <3> QED BY <3>1, <3>2, <3>3
  <2>6. ASSUME NEW p \in Operations, NEW q \in Operations, Pending(p)', Pending(q)',
               op'[p].conn = op'[q].conn, op'[p].of = op'[q].of
        PROVE  p = q
    <3>1. ASSUME NEW r \in Operations, Pending(r)', r # o, op'[r].conn = c PROVE op'[r].of # conn[c].request + 1
      <4>1. op[r].conn = c /\ op'[r].of = op[r].of /\ op[r].of <= conn[c].request /\ op[r].of \in Nat
        BY <2>4, <3>1 DEF SamePending
      <4> QED BY <1>0, <4>1
    <3>2. CASE p # o /\ q # o
      BY <2>4, <2>6, <3>2 DEF OwnPending, SamePending
    <3>3. CASE p = o /\ q # o
      BY <2>3, <2>6, <3>1, <3>3
    <3>4. CASE p # o /\ q = o
      BY <2>3, <2>6, <3>1, <3>4
    <3> QED BY <3>2, <3>3, <3>4
  <2>7. OwnPending'
    BY <2>5, <2>6 DEF OwnPending
  <2>8. Settled'
    BY <1>1, <2>1, InvokeEffect DEF Settled, Elsewhere
  <2> QED BY <2>7, <2>8
<1>2. ASSUME NEW c \in Connections, NEW o \in Operations, s2n_async_pkey_op_apply(o, c)
      PROVE OwnPending' /\ Settled'
  <2>1. Pending(o) /\ op[o].conn = c /\ conn[c].async = "INVOKED_WAITING" /\ conn[c].completions = 0
    BY <1>2, ApplyEffect
    DEF Pending, TypeInv, CompletedOnce, Asking, s2n_async_pkey_op_apply, CanApply
  <2>2. conn[c].alone => op[o].of = conn[c].request
    BY <2>1 DEF OwnPending, Asking
  <2>3. \A p \in Operations : Pending(p)' => Pending(p) /\ SamePending(p)
    BY <1>2, <2>1, ApplyEffect DEF Pending, Allocated, OtherOperations, SamePending
  <2>4. \A d \in Connections : conn'[d].request = conn[d].request
           /\ (conn'[d].async \in Asking => conn'[d] = conn[d])
    BY <1>2, ApplyEffect DEF Elsewhere, Asking
  <2>5. OwnPending'
    <3>1. \A p \in Operations : Pending(p) => op[p].conn \in Connections
      BY <1>0 DEF Pending
    <3> QED BY <2>3, <2>4, <3>1 DEF OwnPending, SamePending
  <2>6. Settled'
    BY <1>2, <2>1, <2>2, ApplyEffect DEF Settled, Elsewhere
  <2> QED BY <2>5, <2>6
<1>3. ASSUME NEW c \in Connections, CallbackReturns(c) \/ s2n_handle_retry_state(c)
      PROVE OwnPending' /\ Settled'
  <2>1. \A p \in Operations : Pending(p)' <=> Pending(p)
    BY <1>3, HandshakeEffect DEF Pending, Allocated
  <2>2. OwnPending'
    BY <1>0, <1>3, <2>1, HandshakeEffect DEF OwnPending, Elsewhere, Asking, Pending
  <2>3. Settled'
    BY <1>3, HandshakeEffect DEF Settled, Elsewhere
  <2> QED BY <2>2, <2>3
<1>4. ASSUME NEW c \in Connections,
             s2n_connection_wipe(c) \/ s2n_connection_free(c) \/ s2n_connection_new(c)
      PROVE OwnPending' /\ Settled'
  <2>1. \A p \in Operations : Pending(p)' <=> Pending(p)
    BY <1>4, LifeEffect DEF Pending, Allocated
  <2>2. OwnPending'
    BY <1>0, <1>4, <2>1, LifeEffect DEF OwnPending, Elsewhere, Pending, Asking
  <2>3. Settled'
    BY <1>4, LifeEffect DEF Settled, Elsewhere
  <2> QED BY <2>2, <2>3
<1>5. ASSUME NEW o \in Operations,
             \/ s2n_async_pkey_op_perform(o) \/ s2n_async_pkey_op_set_output(o)
             \/ s2n_async_pkey_op_set_validation_mode(o)
      PROVE OwnPending' /\ Settled'
  <2>1. Allocated(o)
    BY <1>5 DEF s2n_async_pkey_op_perform, s2n_async_pkey_op_set_output,
       s2n_async_pkey_op_set_validation_mode
  <2>2. \A p \in Operations : Pending(p)' => Pending(p) /\ SamePending(p)
    BY <1>5, <2>1, WorkEffect DEF Pending, Allocated, OtherOperations, SamePending
  <2>3. conn' = conn
    BY <1>5, WorkEffect
  <2> QED BY <2>2, <2>3 DEF OwnPending, Settled, SamePending
<1>6. ASSUME NEW o \in Operations, s2n_async_pkey_op_free(o)
      PROVE OwnPending' /\ Settled'
  <2>1. \A p \in Operations : Pending(p)' => p # o /\ Pending(p) /\ op'[p] = op[p]
    BY <1>0, <1>6 DEF s2n_async_pkey_op_free, Pending, Allocated
  <2>2. conn' = conn
    BY <1>6 DEF s2n_async_pkey_op_free
  <2> QED BY <2>1, <2>2 DEF OwnPending, Settled
<1>7. ASSUME UNCHANGED vars PROVE OwnPending' /\ Settled'
  BY <1>7 DEF vars, OwnPending, Settled, Pending, Allocated
<1> QED BY <1>1, <1>2, <1>3, <1>4, <1>5, <1>6, <1>7 DEF Next

LEMMA Invariance == Spec => []IInv
  BY IInvInit, IInvStep, PTL DEF Spec

(***************************************************************************)
(* A handler that goes on after s2n_async_pkey_op_apply finds the one      *)
(* result of the operation it made itself, unless an operation of an       *)
(* earlier handshake at this address was outstanding when it asked.        *)
(* Nothing is asked of applications: operations are performed, set and     *)
(* freed, and connections wiped, freed and allocated again, at any moment. *)
(***************************************************************************)
THEOREM HandlersGetTheirOwnResult == Spec => []OwnResult
<1>1. IInv => OwnResult
  BY DEF IInv, Settled, OwnResult
<1> QED BY <1>1, Invariance, PTL

----------------------------------------------------------------------------
(***************************************************************************)
(* Refinement.                                                             *)
(***************************************************************************)
Phases == [c \in Connections |-> PhaseOf(conn[c])]
Requests == [c \in Connections |-> conn[c].request]
Answers == [c \in Connections |-> conn[c].result.of]
Opens == [c \in Connections |-> OpenRequests(c)]

(***************************************************************************)
(* The open requests of a connection, and how steps change them.           *)
(***************************************************************************)
LEMMA OpenIs ==
    ASSUME NEW c \in Connections
    PROVE  /\ \A n : n \in OpenRequests(c) <=>
                  \E o \in Operations : Pending(o) /\ op[o].conn = c /\ op[o].of = n
           /\ \A n : n \in OpenRequests(c)' <=>
                  \E o \in Operations : Pending(o)' /\ op'[o].conn = c /\ op'[o].of = n
<1>1. \A n : n \in OpenRequests(c) <=>
         \E o \in Operations : Pending(o) /\ op[o].conn = c /\ op[o].of = n
  BY DEF OpenRequests, Pending
<1>2. \A n : n \in OpenRequests(c)' <=>
         \E o \in Operations : Pending(o)' /\ op'[o].conn = c /\ op'[o].of = n
  BY DEF OpenRequests, Pending, Allocated
<1> QED BY <1>1, <1>2

LEMMA OpensUnchanged ==
    ASSUME \A p \in Operations : (Pending(p)' <=> Pending(p)) /\ (Pending(p) => SamePending(p))
    PROVE  Opens' = Opens
<1>1. ASSUME NEW c \in Connections PROVE OpenRequests(c)' = OpenRequests(c)
  <2>1. \A n : n \in OpenRequests(c)' <=> n \in OpenRequests(c)
    BY OpenIs DEF SamePending
  <2> QED BY <2>1
<1> QED BY <1>1 DEF Opens

LEMMA OpensGrow ==
    ASSUME NEW c \in Connections, NEW o \in Operations, ~Pending(o), Pending(o)', op'[o].conn = c,
           \A p \in Operations : p # o => (Pending(p)' <=> Pending(p)) /\ SamePending(p)
    PROVE  Opens' = [Opens EXCEPT ![c] = @ \cup {op'[o].of}]
<1>1. OpenRequests(c)' = OpenRequests(c) \cup {op'[o].of}
  <2>1. \A n : n \in OpenRequests(c)' <=> n \in OpenRequests(c) \/ n = op'[o].of
    <3>1. ASSUME NEW n, n \in OpenRequests(c)' PROVE n \in OpenRequests(c) \/ n = op'[o].of
      BY <3>1, OpenIs DEF SamePending
    <3>2. ASSUME NEW n, n \in OpenRequests(c) PROVE n \in OpenRequests(c)'
      BY <3>2, OpenIs DEF SamePending
    <3>3. op'[o].of \in OpenRequests(c)'
      BY OpenIs
    <3> QED BY <3>1, <3>2, <3>3
  <2> QED BY <2>1
<1>2. ASSUME NEW d \in Connections, d # c PROVE OpenRequests(d)' = OpenRequests(d)
  <2>1. \A n : n \in OpenRequests(d)' <=> n \in OpenRequests(d)
    BY <1>2, OpenIs DEF SamePending
  <2> QED BY <2>1
<1> QED BY <1>1, <1>2 DEF Opens

LEMMA OpensShrink ==
    ASSUME OwnPending, NEW c \in Connections, NEW o \in Operations,
           Pending(o), op[o].conn = c, ~Pending(o)',
           \A p \in Operations : p # o => (Pending(p)' <=> Pending(p)) /\ SamePending(p)
    PROVE  /\ Opens' = [Opens EXCEPT ![c] = @ \ {op[o].of}]
           /\ op[o].of \in Opens[c]
<1>1. OpenRequests(c)' = OpenRequests(c) \ {op[o].of}
  <2>1. \A n : n \in OpenRequests(c)' <=> n \in OpenRequests(c) /\ n # op[o].of
    <3>1. ASSUME NEW n, n \in OpenRequests(c)' PROVE n \in OpenRequests(c) /\ n # op[o].of
      <4>1. PICK p \in Operations : Pending(p)' /\ op'[p].conn = c /\ op'[p].of = n
        BY <3>1, OpenIs
      <4>2. p # o /\ Pending(p) /\ op[p].conn = c /\ op[p].of = n
        BY <4>1 DEF SamePending
      <4> QED BY <4>2, OpenIs DEF OwnPending
    <3>2. ASSUME NEW n, n \in OpenRequests(c), n # op[o].of PROVE n \in OpenRequests(c)'
      BY <3>2, OpenIs DEF SamePending
    <3> QED BY <3>1, <3>2
  <2> QED BY <2>1
<1>2. ASSUME NEW d \in Connections, d # c PROVE OpenRequests(d)' = OpenRequests(d)
  <2>1. \A n : n \in OpenRequests(d)' <=> n \in OpenRequests(d)
    BY <1>2, OpenIs DEF SamePending
  <2> QED BY <2>1
<1>3. op[o].of \in OpenRequests(c)
  BY OpenIs
<1> QED BY <1>1, <1>2, <1>3 DEF Opens

(***************************************************************************)
(* A step that changes one connection changes the three functions of the   *)
(* abstract state there.                                                   *)
(***************************************************************************)
LEMMA AbstractChange ==
    ASSUME NEW c \in Connections, Elsewhere(c)
    PROVE  /\ Phases' = [Phases EXCEPT ![c] = PhaseOf(conn'[c])]
           /\ Requests' = [Requests EXCEPT ![c] = conn'[c].request]
           /\ Answers' = [Answers EXCEPT ![c] = conn'[c].result.of]
           /\ (conn'[c].request = conn[c].request => Requests' = Requests)
           /\ (conn'[c].result.of = conn[c].result.of => Answers' = Answers)
<1>1. Phases' = [Phases EXCEPT ![c] = PhaseOf(conn'[c])]
  BY DEF Phases, Elsewhere
<1>2. Requests' = [Requests EXCEPT ![c] = conn'[c].request]
  BY DEF Requests, Elsewhere
<1>3. Answers' = [Answers EXCEPT ![c] = conn'[c].result.of]
  BY DEF Answers, Elsewhere
<1> QED BY <1>1, <1>2, <1>3 DEF Requests, Answers

LEMMA AbstractStep == IInv /\ [Next]_vars => [Abstract!Next]_(Abstract!vars)
<1> SUFFICES ASSUME IInv, [Next]_vars
             PROVE Abstract!Next \/ UNCHANGED Abstract!vars
  BY DEF Abstract!vars
<1> USE DEF IInv
<1>0. /\ op \in [Operations -> Operation \cup {NoOperation}]
      /\ \A o \in Operations : Pending(o) => op[o].conn \in Connections
  BY DEF TypeInv, TypeOK, Allocated, Operation, Pending
<1>1. ASSUME NEW c \in Connections, NEW o \in Operations, Invoke(c, o) PROVE Abstract!Ask(c)
  <2>1. PhaseOf(conn[c]) = "idle"
    BY <1>1 DEF Invoke, PhaseOf
  <2>2. PhaseOf(conn'[c]) = "asking"
    BY <1>1, InvokeEffect DEF PhaseOf, Invoke
  <2>3. Opens' = [Opens EXCEPT ![c] = @ \cup {conn[c].request + 1}]
    <3>1. ~Pending(o) /\ Pending(o)' /\ op'[o].conn = c /\ op'[o].of = conn[c].request + 1
      <4>1. ~Allocated(o)
        BY <1>1 DEF Invoke
      <4> QED BY <1>1, <4>1, InvokeEffect DEF Pending, Allocated
    <3>2. \A p \in Operations : p # o => (Pending(p)' <=> Pending(p)) /\ SamePending(p)
      BY <1>1, InvokeEffect DEF Pending, Allocated, OtherOperations, SamePending
    <3> QED BY <3>1, <3>2, OpensGrow
  <2>4. Elsewhere(c) /\ conn'[c].request = conn[c].request + 1 /\ conn'[c].result = conn[c].result
    BY <1>1, InvokeEffect
  <2>5. /\ Phases' = [Phases EXCEPT ![c] = "asking"] /\ Answers' = Answers /\ Phases[c] = "idle"
        /\ Requests' = [Requests EXCEPT ![c] = @ + 1] /\ Requests[c] = conn[c].request
    BY <2>1, <2>2, <2>4, AbstractChange DEF Requests, Phases
  <2>6. Opens' = [Opens EXCEPT ![c] = @ \cup {Requests[c] + 1}]
    BY <2>3, <2>5
  <2> QED BY <2>5, <2>6 DEF Abstract!Ask, Abstract!Move, Phases, Requests, Answers, Opens
<1>2. ASSUME NEW c \in Connections, NEW o \in Operations, s2n_async_pkey_op_apply(o, c)
      PROVE Abstract!Answer(c) \/ UNCHANGED Abstract!vars
  <2>1. \A p \in Operations : p # o => (Pending(p)' <=> Pending(p)) /\ SamePending(p)
    BY <1>2, ApplyEffect DEF Pending, Allocated, OtherOperations, SamePending
  <2>2. Pending(o) /\ op[o].conn = c
    BY <1>2, ApplyEffect DEF Pending, s2n_async_pkey_op_apply, CanApply
  <2>3. CASE op'[o].applied
    <3>1. /\ Elsewhere(c) /\ conn'[c].request = conn[c].request
          /\ conn'[c].result.of = op[o].of /\ conn'[c].async = "INVOKED_COMPLETE"
          /\ conn[c].async = "INVOKED_WAITING" /\ conn'[c].failed = conn[c].failed
      BY <1>2, <2>3, ApplyEffect
    <3>2. ~conn[c].failed
      BY <3>1 DEF Settled
    <3>3. PhaseOf(conn[c]) = "waiting" /\ PhaseOf(conn'[c]) = "answered"
      BY <3>1, <3>2 DEF PhaseOf
    <3>4. /\ Phases' = [Phases EXCEPT ![c] = "answered"] /\ Requests' = Requests
          /\ Answers' = [Answers EXCEPT ![c] = op[o].of]
      BY <3>1, <3>3, AbstractChange
    <3>5. Opens' = [Opens EXCEPT ![c] = @ \ {op[o].of}] /\ op[o].of \in Opens[c]
      <4>1. ~Pending(o)'
        BY <2>3 DEF Pending
      <4> QED BY <1>0, <2>1, <2>2, <4>1, OpensShrink
    <3> QED BY <3>3, <3>4, <3>5
        DEF Abstract!Answer, Abstract!Move, Phases, Requests, Answers, Opens
  <2>4. CASE ~op'[o].applied
    <3>1. conn' = conn /\ op'[o] \in Operation /\ SamePending(o)
      BY <1>2, <2>4, ApplyEffect DEF SamePending
    <3>2. Pending(o)'
      BY <2>4, <3>1 DEF Pending, Allocated, Operation, NoOperation
    <3>3. Opens' = Opens
      BY <2>1, <2>2, <3>1, <3>2, OpensUnchanged
    <3> QED BY <3>1, <3>3 DEF Abstract!vars, Opens
  <2> QED BY <2>3, <2>4
<1>3. ASSUME NEW c \in Connections, CallbackReturns(c) \/ s2n_handle_retry_state(c)
      PROVE Abstract!Wait(c) \/ Abstract!Refuse(c) \/ Abstract!Use(c)
  <2>1. \/ PhaseOf(conn[c]) = "asking" /\ PhaseOf(conn'[c]) \in {"waiting", "failed"}
        \/ PhaseOf(conn[c]) = "answered" /\ PhaseOf(conn'[c]) = "idle"
    <3>1. ~conn[c].failed
      BY <1>3, HandshakeEffect DEF Settled
    <3>2. CASE conn[c].async = "INVOKING_CALLBACK"
      <4>1. PhaseOf(conn[c]) = "asking"
        BY <3>1, <3>2 DEF PhaseOf
      <4>2. PhaseOf(conn'[c]) \in {"waiting", "failed"}
        BY <1>3, <3>2, HandshakeEffect DEF PhaseOf
      <4> QED BY <4>1, <4>2
    <3>3. CASE conn[c].async = "INVOKED_COMPLETE"
      <4>1. PhaseOf(conn[c]) = "answered"
        BY <3>1, <3>3 DEF PhaseOf
      <4>2. PhaseOf(conn'[c]) = "idle"
        BY <1>3, <3>1, <3>3, HandshakeEffect DEF PhaseOf
      <4> QED BY <4>1, <4>2
    <3> QED BY <1>3, <3>2, <3>3, HandshakeEffect
  <2>2. Opens' = Opens
    BY <1>3, HandshakeEffect, OpensUnchanged DEF Pending, Allocated, SamePending
  <2> QED BY <1>3, <2>1, <2>2, HandshakeEffect, AbstractChange
      DEF Abstract!Wait, Abstract!Refuse, Abstract!Use, Abstract!Move, Phases, Requests, Answers, Opens
<1>4. ASSUME NEW c \in Connections,
             s2n_connection_wipe(c) \/ s2n_connection_free(c) \/ s2n_connection_new(c)
      PROVE Abstract!Reset(c)
  <2>1. PhaseOf(conn'[c]) = "idle"
    BY <1>4, LifeEffect DEF PhaseOf
  <2>2. conn'[c].result.of = 0
    BY <1>4, LifeEffect DEF NoResult
  <2>3. Opens' = Opens
    BY <1>4, LifeEffect, OpensUnchanged DEF Pending, Allocated, SamePending
  <2> QED BY <1>4, <2>1, <2>2, <2>3, LifeEffect, AbstractChange
      DEF Abstract!Reset, Phases, Requests, Answers, Opens
<1>5. ASSUME NEW o \in Operations,
             \/ s2n_async_pkey_op_perform(o) \/ s2n_async_pkey_op_set_output(o)
             \/ s2n_async_pkey_op_set_validation_mode(o)
      PROVE UNCHANGED Abstract!vars
  <2>1. op[o] \in Operation /\ conn' = conn /\ SamePending(o) /\ op'[o].applied = op[o].applied
    BY <1>5, WorkEffect DEF SamePending
  <2>2. Allocated(o) /\ Allocated(o)'
    <3>1. op[o].type \in {"DECRYPT", "SIGN"} /\ op'[o].type = op[o].type
      BY <1>5, <2>1, WorkEffect DEF Operation
    <3> QED BY <3>1 DEF Allocated, NoOperation
  <2>3. \A p \in Operations : (Pending(p)' <=> Pending(p)) /\ SamePending(p)
    BY <1>5, <2>1, <2>2, WorkEffect DEF Pending, Allocated, OtherOperations, SamePending
  <2>4. Opens' = Opens
    BY <2>3, OpensUnchanged
  <2> QED BY <2>1, <2>4 DEF Abstract!vars, Opens
<1>6. ASSUME NEW o \in Operations, s2n_async_pkey_op_free(o)
      PROVE (\E c \in Connections : Abstract!GiveUp(c)) \/ UNCHANGED Abstract!vars
  <2>1. /\ conn' = conn /\ ~Pending(o)'
        /\ \A p \in Operations : p # o => (Pending(p)' <=> Pending(p)) /\ SamePending(p)
    BY <1>0, <1>6 DEF s2n_async_pkey_op_free, Pending, Allocated, SamePending
  <2>2. CASE Pending(o)
    <3>0. PICK c \in Connections : op[o].conn = c
      BY <1>0, <2>2
    <3>1. Opens' = [Opens EXCEPT ![c] = @ \ {op[o].of}] /\ op[o].of \in Opens[c]
      BY <3>0, <2>1, <2>2, OpensShrink
    <3>2. Abstract!GiveUp(c)
      BY <2>1, <3>1 DEF Abstract!GiveUp, Opens
    <3> QED BY <3>2
  <2>3. CASE ~Pending(o)
    <3>1. Opens' = Opens
      BY <2>1, <2>3, OpensUnchanged
    <3> QED BY <2>1, <3>1 DEF Abstract!vars, Opens
  <2> QED BY <2>2, <2>3
<1>7. ASSUME UNCHANGED vars PROVE UNCHANGED Abstract!vars
  <2>1. Opens' = Opens
    BY <1>7, OpensUnchanged DEF vars, Pending, Allocated, SamePending
  <2> QED BY <1>7, <2>1 DEF vars, Abstract!vars, Opens
<1> QED BY <1>1, <1>2, <1>3, <1>4, <1>5, <1>6, <1>7 DEF Next, Abstract!Next

LEMMA AbstractInit == Init => Abstract!Init
BY DEF Init, Abstract!Init, NewConnection, NoResult, PhaseOf, OpenRequests, Allocated

(***************************************************************************)
(* s2n_async_pkey.c implements the request of PkeyRequest: a handshake is  *)
(* answered once, while it waits and never before the callback returned,   *)
(* with the answer to a request of this connection that was neither        *)
(* answered nor freed, and that answers nothing else later.                *)
(***************************************************************************)
THEOREM RequestIsImplemented == Spec => RequestsAnswered
<1>1. IInv /\ [Next]_vars => [Abstract!Next]_(Abstract!vars)
  BY AbstractStep
<1> QED BY <1>1, AbstractInit, Invariance, PTL DEF Spec, RequestsAnswered, Abstract!Spec

----------------------------------------------------------------------------
(***************************************************************************)
(* A strict signature that a handshake goes on with was verified, also if  *)
(* connections are reused and applications set outputs and modes at will.  *)
(***************************************************************************)
THEOREM StrictSignaturesAreValid == Spec => []StrictIsValid
<1>1. Init => StrictIsValid
  BY DEF Init, StrictIsValid, NewConnection, NoResult
<1>2. TypeInv /\ StrictIsValid /\ [Next]_vars => StrictIsValid'
  <2> SUFFICES ASSUME TypeInv, StrictIsValid, [Next]_vars PROVE StrictIsValid'
    OBVIOUS
  <2>1. ASSUME NEW c \in Connections, NEW o \in Operations, Invoke(c, o)
        PROVE StrictIsValid'
    BY <2>1, InvokeEffect DEF StrictIsValid, Elsewhere
  <2>2. ASSUME NEW c \in Connections, NEW o \in Operations, s2n_async_pkey_op_apply(o, c)
        PROVE StrictIsValid'
    <3>1. CASE Applies(op[o])
      <4> DEFINE r == [of |-> op[o].of, value |-> op[o].output,
                       strict |-> op[o].type = "SIGN" /\ op[o].mode = "STRICT"]
      <4>1. conn' = [conn EXCEPT ![c] = [conn[c] EXCEPT !.result = r, !.completions = @ + 1,
                                                        !.async = "INVOKED_COMPLETE"]]
        BY <2>2, <3>1 DEF s2n_async_pkey_op_apply
      <4>2. r.strict => r.value = "good"
        BY <3>1 DEF Applies, s2n_async_pkey_sign_apply
      <4> HIDE DEF r
      <4>3. conn'[c].result = r
        BY <4>1 DEF TypeInv, TypeOK, Connection
      <4> QED BY <2>2, <4>2, <4>3, ApplyEffect DEF StrictIsValid, Elsewhere
    <3>2. CASE ~Applies(op[o])
      BY <2>2, <3>2 DEF s2n_async_pkey_op_apply, StrictIsValid
    <3> QED BY <3>1, <3>2
  <2>3. ASSUME NEW c \in Connections, CallbackReturns(c) \/ s2n_handle_retry_state(c)
        PROVE StrictIsValid'
    BY <2>3, HandshakeEffect DEF StrictIsValid, Elsewhere
  <2>4. ASSUME NEW c \in Connections,
               s2n_connection_wipe(c) \/ s2n_connection_free(c) \/ s2n_connection_new(c)
        PROVE StrictIsValid'
    BY <2>4, LifeEffect DEF StrictIsValid, Elsewhere, NoResult
  <2>5. ASSUME NEW o \in Operations,
               \/ s2n_async_pkey_op_perform(o) \/ s2n_async_pkey_op_set_output(o)
               \/ s2n_async_pkey_op_set_validation_mode(o) \/ s2n_async_pkey_op_free(o)
        PROVE StrictIsValid'
    BY <2>5, WorkEffect DEF StrictIsValid, s2n_async_pkey_op_free
  <2>6. ASSUME UNCHANGED vars PROVE StrictIsValid'
    BY <2>6 DEF vars, StrictIsValid
  <2> QED BY <2>1, <2>2, <2>3, <2>4, <2>5, <2>6 DEF Next
<1>3. Spec => []TypeInv
  BY TypeInit, TypeStep, PTL DEF Spec
<1> QED BY <1>1, <1>2, <1>3, PTL DEF Spec
============================================================================
